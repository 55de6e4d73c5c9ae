---------------------------- MODULE HooksProofs ----------------------------
(***************************************************************************)
(* The hooks reach the services: for any list of hooks, any units and any  *)
(* number of renewals.  Served looks at the moment when the hooks are      *)
(* through; the invariant says what is still to come before that: a        *)
(* service that runs with an older certificate, and has no job queued, has *)
(* a hook ahead of it.  Fairness plays no part in these proofs.            *)
(***************************************************************************)
EXTENDS Hooks, TLAPS

\* The unit will run with an older certificate if nothing more happens to it.
Behind(u) ==
    unit[u] \in {"active", "started", "reloaded"} /\ loaded[u] # installed /\ job[u] = "none"

\* The hook at hand, or a later one, is for the unit.
Ahead(u) == pc # "idle" /\ \E j \in DOMAIN HookList : j >= hi /\ HookList[j].unit = u

ServedInv == \A u \in Hooked \ missed : Behind(u) => Ahead(u)

\* A restart that waits for a stopped unit, or is about to be asked for, is one that
\* the stop overtook.
StoppedInv ==
    /\ \A u \in Units : job[u] = "restart" /\ unit[u] = "inactive" => u \in stopped
    /\ pc = "call" /\ unit[Hook.unit] = "inactive" => Hook.unit \in stopped

HooksInv ==
    /\ TypeOK
    /\ pc = "idle" => hi = 1
    /\ pc \in {"check", "call"} => Hook.kind # "command"
    /\ ServedInv
    /\ StoppedInv

-----------------------------------------------------------------------------
\* The hooks of the list, and the one at hand.
LEMMA HookType ==
    /\ Len(HookList) \in Nat \ {0} /\ DOMAIN HookList = 1..Len(HookList)
    /\ \A j \in DOMAIN HookList :
         HookList[j].kind \in {"reload", "restart", "command"} /\ HookList[j].unit \in Units
    /\ Hooked \subseteq Units
<1> DEFINE H == [kind: {"reload", "restart", "command"}, unit: Units]
<1>1. HookList \in Seq(H)
  BY HooksAssumption
<1>2. HookList # << >>
  BY HooksAssumption
<1>3. Len(HookList) \in Nat \ {0} /\ DOMAIN HookList = 1..Len(HookList)
  BY <1>1, <1>2
<1>4. \A j \in DOMAIN HookList : HookList[j] \in H
  <2> HIDE DEF H
  <2> QED
    BY <1>1, <1>3
<1> QED
  BY <1>3, <1>4 DEF Hooked

\* run_hooks goes on with the next hook: the unit of this one must be provided for.
LEMMA NextHookInv ==
    ASSUME HooksInv, NextHook, pc # "idle", UNCHANGED installed,
           \A u \in Hooked \ missed' : Behind(u)' =>
             u # Hook.unit /\ u \notin missed /\ Behind(u)
    PROVE  /\ ServedInv'
           /\ pc' \in {"idle", "hook"} /\ hi' \in DOMAIN HookList
           /\ pc' = "idle" => hi' = 1
<1>1. hi \in DOMAIN HookList /\ hi \in Nat
  BY HookType DEF HooksInv, TypeOK
<1>2. ASSUME NEW u \in Hooked \ missed', Behind(u)' PROVE Ahead(u)'
  <2>1. u # Hook.unit /\ Behind(u) /\ u \in Hooked \ missed
    BY <1>2
  <2>2. PICK j \in DOMAIN HookList : j >= hi /\ HookList[j].unit = u
    BY <2>1 DEF HooksInv, ServedInv, Ahead
  <2>3. j # hi
    BY <2>1, <2>2 DEF Hook
  <2>4. hi < Len(HookList) /\ j >= hi + 1
    BY <1>1, <2>2, <2>3, HookType
  <2>5. pc' = "hook" /\ hi' = hi + 1
    BY <2>4 DEF NextHook
  <2> QED
    BY <2>2, <2>4, <2>5 DEF Ahead
<1>3. pc' \in {"idle", "hook"} /\ hi' \in DOMAIN HookList /\ (pc' = "idle" => hi' = 1)
  BY <1>1, HookType DEF NextHook
<1> QED
  BY <1>2, <1>3 DEF ServedInv

\* A step of systemd or of somebody else: certforge stays where it is.
LEMMA UnitStepInv ==
    ASSUME HooksInv, UNCHANGED <<installed, pc, hi>>,
           \A u \in Hooked \ missed' : Behind(u)' => u \notin missed /\ Behind(u)
    PROVE  ServedInv'
  BY DEF HooksInv, ServedInv, Ahead

-----------------------------------------------------------------------------
\* The steps of the hooks.
LEMMA CertforgeInv == ASSUME HooksInv, Certforge PROVE HooksInv'
<1> USE DEF HooksInv
<1>0. /\ hi \in DOMAIN HookList /\ Hook.unit \in Units
      /\ Hook.kind \in {"reload", "restart", "command"}
  BY HookType DEF TypeOK, Hook
<1>1. CASE GetUnit
  <2>1. ServedInv'
    BY <1>1 DEF GetUnit, ServedInv, Behind, Ahead, system
  <2> QED
    BY <1>1, <2>1 DEF GetUnit, TypeOK, StoppedInv, Hook, system
<1>2. CASE CheckActive
  <2>1. CASE ActiveState(unit[Hook.unit]) = "active"
    <3>1. /\ pc = "check" /\ pc' = "call" /\ stopped' = stopped \ {Hook.unit}
          /\ UNCHANGED <<hi, missed, unit, loaded, job, installed>>
      BY <1>2, <2>1 DEF CheckActive, system
    <3>2. unit[Hook.unit] = "active"
      BY <1>0, <2>1 DEF ActiveState, TypeOK
    <3>3. ServedInv'
      BY <3>1 DEF ServedInv, Behind, Ahead
    <3> QED
      BY <3>1, <3>2, <3>3 DEF TypeOK, StoppedInv, Hook
  <2>2. CASE ActiveState(unit[Hook.unit]) # "active"
    <3>1. /\ pc = "check" /\ Misses(Hook.unit) /\ NextHook
          /\ UNCHANGED <<stopped, unit, loaded, job, installed>>
      BY <1>2, <2>2 DEF CheckActive, system
    <3>2. \A u \in Hooked \ missed' : Behind(u)' => u # Hook.unit /\ u \notin missed /\ Behind(u)
      BY <3>1 DEF Misses, Behind
    <3>3. /\ ServedInv' /\ pc' \in {"idle", "hook"} /\ hi' \in DOMAIN HookList
          /\ pc' = "idle" => hi' = 1
      BY <3>1, <3>2, NextHookInv
    <3> QED
      BY <1>0, <3>1, <3>3 DEF TypeOK, StoppedInv, Misses
  <2> QED
    BY <2>1, <2>2
<1>3. CASE CallMethod
  <2>1. /\ pc = "call" /\ NextHook /\ UNCHANGED <<unit, loaded, installed, missed, stopped>>
        /\ job' = IF Hook.kind = "restart" \/ unit[Hook.unit] # "inactive"
                    THEN [job EXCEPT ![Hook.unit] = Hook.kind] ELSE job
    BY <1>3 DEF CallMethod
  <2>2. Hook.kind \in {"reload", "restart"}
    BY <1>0, <2>1
  <2>3. \A u \in Units : u # Hook.unit => job'[u] = job[u]
    BY <2>1 DEF TypeOK
  <2>4. job'[Hook.unit] = Hook.kind \/ (unit[Hook.unit] = "inactive" /\ job' = job)
    BY <1>0, <2>1 DEF TypeOK
  <2>5. \A u \in Hooked \ missed' : Behind(u)' => u # Hook.unit /\ u \notin missed /\ Behind(u)
    BY <2>1, <2>2, <2>3, <2>4, HookType DEF Behind
  <2>6. /\ ServedInv' /\ pc' \in {"idle", "hook"} /\ hi' \in DOMAIN HookList
        /\ pc' = "idle" => hi' = 1
    BY <2>1, <2>5, NextHookInv
  <2>7. job' \in [Units -> {"none", "reload", "restart"}]
    BY <2>1, <2>2 DEF TypeOK
  <2>8. StoppedInv'
    BY <2>1, <2>3, <2>4, <2>6 DEF StoppedInv
  <2> QED
    BY <2>1, <2>6, <2>7, <2>8 DEF TypeOK
<1>4. CASE RunCommand
  <2>1. /\ pc = "hook" /\ NextHook /\ UNCHANGED <<unit, job, installed, stopped>>
        /\ missed' = missed \ {Hook.unit}
        /\ loaded' = [loaded EXCEPT ![Hook.unit] = IF unit[Hook.unit] = "inactive" THEN @ ELSE installed]
    BY <1>4 DEF RunCommand
  <2>2. /\ \A u \in Units : u # Hook.unit => loaded'[u] = loaded[u]
        /\ unit[Hook.unit] = "inactive" \/ loaded'[Hook.unit] = installed
        /\ loaded' \in [Units -> 0..MaxRenewals]
    BY <1>0, <2>1 DEF TypeOK
  <2>3. \A u \in Hooked \ missed' : Behind(u)' => u # Hook.unit /\ u \notin missed /\ Behind(u)
    BY <2>1, <2>2, HookType DEF Behind
  <2>4. /\ ServedInv' /\ pc' \in {"idle", "hook"} /\ hi' \in DOMAIN HookList
        /\ pc' = "idle" => hi' = 1
    BY <2>1, <2>3, NextHookInv
  <2> QED
    BY <2>1, <2>2, <2>4 DEF TypeOK, StoppedInv
<1>5. CASE HookFails
  <2>1. /\ pc # "idle" /\ NextHook /\ Misses(Hook.unit)
        /\ UNCHANGED <<unit, loaded, job, installed, stopped>>
    BY <1>5 DEF HookFails, system
  <2>2. \A u \in Hooked \ missed' : Behind(u)' => u # Hook.unit /\ u \notin missed /\ Behind(u)
    BY <2>1 DEF Misses, Behind
  <2>3. /\ ServedInv' /\ pc' \in {"idle", "hook"} /\ hi' \in DOMAIN HookList
        /\ pc' = "idle" => hi' = 1
    BY <2>1, <2>2, NextHookInv
  <2> QED
    BY <1>0, <2>1, <2>3 DEF TypeOK, StoppedInv, Misses
<1> QED
  BY <1>1, <1>2, <1>3, <1>4, <1>5 DEF Certforge

\* Jobs, starts, reloads and stops, between any two messages of certforge.
LEMMA UnitInv ==
    ASSUME HooksInv, NEW v \in Units,
           Systemd(v) \/ OperatorStarts(v) \/ OperatorReloads(v) \/ OperatorStops(v)
    PROVE  HooksInv'
<1> USE DEF HooksInv
<1>0. UNCHANGED <<installed, pc, hi>>
  BY DEF Systemd, RunReload, RunRestart, ReadsCert, IsUp, OperatorStarts, OperatorReloads,
         OperatorStops
<1>1. TypeOK'
  BY DEF Systemd, RunReload, RunRestart, ReadsCert, IsUp, OperatorStarts, OperatorReloads,
         OperatorStops, SetUnit, Read, TypeOK
<1>2. \A u \in Units : Behind(u)' /\ u \notin missed' => u \notin missed /\ Behind(u)
  BY DEF Systemd, RunReload, RunRestart, ReadsCert, IsUp, OperatorStarts, OperatorReloads,
         OperatorStops, SetUnit, Read, TypeOK, Behind
<1>3. ServedInv'
  BY <1>0, <1>2, UnitStepInv, HookType
<1>4. StoppedInv'
  <2>1. Hook' = Hook /\ stopped \subseteq stopped'
    BY <1>0 DEF Hook, Systemd, RunReload, RunRestart, ReadsCert, IsUp, OperatorStarts,
         OperatorReloads, OperatorStops
  <2>2. \A u \in Units : unit'[u] = "inactive" => unit[u] = "inactive" \/ u \in stopped'
    BY DEF Systemd, RunReload, RunRestart, ReadsCert, IsUp, OperatorStarts,
         OperatorReloads, OperatorStops, SetUnit, TypeOK
  <2>3. \A u \in Units : job'[u] = "restart" => job[u] = "restart"
    BY DEF Systemd, RunReload, RunRestart, ReadsCert, IsUp, OperatorStarts,
         OperatorReloads, OperatorStops, TypeOK
  <2>4. Hook.unit \in Units
    BY HookType DEF Hook, TypeOK
  <2> QED
    BY <1>0, <2>1, <2>2, <2>3, <2>4 DEF StoppedInv
<1> QED
  BY <1>0, <1>1, <1>3, <1>4 DEF Hook

\* A renewal puts every hooked service behind, and every hook ahead of it.
LEMMA RenewInv == ASSUME HooksInv, Renew PROVE HooksInv'
<1> USE DEF HooksInv
<1>1. /\ pc = "idle" /\ hi = 1 /\ hi' = 1 /\ pc' = "hook" /\ installed' = installed + 1
      /\ installed < MaxRenewals /\ UNCHANGED <<unit, loaded, job, missed, stopped>>
  BY DEF Renew, system
<1>2. \A u \in Hooked : Ahead(u)'
  BY <1>1, HookType DEF Hooked, Ahead
<1> QED
  BY <1>1, <1>2, HooksAssumption DEF TypeOK, ServedInv, StoppedInv

\* The units that the killed process has not reached are noted as missed.
LEMMA CrashInv == ASSUME HooksInv, Crash PROVE HooksInv'
<1> USE DEF HooksInv
<1>1. /\ pc' = "idle" /\ hi' = 1 /\ UNCHANGED <<unit, loaded, job, installed, stopped>>
      /\ missed' = missed \cup {u \in Units : loaded[u] # installed}
  BY DEF Crash, system
<1>2. ServedInv'
  BY <1>1, HookType DEF ServedInv, Behind
<1> QED
  BY <1>1, <1>2, HookType DEF TypeOK, StoppedInv

-----------------------------------------------------------------------------
\* The initial states.
LEMMA HooksInit == Init => HooksInv
  BY HookType, HooksAssumption DEF Init, HooksInv, TypeOK, ServedInv, StoppedInv, Behind

\* The inductive step.
LEMMA HooksNext == ASSUME HooksInv, [Next]_vars PROVE HooksInv'
<1>1. CASE UNCHANGED vars
  BY <1>1 DEF vars, HooksInv, TypeOK, ServedInv, StoppedInv, Behind, Ahead, Hook
<1> QED
  BY <1>1, CertforgeInv, UnitInv, RenewInv, CrashInv DEF Next

\* The inductive invariant.
THEOREM HooksInvariant == Spec => []HooksInv
<1>1. HooksInv /\ [Next]_vars => HooksInv'
  BY HooksNext
<1> QED
  BY <1>1, HooksInit, PTL DEF Spec

\* Once the hooks are through and the jobs done, every running service that no
\* failure has left out has the installed certificate.
THEOREM ServicesServed == Spec => []Served
<1>1. HooksInv => Served
  BY DEF HooksInv, ServedInv, Served, Behind, Ahead
<1> QED
  BY <1>1, HooksInvariant, PTL

\* No hook starts a service that was not running when its state was read.
THEOREM StoppedStaysStopped == Spec => NotStarted
<1>1. HooksInv => \A u \in Units :
        unit[u] = "inactive" /\ job[u] = "restart" /\ unit'[u] = "activating" => u \in stopped
  BY DEF HooksInv, StoppedInv
<1> QED
  BY <1>1, HooksInvariant, PTL DEF NotStarted
=============================================================================
