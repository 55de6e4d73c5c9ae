-------------------------------- MODULE Hooks --------------------------------
(***************************************************************************)
(* The hooks of a renewed certificate (hooks.rs) against systemd and the   *)
(* services it runs.  systemd_unit_action asks for the unit, reads its     *)
(* ActiveState, and then calls ReloadUnit or RestartUnit, which queues a   *)
(* job and returns: three messages, between which the unit is started,     *)
(* stopped and reloaded by others, and a job that runs after the hook has  *)
(* returned.  systemd and the services are modelled from this use.         *)
(***************************************************************************)
EXTENDS Naturals, Sequences

CONSTANTS
    Units,
    HookList,      \* the hooks of the certificate, in order: kind and unit
    MaxRenewals    \* bound on the number of renewals

ASSUME HooksAssumption ==
    /\ HookList \in Seq([kind: {"reload", "restart", "command"}, unit: Units]) /\ HookList # << >>
    /\ MaxRenewals \in Nat \ {0}

VARIABLES
    \* systemd and the services
    unit,       \* state of each unit; "started" and "reloaded" have read the certificate
    loaded,     \* the certificate in use
    job,        \* queued job
    \* certforge
    installed,  \* the certificate at cert_path, by number
    pc, hi,     \* step and hook
    \* history
    missed,     \* units that a failed or skipped hook has left with an older certificate
    stopped     \* units stopped since their ActiveState was read

system == <<unit, loaded, job>>
vars == <<unit, loaded, job, installed, pc, hi, missed, stopped>>

-----------------------------------------------------------------------------
ActiveState(s) ==
    CASE s \in {"activating", "started"} -> "activating"
      [] s \in {"reloading", "reloaded"} -> "reloading"
      [] OTHER                           -> s

Hook == HookList[hi]

\* run_hooks goes on whatever the result.
NextHook ==
    IF hi < Len(HookList) THEN pc' = "hook" /\ hi' = hi + 1 ELSE pc' = "idle" /\ hi' = 1

\* The unit of the hook is left with what it has.
Misses(u) ==
    missed' = IF unit[u] \in {"active", "started", "reloaded"} /\ loaded[u] # installed
                THEN missed \cup {u} ELSE missed

\* A renewal installs a certificate, and its hooks follow.
Renew ==
    /\ pc = "idle" /\ installed < MaxRenewals
    /\ installed' = installed + 1
    /\ pc' = "hook"
    /\ UNCHANGED <<system, hi, missed, stopped>>

\* Connects to the system bus; GetUnit succeeds for a unit that systemd has loaded.
GetUnit ==
    /\ pc = "hook" /\ Hook.kind # "command"
    /\ pc' = "check"
    /\ UNCHANGED <<system, installed, hi, missed, stopped>>

\* Mutant: the unit is reloaded or restarted in any state.
CheckNothing ==
    /\ pc = "check"
    /\ pc' = "call" /\ UNCHANGED <<hi, missed>>
    /\ stopped' = stopped \ {Hook.unit}
    /\ UNCHANGED <<system, installed>>

\* Mutant: the test is the wrong way round.
CheckInactive ==
    /\ pc = "check"
    /\ IF ActiveState(unit[Hook.unit]) # "active"
         THEN pc' = "call" /\ stopped' = stopped \ {Hook.unit} /\ UNCHANGED hi
         ELSE NextHook /\ UNCHANGED stopped
    /\ UNCHANGED <<system, installed, missed>>

CheckActive ==
    /\ pc = "check"
    /\ IF ActiveState(unit[Hook.unit]) = "active"
         THEN pc' = "call" /\ stopped' = stopped \ {Hook.unit} /\ UNCHANGED <<hi, missed>>
         ELSE Misses(Hook.unit) /\ NextHook /\ UNCHANGED stopped
    /\ UNCHANGED <<system, installed>>

\* ReloadUnit and RestartUnit with mode "replace".  ReloadUnit is refused for a unit
\* that is not running; RestartUnit starts it.
CallMethod ==
    /\ pc = "call"
    /\ job' = IF Hook.kind = "restart" \/ unit[Hook.unit] # "inactive"
                THEN [job EXCEPT ![Hook.unit] = Hook.kind] ELSE job
    /\ NextHook
    /\ UNCHANGED <<unit, loaded, installed, missed, stopped>>

\* run_command awaits the command, which has the service read its certificate.
RunCommand ==
    /\ pc = "hook" /\ Hook.kind = "command"
    /\ loaded' = [loaded EXCEPT ![Hook.unit] = IF unit[Hook.unit] = "inactive" THEN @ ELSE installed]
    /\ missed' = missed \ {Hook.unit}
    /\ NextHook
    /\ UNCHANGED <<unit, job, installed, stopped>>

\* Mutant: a hook that fails is tried again.
HookRetried ==
    /\ pc \in {"hook", "check", "call"}
    /\ pc' = "hook"
    /\ UNCHANGED <<system, installed, hi, missed, stopped>>

\* The bus or systemd returns an error at any of the calls, or the command fails;
\* the error is logged.
HookFails ==
    /\ pc \in {"hook", "check", "call"}
    /\ Misses(Hook.unit)
    /\ NextHook
    /\ UNCHANGED <<system, installed, stopped>>

-----------------------------------------------------------------------------
(***************************************************************************)
(* systemd and the services.                                               *)
(***************************************************************************)
SetUnit(u, s) == unit' = [unit EXCEPT ![u] = s]

\* A start, reload or restart reads the certificate on its way.
Read(u) == loaded' = [loaded EXCEPT ![u] = installed] /\ missed' = missed \ {u}

RunReload(u) ==
    /\ job[u] = "reload"
    /\ unit[u] = "active"
    /\ SetUnit(u, "reloading")
    /\ job' = [job EXCEPT ![u] = "none"]
    /\ UNCHANGED <<loaded, installed, pc, hi, missed, stopped>>

RunRestart(u) ==
    /\ job[u] = "restart"
    /\ SetUnit(u, "activating")
    /\ job' = [job EXCEPT ![u] = "none"]
    /\ UNCHANGED <<loaded, installed, pc, hi, missed, stopped>>

ReadsCert(u) ==
    /\ \/ unit[u] = "activating" /\ SetUnit(u, "started")
       \/ unit[u] = "reloading" /\ SetUnit(u, "reloaded")
    /\ Read(u)
    /\ UNCHANGED <<job, installed, pc, hi, stopped>>

IsUp(u) ==
    /\ unit[u] \in {"started", "reloaded"}
    /\ SetUnit(u, "active")
    /\ UNCHANGED <<loaded, job, installed, pc, hi, missed, stopped>>

\* Somebody else starts, stops or reloads the service.
OperatorStarts(u) ==
    /\ unit[u] = "inactive"
    /\ SetUnit(u, "activating")
    /\ UNCHANGED <<loaded, job, installed, pc, hi, missed, stopped>>

OperatorReloads(u) ==
    /\ unit[u] = "active" /\ job[u] = "none"
    /\ SetUnit(u, "reloading")
    /\ UNCHANGED <<loaded, job, installed, pc, hi, missed, stopped>>

\* A queued reload goes with the unit.
OperatorStops(u) ==
    /\ unit[u] # "inactive"
    /\ SetUnit(u, "inactive")
    /\ job' = [job EXCEPT ![u] = "none"]
    /\ missed' = missed \ {u}
    /\ stopped' = stopped \cup {u}
    /\ UNCHANGED <<loaded, installed, pc, hi>>

\* certforge is killed; the hooks that are left are never run.
Crash ==
    /\ pc # "idle"
    /\ pc' = "idle" /\ hi' = 1
    /\ missed' = missed \cup {u \in Units : loaded[u] # installed}
    /\ UNCHANGED <<system, installed, stopped>>

Init ==
    /\ unit \in [Units -> {"inactive", "active"}]
    /\ loaded = [u \in Units |-> 0]
    /\ job = [u \in Units |-> "none"]
    /\ installed = 0
    /\ pc = "idle" /\ hi = 1
    /\ missed = {} /\ stopped = {}

Certforge == GetUnit \/ CheckActive \/ CallMethod \/ RunCommand \/ HookFails
Systemd(u) == RunReload(u) \/ RunRestart(u) \/ ReadsCert(u) \/ IsUp(u)

Next ==
    \/ Renew \/ Certforge \/ Crash
    \/ \E u \in Units : Systemd(u) \/ OperatorStarts(u) \/ OperatorReloads(u) \/ OperatorStops(u)

\* The runtime polls certforge, and systemd works its queue off.
Fairness == WF_vars(Certforge) /\ \A u \in Units : WF_vars(Systemd(u))

Spec == Init /\ [][Next]_vars /\ Fairness

-----------------------------------------------------------------------------
\* Types; the index of a hook is in the list.
TypeOK ==
    /\ unit \in [Units -> {"inactive", "activating", "started", "active", "reloading", "reloaded"}]
    /\ loaded \in [Units -> 0..MaxRenewals]
    /\ job \in [Units -> {"none", "reload", "restart"}]
    /\ installed \in 0..MaxRenewals
    /\ pc \in {"idle", "hook", "check", "call"}
    /\ hi \in DOMAIN HookList
    /\ missed \subseteq Units /\ stopped \subseteq Units

Hooked == {HookList[i].unit : i \in DOMAIN HookList}

\* When the hooks are through and no job is left, every running service has the
\* installed certificate, whatever was started, stopped or reloaded meanwhile: the
\* units that are not active when asked are the ones that will still read it.  Left
\* out are the units whose hook failed, and those that the test for "active" has
\* skipped in a start or reload that had already read the older certificate.
Served ==
    \A u \in Hooked \ missed :
      pc = "idle" /\ unit[u] = "active" /\ job[u] = "none" => loaded[u] = installed

\* A service that is not running is not started ("don't start a stopped service"),
\* unless it was stopped between the test and the call.
NotStarted ==
    [][\A u \in Units :
         unit[u] = "inactive" /\ job[u] = "restart" /\ unit'[u] = "activating" => u \in stopped]_vars

\* A service whose certificate is renewed takes the new one up, or is stopped, or is
\* one that was missed: the hooks end whatever fails, and the queued jobs are run.
Converges ==
    \A u \in Hooked :
      (installed = MaxRenewals) ~>
        (loaded[u] = installed \/ unit[u] = "inactive" \/ u \in missed)
==============================================================================
