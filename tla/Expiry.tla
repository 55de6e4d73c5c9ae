------------------------------- MODULE Expiry -------------------------------
(***************************************************************************)
(* When a certificate is renewed (certs.rs, the expiry check of            *)
(* renew_certificate, and the daily timer of examples/certforge.timer).    *)
(* Time is in seconds; the state is looked at after each run of the timer, *)
(* and a run that has to renew may fail.                                   *)
(***************************************************************************)
EXTENDS Integers

CONSTANTS
    RenewBeforeDays,  \* renew_before_days
    Lifetime,         \* seconds a new certificate is valid for
    Delays,           \* the timer's random delays (RandomizedDelaySec)
    MaxFailures       \* bound: failed runs in a row

Day == 86400
HalfDay == 43200

ASSUME ExpiryBounds ==
    /\ RenewBeforeDays \in Nat
    /\ MaxFailures \in Nat
    /\ Delays \subseteq {d \in Nat : d < HalfDay}

\* A certificate is not due as soon as it is issued.
ASSUME LifetimeLong == Lifetime \in Nat /\ Lifetime >= RenewBeforeDays * Day + HalfDay

VARIABLES
    left,    \* seconds until not_after, when the latest run looked or renewed
    delay,   \* random delay of the latest run
    failed   \* renewals that have failed in a row

vars == <<left, delay, failed>>

\* The division of integers in Rust rounds towards zero.
Quotient(n, d) == IF n >= 0 THEN n \div d ELSE -((-n) \div d)

\* Mutant: whole days are counted.
WholeDays(secs) == Quotient(secs, Day)

\* CertInfo::days_until_expiry
DaysUntilExpiry(secs) ==
    IF secs >= 0 THEN Quotient(secs + HalfDay, Day) ELSE Quotient(secs - HalfDay, Day)

\* Mutant: the last day is left out.
ExpiresBefore(secs, days) == DaysUntilExpiry(secs) < days

\* CertInfo::expires_within_days
ExpiresWithinDays(secs, days) == DaysUntilExpiry(secs) <= days

\* Seconds left when the timer has fired again, with a random delay d.
LeftAt(d) == left - (Day + d - delay)

NotDue ==
    /\ \E d \in Delays :
         /\ ~ExpiresWithinDays(LeftAt(d), RenewBeforeDays)
         /\ left' = LeftAt(d)
         /\ delay' = d
    /\ failed' = 0

Renew ==
    /\ \E d \in Delays :
         /\ ExpiresWithinDays(LeftAt(d), RenewBeforeDays)
         /\ left' = Lifetime
         /\ delay' = d
    /\ failed' = 0

RenewFails ==
    /\ failed < MaxFailures
    /\ \E d \in Delays :
         /\ ExpiresWithinDays(LeftAt(d), RenewBeforeDays)
         /\ left' = LeftAt(d)
         /\ delay' = d
    /\ failed' = failed + 1

Init ==
    /\ left = Lifetime
    /\ delay \in Delays
    /\ failed = 0

Next == NotDue \/ Renew \/ RenewFails

Spec == Init /\ [][Next]_vars

-----------------------------------------------------------------------------
\* The variables are integers in their ranges.
TypeOK == left \in Int /\ delay \in Delays /\ failed \in 0..MaxFailures

\* A run renews exactly in the last renew_before_days and a half of validity, up
\* to the second; expired certificates included.  This is what the rounding does, not
\* what CHANGELOG.md:28 claims for it: with renew_before_days = 3 a certificate with 3
\* days and 23 hours left is still not renewed, days_until_expiry has it at 4.
Boundary ==
    \A d \in Delays :
      ExpiresWithinDays(LeftAt(d), RenewBeforeDays)
        <=> LeftAt(d) < RenewBeforeDays * Day + HalfDay

\* What the delay adds to the validity a run sees is taken from that of the next: the
\* strengthening of StillValid that is inductive.
Schedule == left + delay >= (RenewBeforeDays - failed) * Day + HalfDay

\* The certificate is still valid when renew_before_days renewals in a row have
\* failed: the rounding absorbs the random delay of the timer.
StillValid == failed <= RenewBeforeDays => left > 0
=============================================================================
