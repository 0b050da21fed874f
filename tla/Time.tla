-------------------------------- MODULE Time --------------------------------
(***************************************************************************)
(* Times of <time.h> in seconds and parts of one, both of the same sign,   *)
(* as the deadlines of the library are: added, subtracted, compared and    *)
(* converted, in any order.                                                *)
(***************************************************************************)
EXTENDS Integers

CONSTANTS
    Prec,       \* NDM_TIME_PREC, parts of a second
    Scale,      \* NDM_TIME_SEC, _MSEC, _USEC, _NSEC: units of a second
    MaxSec,     \* bound: seconds of a time
    Amount      \* units that are added, subtracted or converted from

\* A second is a whole number of parts, and of each unit.
ASSUME PrecAssumption ==
    /\ Prec \in Nat \ {0} /\ MaxSec \in Nat /\ Amount \subseteq Int
    /\ \A d \in Scale : d \in Nat \ {0} /\ Prec % d = 0

VARIABLES
    time,       \* the time computed with
    total       \* what it should be, in parts

timeVars == <<time, total>>

Of(sec, nsec) == [sec |-> sec, nsec |-> nsec]
Parts(u) == u.sec * Prec + u.nsec

Sign(n) == IF n < 0 THEN -1 ELSE 1
Magnitude(n) == Sign(n) * n

\* Division as C has it, towards zero.
Quot(n, d) == Sign(n) * (Magnitude(n) \div d)
Rem(n, d) == Sign(n) * (Magnitude(n) % d)

Agrees(u) == (u.sec >= 0 /\ u.nsec >= 0) \/ (u.sec <= 0 /\ u.nsec <= 0)
Times == {u \in [sec : -MaxSec..MaxSec, nsec : -(Prec - 1)..(Prec - 1)] : Agrees(u)}

-----------------------------------------------------------------------------
IsPositive(u) == u.sec >= 0 /\ u.nsec >= 0

\* Of two times of one sign: whole seconds are carried.
AddedAlike(v, u) ==
    LET nsec == v.nsec + u.nsec
        carry == Quot(nsec, Prec)
    IN Of(v.sec + u.sec + carry, nsec - carry * Prec)

\* Mutant of AddedApart: nothing is borrowed for a negative time.
AddedApartUp(v, u) ==
    LET s == Of(v.sec + u.sec, v.nsec + u.nsec)
    IN IF Agrees(s) THEN s
       ELSE IF s.sec > 0 THEN Of(s.sec - 1, s.nsec + Prec) ELSE s

\* Of different signs: a second is borrowed if the signs differ then.
AddedApart(v, u) ==
    LET s == Of(v.sec + u.sec, v.nsec + u.nsec)
    IN IF Agrees(s) THEN s
       ELSE IF s.sec > 0 THEN Of(s.sec - 1, s.nsec + Prec) ELSE Of(s.sec + 1, s.nsec - Prec)

\* ndm_time_add(); the second correction of a sum of one sign is for seconds
\* that have overflown, which no time here does.
Added(v, u) ==
    IF IsPositive(v) <=> IsPositive(u) THEN AddedAlike(v, u) ELSE AddedApart(v, u)

Subtracted(v, u) == Added(v, Of(-u.sec, -u.nsec))

\* ndm_time_from_sec(), _msec(), _usec(), _nsec()
From(n, d) == Of(Quot(n, d), Rem(n, d) * (Prec \div d))

\* ndm_time_to_sec() and so on: to the nearest unit, or up for negative parts.
To(u, d) == u.sec * d + Quot(u.nsec + ((Prec \div d) \div 2), Prec \div d)

Equal(v, u) == v.sec = u.sec /\ v.nsec = u.nsec
Less(v, u) == IF v.sec = u.sec THEN v.nsec < u.nsec ELSE v.sec < u.sec
LessOrEqual(v, u) == Equal(v, u) \/ Less(v, u)

-----------------------------------------------------------------------------
TimeInit == time \in Times /\ total = Parts(time)

Yields(v, exact) == time' = v /\ total' = exact

Add == \E u \in Times : Yields(Added(time, u), total + Parts(u))
Sub == \E u \in Times : Yields(Subtracted(time, u), total - Parts(u))

AddUnits == \E d \in Scale, n \in Amount :
    Yields(Added(time, From(n, d)), total + n * (Prec \div d))

\* The amount is negated before it is split.
SubUnits == \E d \in Scale, n \in Amount :
    Yields(Added(time, From(-n, d)), total - n * (Prec \div d))

FromUnits == \E d \in Scale, n \in Amount : Yields(From(n, d), n * (Prec \div d))

TimeNext ==
    /\ Add \/ Sub \/ AddUnits \/ SubUnits \/ FromUnits
    /\ time'.sec \in -MaxSec..MaxSec

TimeSpec == TimeInit /\ [][TimeNext]_timeVars

-----------------------------------------------------------------------------
\* The time is the exact one, its parts agree in sign (the assertion of
\* ndm_time_add()) and are less than a second.
IsExact ==
    /\ Parts(time) = total
    /\ Agrees(time) /\ Magnitude(time.nsec) < Prec

\* What is said of a time is so: it is less than another if it is earlier; in
\* units it is off by half of one at most, and never less than an earlier time;
\* and a number of units comes back as it was.  A negative time is another
\* matter: it may be rounded up by almost one and a half, whole numbers
\* of units by one.
IsTold ==
    /\ \A u \in Times : /\ Less(time, u) <=> total < Parts(u)
                        /\ LessOrEqual(time, u) <=> total <= Parts(u)
                        /\ \A d \in Scale : total <= Parts(u) => To(time, d) <= To(u, d)
    /\ \A d \in Scale :
          LET unit == Prec \div d
              off == To(time, d) * unit - total
          IN IF total >= 0 THEN 2 * Magnitude(off) <= unit /\ To(From(To(time, d), d), d) = To(time, d)
             ELSE off >= 0 /\ 2 * off < 3 * unit

\* Whatever is added, subtracted and converted, and in whatever order, the result
\* is exact, and what the library says of it (ndm_time_less(), ndm_time_to_sec()
\* and so on) is true of the exact time.
TimesAreTrue == [][timeVars' # timeVars => (IsExact /\ IsTold)']_timeVars
=============================================================================
