------------------------------ MODULE MTPTimer ------------------------------
(***************************************************************************)
(* When the S thread sends an unacknowledged message again.  The time since *)
(* the socket's last new frame is computed in 64 bits and returned as a    *)
(* 32-bit int; T, five seconds elsewhere, is compared with microseconds.   *)
(* In module MTP a resend may happen in any round; this module says in     *)
(* which rounds it does.                                                   *)
(***************************************************************************)
EXTENDS Integers, TLAPS

T == 5
Micro == 1000000          \* microseconds in a second
IntMax == 2147483647      \* the largest int

\* What gettimeofday() gives.
Time == [tv_sec : Nat, tv_usec : { n \in Nat : n < Micro }]

\* The microseconds from start to end.
Elapsed(start, end) ==
    (end.tv_sec - start.tv_sec) * Micro + (end.tv_usec - start.tv_usec)

\* A long, returned as an int: its value modulo 2^32, in the range of int.
ToInt(x) == ((x + IntMax + 1) % (2 * IntMax + 2)) - IntMax - 1

timedifference(start, end) == ToInt(Elapsed(start, end))

\* S's test, for a busy slot with a frame number.
Due(lastsent, now) == timedifference(lastsent, now) > T
-----------------------------------------------------------------------------
LEMMA ElapsedInt ==
  ASSUME NEW s \in Time, NEW e \in Time
  PROVE  Elapsed(s, e) \in Int
BY SMT DEF Time, Elapsed, Micro

LEMMA ToIntSmall ==
  ASSUME NEW x \in Int, -IntMax <= x, x <= IntMax
  PROVE  ToInt(x) = x
BY SMT DEF ToInt, IntMax

LEMMA ToIntLarge ==
  ASSUME NEW x \in Int, IntMax < x, x <= 2 * IntMax + 1
  PROVE  ToInt(x) = x - 2 * IntMax - 2
BY SMT DEF ToInt, IntMax

\* Up to about 36 minutes after the last new frame, a message is sent again in
\* exactly the rounds that begin more than T microseconds after it
\* (initmsocket.c 549-551, 611).
THEOREM ResentWhenDue ==
  ASSUME NEW lastsent \in Time, NEW now \in Time,
         -IntMax <= Elapsed(lastsent, now), Elapsed(lastsent, now) <= IntMax
  PROVE  Due(lastsent, now) <=> Elapsed(lastsent, now) > T
BY ElapsedInt, ToIntSmall DEF Due, timedifference

\* S begins its rounds at least T / 2 = 2 seconds apart (sleep, initmsocket.c
\* 602): every round but the one that sends the new frame sends it again, as MTP's
\* SResend may in any round.
THEOREM EveryRoundResends ==
  ASSUME NEW lastsent \in Time, NEW now \in Time,
         now.tv_sec >= lastsent.tv_sec + T \div 2,
         Elapsed(lastsent, now) <= IntMax
  PROVE  Due(lastsent, now)
<1>1. Elapsed(lastsent, now) > T
  BY SMT DEF Elapsed, Time, Micro, T
<1>2. -IntMax <= Elapsed(lastsent, now)
  BY <1>1, ElapsedInt, SMT DEF T, IntMax
<1> QED BY <1>1, <1>2, ResentWhenDue

\* After that, for about 36 minutes more, no message of the socket is sent again,
\* however long its acknowledgement is overdue.
THEOREM ResendStalls ==
  ASSUME NEW lastsent \in Time, NEW now \in Time,
         IntMax < Elapsed(lastsent, now), Elapsed(lastsent, now) <= 2 * IntMax + 1
  PROVE  ~ Due(lastsent, now)
<1>1. timedifference(lastsent, now) = Elapsed(lastsent, now) - 2 * IntMax - 2
  BY ElapsedInt, ToIntLarge DEF timedifference
<1> QED BY <1>1, ElapsedInt, SMT DEF Due, T, IntMax

\* The clock is the wall clock: set back, it stops the resends until it is again
\* past the last new frame.
THEOREM ClockSetBack ==
  ASSUME NEW lastsent \in Time, NEW now \in Time,
         -IntMax <= Elapsed(lastsent, now), Elapsed(lastsent, now) <= 0
  PROVE  ~ Due(lastsent, now)
<1>1. timedifference(lastsent, now) = Elapsed(lastsent, now)
  BY ElapsedInt, ToIntSmall, SMT DEF timedifference, IntMax
<1> QED BY <1>1, ElapsedInt, SMT DEF Due, T, IntMax
=============================================================================
