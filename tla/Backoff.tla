------------------------------ MODULE Backoff -------------------------------
(***************************************************************************)
(* retry_delay_seconds, in milliseconds with the jitter rounded down to    *)
(* thousandths.  The two bytes of the SHA-256 digest may be anything.      *)
(***************************************************************************)
EXTENDS Integers

(* Mutant: twice the jitter.                                               *)
JitterWide(digest) == (800 * digest) \div 65535 - 400

(* Thousandths of the delay, from -200 to 200.                             *)
Jitter(digest) == (400 * digest) \div 65535 - 200

Exponential(attempt, base) ==
    base * 2 ^ (IF attempt > 1 THEN attempt - 1 ELSE 0)

RetryDelay(attempt, base, digest) ==
    LET delay == Exponential(attempt, base) * (1000 + Jitter(digest))
    IN  IF delay < 1000 THEN 1000 ELSE delay
=============================================================================
