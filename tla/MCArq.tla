------------------------------- MODULE MCArq -------------------------------
(***************************************************************************)
(* The message of Arq with the constants of the code, in units of 2.5      *)
(* seconds: the interval and the last sleep are ten seconds, and the event *)
(* loops may be five seconds late.  The timeout is shortened to what a     *)
(* crash needs to be noticed, and a little more, and the job_timeout of    *)
(* arq, which is shorter, to less than half of that.                       *)
(***************************************************************************)
EXTENDS Arq
=============================================================================
