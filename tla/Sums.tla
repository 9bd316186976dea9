-------------------------------- MODULE Sums --------------------------------
(***************************************************************************)
(* The sum of an indexed family of amounts.  The contracts never compute   *)
(* it (batch_create_escrow's running total is the one exception): it is    *)
(* what "the contract holds everything it owes" is stated with.            *)
(***************************************************************************)
EXTENDS Integers

\* f[1] + ... + f[n]
Total(f, n) ==
    LET sum[k \in 0..n] == IF k = 0 THEN 0 ELSE sum[k - 1] + f[k]
    IN  sum[n]
=============================================================================
