-------------------------------- MODULE Sums --------------------------------
(***************************************************************************)
(* The sum f[1] + ... + f[n], written with a recursive function so that    *)
(* the modules that use it can be proved about.                            *)
(***************************************************************************)
EXTENDS Integers

Partials(f, n) ==
  LET p[i \in 0..n] == IF i = 0 THEN 0 ELSE p[i-1] + f[i] IN p

Sum(f, n) == Partials(f, n)[n]
=============================================================================
