---------------------------- MODULE MCVirtioNet ----------------------------
(* Model values for checking VirtioNet with TLC.                           *)
EXTENDS VirtioNet, TLC

CONSTANTS t1, intr

OneAndIntr == {t1, intr}
SomeAsk == {1, 3}
=============================================================================
