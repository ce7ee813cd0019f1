------------------------------- MODULE MCArp -------------------------------
(* Hosts for checking Arp with TLC.                                        *)
EXTENDS Arp, TLC

CONSTANTS h1, h2, h3, h4

OneHost == {h1}
FourHosts == {h1, h2, h3, h4}

=============================================================================
