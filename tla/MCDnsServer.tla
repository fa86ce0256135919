----------------------------- MODULE MCDnsServer -----------------------------
(***************************************************************************)
(* DnsServer for TLC: two handlers, so that one may be at work when the    *)
(* last server stops while the other has answered; two logs, one for each  *)
(* or both for one; one kill.                                              *)
(***************************************************************************)
EXTENDS DnsServer

CONSTANTS h1, h2

TwoHandlers == {h1, h2}

=============================================================================
