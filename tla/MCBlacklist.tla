----------------------------- MODULE MCBlacklist -----------------------------
\* Loopback, one other reserved range, one opt-out, one public address.
EXTENDS Blacklist
CONSTANTS a1, loopback, private, optout, public
MCSeed == {loopback, private}
=============================================================================
