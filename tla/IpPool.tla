------------------------------- MODULE IpPool -------------------------------
(***************************************************************************)
(* The pool of accelerator addresses, IP_POOL: a map from an address to a  *)
(* boolean, kept here as the set of addresses whose entry is true.  An     *)
(* address is named by its last octet, as the loop of getIpFromIppool      *)
(* counts them, and the pool has no lock.                                  *)
(***************************************************************************)
EXTENDS Naturals

CONSTANT Addresses    \* the octets the loop runs through, 20..200 in the code

ASSUME AddressesAssumption == Addresses \subseteq Nat \ {0}

NoIp == 0    \* the empty string, where an address may be missing

\* An absent entry and an entry that is false are both free.
Free(pool) == Addresses \ pool

Exhausted(pool) == Free(pool) = {}

\* The loop counts upwards and returns the first address that is free.
Assigns(pool, a) == a \in Free(pool) /\ \A b \in Free(pool) : a <= b

\* writeIppool: every listed address becomes free, whoever uses it now.
Released(pool, ips) == pool \ ips
=============================================================================
