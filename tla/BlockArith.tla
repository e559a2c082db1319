------------------------------- MODULE BlockArith -------------------------------
(***************************************************************************)
(* The arithmetic of memory.cc on block addresses: s is a block size in    *)
(* bytes, n the number of blocks of a group, start its first address.      *)
(* BlockBytes is the pool built on it, BlockBytes_proof what holds of it   *)
(* for all numbers.                                                        *)
(***************************************************************************)
EXTENDS Integers

CONSTANT Word   \* number of values of uint32_t

ASSUME WordAssumption == Word \in Nat \ {0}

\* uint32_t * uint32_t
Times(a, b) == (a * b) % Word

\* Bytes allocated for a group, and the length hasBlockHelp takes it to have.
GroupBytes(s, n) == Times(s, n)

\* Mutant: an index too far.
AddressNext(start, s, i) == start + (i + 1) * s

\* distance(...) is 64 bits wide, and so is its product.
Address(start, s, i) == start + i * s

\* Mutant: the address after the last block belongs to the group.
WithinEnd(start, s, n, a) == start <= a /\ a <= start + Times(n, s)

Within(start, s, n, a) == start <= a /\ a < start + Times(n, s)

IndexOf(start, s, a) == ((a - start) \div s) % Word
=============================================================================
