---------------------------- MODULE SeedRotation ----------------------------
(***************************************************************************)
(* The seeds of SparkRandomNumberGenerator.  The external flash holds a    *)
(* table of seeds and the index of the one used last; the index lives in a *)
(* sector that has to be erased before it is written.  The generator takes *)
(* its seed when the first nonce is asked for, and takes another one       *)
(* whenever it finds the first word of its seed to be zero, which it reads *)
(* as "not initialised".  Power may be cut at any time.                    *)
(*                                                                         *)
(* A nonce is the seed of its generator and the number of nonces drawn     *)
(* from it.  The entropy of pings and of the clock, which is mixed in, is  *)
(* left out: what is asked here is what the seeds alone guarantee.         *)
(*                                                                         *)
(* The names that every specification has begin with SR here, because the  *)
(* proofs about this one stand beside those about Eeprom in FlashProofs.   *)
(***************************************************************************)
EXTENDS Integers

CONSTANTS
  NumSeeds,      \* size of the table: 2^16, the range of the index
  ZeroSeeds,     \* indices of the seeds whose first word is zero
  MaxRotations,  \* bound: new seeds taken, less than a round of the table
  MaxBoots,      \* bound
  MaxDraws       \* bound: nonces drawn from one seed

SeedIndex == 0 .. NumSeeds - 1

ASSUME SeedAssumption ==
  /\ NumSeeds \in Nat \ {0} /\ ZeroSeeds \subseteq SeedIndex
  /\ MaxRotations \in 0 .. NumSeeds - 1
  /\ MaxBoots \in Nat \ {0} /\ MaxDraws \in Nat \ {0}

Erased == NumSeeds - 1   \* an erased cell reads 0xFFFF
NoSeed == -1             \* seed_vector as the constructor leaves it

VARIABLES
  cell,                \* the index in flash
  current_seed_index,
  seed_vector,         \* the seed loaded: its index
  drawn,               \* nonces drawn since seed48()
  pc,                  \* "idle", "erase", "write", "load" or "draw"
  given,               \* nonces given out: boot, seed and number
  boot,
  rotations,
  torn                 \* was power ever cut between erase and write?

SRVars == <<cell, current_seed_index, seed_vector, drawn, pc, given, boot, rotations, torn>>

SRTypeOK ==
  /\ cell \in SeedIndex /\ current_seed_index \in SeedIndex
  /\ seed_vector \in SeedIndex \cup {NoSeed}
  /\ drawn \in 0 .. MaxDraws
  /\ pc \in {"idle", "erase", "write", "load", "draw"}
  /\ given \subseteq [boot : 1 .. MaxBoots, seed : SeedIndex, number : 1 .. MaxDraws]
  /\ boot \in 1 .. MaxBoots /\ rotations \in 0 .. MaxRotations
  /\ torn \in BOOLEAN

\* The cell holds what the device last wrote, or was never written.
SRInit ==
  /\ cell \in SeedIndex
  /\ current_seed_index = 0 /\ seed_vector = NoSeed /\ drawn = 0
  /\ pc = "idle"
  /\ given = {} /\ boot = 1 /\ rotations = 0 /\ torn = FALSE

\* seed_vector[0] == 0
Uninitialized == seed_vector \in ZeroSeeds \cup {NoSeed}

NextIndex_Same(i) == i
NextIndex_NoWrap(i) == i + 1
NextIndex(i) == IF i = NumSeeds - 1 THEN 0 ELSE i + 1

\* A nonce is wanted from a generator that has its seed.
UseSeed ==
  /\ pc = "idle" /\ ~Uninitialized
  /\ drawn < MaxDraws
  /\ pc' = "draw"
  /\ UNCHANGED <<cell, current_seed_index, seed_vector, drawn, given, boot, rotations, torn>>

\* rotateRandomSeed: the index is read and incremented, ...
Rotate ==
  /\ pc = "idle" /\ Uninitialized
  /\ rotations < MaxRotations
  /\ rotations' = rotations + 1
  /\ current_seed_index' = NextIndex(cell)
  /\ pc' = "erase"
  /\ UNCHANGED <<cell, seed_vector, drawn, given, boot, torn>>

\* ... its sector erased ...
EraseSector ==
  /\ pc = "erase"
  /\ cell' = Erased
  /\ pc' = "write"
  /\ UNCHANGED <<current_seed_index, seed_vector, drawn, given, boot, rotations, torn>>

\* ... and written.
WriteIndex_Lost ==
  /\ pc = "write" /\ pc' = "load"
  /\ UNCHANGED <<cell, current_seed_index, seed_vector, drawn, given, boot, rotations, torn>>
WriteIndex ==
  /\ pc = "write"
  /\ cell' = current_seed_index
  /\ pc' = "load"
  /\ UNCHANGED <<current_seed_index, seed_vector, drawn, given, boot, rotations, torn>>

\* readRandomSeedFromFlash and seed48().
LoadSeed ==
  /\ pc = "load"
  /\ current_seed_index' = cell /\ seed_vector' = cell
  /\ drawn' = 0
  /\ pc' = "draw"
  /\ UNCHANGED <<cell, given, boot, rotations, torn>>

Nonce == [boot |-> boot, seed |-> seed_vector, number |-> drawn + 1]

Draw ==
  /\ pc = "draw"
  /\ given' = given \cup {Nonce}
  /\ drawn' = drawn + 1
  /\ pc' = "idle"
  /\ UNCHANGED <<cell, current_seed_index, seed_vector, boot, rotations, torn>>

SRPowerCut ==
  /\ boot < MaxBoots /\ boot' = boot + 1
  /\ torn' = (torn \/ pc = "write")
  /\ current_seed_index' = 0 /\ seed_vector' = NoSeed /\ drawn' = 0
  /\ pc' = "idle"
  /\ UNCHANGED <<cell, given, rotations>>

SRNext == UseSeed \/ Rotate \/ EraseSector \/ WriteIndex \/ LoadSeed \/ Draw \/ SRPowerCut

SRSpec == SRInit /\ [][SRNext]_SRVars

-----------------------------------------------------------------------------
(* Properties.                                                             *)

GivenBefore == \E n \in given : n.seed = seed_vector /\ n.number = drawn + 1

(* Until the table has gone round once no nonce is given out twice, over   *)
(* any number of restarts, as long as power was not cut between the erase  *)
(* and the write of the index; seeds that are taken for missing do not     *)
(* break it (rotateRandomSeed, generateRandomChallengeNonce).              *)
NoNonceTwice == [][Draw /\ ~torn => ~GivenBefore]_SRVars

(* Whatever happened to the index before, no nonce comes twice from one    *)
(* boot: a generator that takes several seeds takes different ones.        *)
NoNonceTwiceInABoot ==
  [][Draw => \A n \in given :
       n.boot = boot => ~(n.seed = seed_vector /\ n.number = drawn + 1)]_SRVars

(* "Every time the Spark reboots, the next seed is used"                   *)
(* (SparkRandomNumberGenerator.h:6).  A cut between the erase and the      *)
(* write leaves 0xFFFF behind and the seeds start over at 0.               *)
NextSeedAfterReboot == [][Draw => ~GivenBefore]_SRVars
=============================================================================
