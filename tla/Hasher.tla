------------------------------- MODULE Hasher -------------------------------
(***************************************************************************)
(* hasher.c: one interface to the hashes a coin's script may ask for.  A   *)
(* type names a hash, for some with a second pass over the first digest;   *)
(* the context is that hash's own.                                         *)
(***************************************************************************)
EXTENDS HashBlocks

CONSTANTS CounterMod, TotalMod, CountMod, OffsetMod

S2 == INSTANCE Sha2
S3 == INSTANCE Sha3
RM == INSTANCE Ripemd160
BL == INSTANCE Blake256
B2 == INSTANCE Blake2
GR == INSTANCE Groestl

Sha2Types  == {"SHA2", "SHA2D", "SHA2_RIPEMD"}
Sha3Types  == {"SHA3", "SHA3K"}
BlakeTypes == {"BLAKE", "BLAKED", "BLAKE_RIPEMD"}

\* The five uses of BLAKE2b differ in the personalisation.
Personal == [OVERWINTER_PREVOUTS |-> "ZcashPrevoutHash", OVERWINTER_SEQUENCE |-> "ZcashSequencHash",
             OVERWINTER_OUTPUTS |-> "ZcashOutputsHash", OVERWINTER_PREIMAGE |-> "Overwinter",
             SAPLING_PREIMAGE |-> "Sapling"]
OverwinterTypes == DOMAIN Personal

HasherTypes == Sha2Types \cup Sha3Types \cup BlakeTypes \cup {"GROESTLD_TRUNC"} \cup OverwinterTypes

hasher_Init(type) ==
  [type |-> type,
   ctx  |-> CASE type \in Sha2Types -> S2!sha256_Init
              [] type \in Sha3Types -> S3!sha3_256_Init
              [] type \in BlakeTypes -> BL!blake256_Init
              [] type = "GROESTLD_TRUNC" -> GR!groestl512_Init
              [] type \in OverwinterTypes -> B2!blake2b_InitPersonal(32, Personal[type])]

hasher_Reset(hasher) == hasher_Init(hasher.type)

\* aligned: where the caller's data lie, which only SHA3 looks at.
hasher_Update(hasher, d, aligned) ==
  [hasher EXCEPT !.ctx =
     CASE hasher.type \in Sha2Types -> S2!sha256_Update(@, d)
       [] hasher.type \in Sha3Types -> S3!sha3_Update(@, d, aligned)
       [] hasher.type \in BlakeTypes -> BL!blake256_Update(@, d)
       [] hasher.type = "GROESTLD_TRUNC" -> GR!groestl512_Update(@, d)
       [] hasher.type \in OverwinterTypes -> B2!blake2b_Update(@, d)]

\* The second pass of the doubled types is hasher_Raw with the plain type.
hasher_Final(hasher) ==
  CASE hasher.type = "SHA2" -> S2!sha256_Final(hasher.ctx)
    [] hasher.type = "SHA2D" -> S2!sha256_Raw(S2!sha256_Final(hasher.ctx))
    [] hasher.type = "SHA2_RIPEMD" -> RM!ripemd160(S2!sha256_Final(hasher.ctx))
    [] hasher.type = "SHA3" -> S3!sha3_Final(hasher.ctx)
    [] hasher.type = "SHA3K" -> S3!keccak_Final(hasher.ctx)
    [] hasher.type = "BLAKE" -> BL!blake256_Final(hasher.ctx)
    [] hasher.type = "BLAKED" -> BL!blake256(BL!blake256_Final(hasher.ctx))
    [] hasher.type = "BLAKE_RIPEMD" -> RM!ripemd160(BL!blake256_Final(hasher.ctx))
    [] hasher.type = "GROESTLD_TRUNC" -> GR!groestl512_DoubleTrunc(hasher.ctx)
    [] hasher.type \in OverwinterTypes -> B2!blake2b_Final(hasher.ctx)

hasher_Raw(type, d) == hasher_Final(hasher_Update(hasher_Init(type), d, TRUE))

-----------------------------------------------------------------------------
(* The hash a type stands for, of the whole message. *)
StandardHash(type, d) ==
  LET sha == S2!Standard("sha256", d)
      blake == BL!Standard(d)
  IN CASE type = "SHA2" -> sha
       [] type = "SHA2D" -> S2!Standard("sha256", sha)
       [] type = "SHA2_RIPEMD" -> RM!Standard(sha)
       [] type = "SHA3" -> S3!Standard(d, "06")
       [] type = "SHA3K" -> S3!Standard(d, "01")
       [] type = "BLAKE" -> blake
       [] type = "BLAKED" -> BL!Standard(blake)
       [] type = "BLAKE_RIPEMD" -> RM!Standard(blake)
       [] type = "GROESTLD_TRUNC" -> SubSeq(GR!Standard(GR!Standard(d)), 1, DW * W)
       [] type \in OverwinterTypes -> B2!Standard(<<32, 0, Personal[type]>>, <<>>, d)
=============================================================================
