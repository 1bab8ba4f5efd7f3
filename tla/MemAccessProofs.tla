-------------------------- MODULE MemAccessProofs ---------------------------
(***************************************************************************)
(* Proofs about the codec, the words the sequences are made of, and what   *)
(* the processor has done at the end of a sequence.                        *)
(***************************************************************************)
EXTENDS MemAccessInvariants, TLAPS

-----------------------------------------------------------------------------
(* The decoder.                                                            *)

(* Which function decodes a word.                                          *)
LEMMA DecodeCases ==
  ASSUME NEW w
  PROVE  /\ w.opcode \in RTypeOp => decode_instruction(w) = decode_Rtype(w)
         /\ w.opcode \in ITypeOp => decode_instruction(w) = decode_Itype(w)
         /\ w.opcode = "STORE"   => decode_instruction(w) = decode_Stype(w)
         /\ w.opcode \in UTypeOp => decode_instruction(w) = decode_Utype(w)
         /\ w.opcode = "BRANCH"  => decode_instruction(w) = decode_Btype(w)
         /\ w.opcode = "JAL"     => decode_instruction(w) = decode_Jtype(w)
BY SMT DEF decode_instruction, RTypeOp, ITypeOp, UTypeOp

(* The ranges of a word's groups.                                          *)
LEMMA WordGroups ==
  ASSUME NEW w \in RvWord
  PROVE  /\ w.opcode \in OpcodeName
         /\ w.rd \in 0..31 /\ w.funct3 \in 0..7 /\ w.rs1 \in 0..31
         /\ w.rs2 \in 0..31 /\ w.funct7 \in 0..127
BY SMT DEF RvWord

(* The twelve bits of an I- or S-type immediate: five low, seven high.     *)
LEMMA TwelveBits ==
  ASSUME NEW lo \in 0..31, NEW hi \in 0..127
  PROVE  SignExtended(lo + 32 * hi, 4096) = lo + 32 * (hi % 64) - 2048 * (hi \div 64)
BY SMT DEF SignExtended

(* The twelve bits of a branch's offset.                                   *)
LEMMA BranchBits ==
  ASSUME NEW lo \in 0..31, NEW hi \in 0..127
  PROVE  SignExtended(4096 * (hi \div 64) + 2048 * (lo % 2) + 32 * (hi % 64)
                        + 2 * (lo \div 2), 8192)
           = 2 * (lo \div 2) + 32 * (hi % 64) + 2048 * (lo % 2) - 4096 * (hi \div 64)
BY SMT DEF SignExtended

(* The four upper groups of a word, and the twenty bits they make.         *)
Groups(f, a, b, g) == f \in 0..7 /\ a \in 0..31 /\ b \in 0..31 /\ g \in 0..127

Upper(f, a, b, g) == f + 8 * a + 256 * b + 8192 * g

(* The twenty bits as decode_Jtype cuts them.                              *)
LEMMA UpperBits ==
  ASSUME NEW f, NEW a, NEW b, NEW g, Groups(f, a, b, g)
  PROVE  /\ Upper(f, a, b, g) \in Int
         /\ Upper(f, a, b, g) % 256 = f + 8 * a
         /\ (Upper(f, a, b, g) \div 256) % 2 = b % 2
         /\ (Upper(f, a, b, g) \div 512) % 1024 = (b \div 2) + 16 * (g % 64)
         /\ Upper(f, a, b, g) \div Two19 = g \div 64
<1> f \in 0..7 /\ a \in 0..31 /\ b \in 0..31 /\ g \in 0..127
  BY SMT DEF Groups
<1> DEFINE u == f + 8 * a + 256 * b + 8192 * g
<1>0. u \in Int
  BY SMT
<1>1. u % 256 = f + 8 * a
  BY SMT
<1>2. (u \div 256) % 2 = b % 2
  <2>1. u \div 256 = b + 32 * g
    BY SMT
  <2>2. (b + 32 * g) % 2 = b % 2
    BY SMT
  <2> HIDE DEF u
  <2> QED BY <1>0, <2>1, <2>2, SMT
<1>4. (u \div 512) % 1024 = (b \div 2) + 16 * (g % 64)
  BY SMT
<1>5. u \div Two19 = g \div 64
  BY SMT DEF Two19
<1>6. Upper(f, a, b, g) = u
  BY SMT DEF Upper
<1> HIDE DEF u
<1> QED BY <1>0, <1>1, <1>2, <1>4, <1>5, <1>6, SMT

(* The twenty bits of a jump's offset.                                     *)
LEMMA JumpBits ==
  ASSUME NEW f, NEW a, NEW b, NEW g, Groups(f, a, b, g)
  PROVE  SignExtended(Two20 * (g \div 64) + 4096 * (f + 8 * a) + 2048 * (b % 2)
                        + 2 * ((b \div 2) + 16 * (g % 64)), Two21)
           = 2 * (b \div 2) + 32 * (g % 64) + 2048 * (b % 2)
               + 4096 * (f + 8 * a) - Two20 * (g \div 64)
BY SMT DEF SignExtended, Two20, Two21, Groups

(* The twenty bits LUI and AUIPC put above twelve zeros.                   *)
LEMMA PageBits ==
  ASSUME NEW f, NEW a, NEW b, NEW g, Groups(f, a, b, g)
  PROVE  4096 * SignExtended(Upper(f, a, b, g), Two20)
           = 4096 * (f + 8 * a + 256 * b + 8192 * (g % 64) - Two19 * (g \div 64))
BY SMT DEF SignExtended, Upper, Two19, Two20, Groups

(* The immediates of the six formats, for every word.                      *)
LEMMA DecodedImmediate ==
  ASSUME NEW w \in RvWord
  PROVE  DecodesAsHardware(w)
<1> DEFINE i == decode_instruction(w)
<1>1. w.opcode \in ITypeOp => i.imm = ImmI(w)
  <2>1. decode_Itype(w).imm = SignExtended(w.rs2 + 32 * w.funct7, 4096)
    BY SMT DEF decode_Itype
  <2> QED BY <2>1, WordGroups, TwelveBits, DecodeCases, SMTT(20) DEF ImmI
<1>2. w.opcode = "STORE" => i.imm = ImmS(w)
  <2>1. decode_Stype(w).imm = SignExtended(w.rd + 32 * w.funct7, 4096)
    BY SMT DEF decode_Stype
  <2> QED BY <2>1, WordGroups, TwelveBits, DecodeCases, SMTT(20) DEF ImmS
<1>3. w.opcode = "BRANCH" => i.imm = ImmB(w)
  <2>1. decode_Btype(w).imm
          = SignExtended(4096 * (w.funct7 \div 64) + 2048 * (w.rd % 2)
                           + 32 * (w.funct7 % 64) + 2 * (w.rd \div 2), 8192)
    BY SMT DEF decode_Btype
  <2> QED BY <2>1, WordGroups, BranchBits, DecodeCases, SMTT(20) DEF ImmB
<1>4. w.opcode = "JAL" => i.imm = ImmJ(w)
  <2> DEFINE f == w.funct3
             a == w.rs1
             b == w.rs2
             g == w.funct7
             bits == Upper(f, a, b, g)
  <2>1. decode_Jtype(w).imm
          = SignExtended(Two20 * (bits \div Two19) + 4096 * (bits % 256)
                           + 2048 * ((bits \div 256) % 2)
                           + 2 * ((bits \div 512) % 1024), Two21)
    <3>1. decode_Utype(w).imm = bits
      BY SMT DEF decode_Utype, Upper
    <3> HIDE DEF bits
    <3> QED BY <3>1, SMT DEF decode_Jtype
  <2>2. ImmJ(w) = 2 * (b \div 2) + 32 * (g % 64) + 2048 * (b % 2)
                    + 4096 * (f + 8 * a) - Two20 * (g \div 64)
    BY SMT DEF ImmJ
  <2>3. Groups(f, a, b, g)
    BY WordGroups, SMT DEF Groups
  <2> HIDE DEF f, a, b, g
  <2>4. /\ bits % 256 = f + 8 * a
        /\ (bits \div 256) % 2 = b % 2
        /\ (bits \div 512) % 1024 = (b \div 2) + 16 * (g % 64)
        /\ bits \div Two19 = g \div 64
    BY <2>3, UpperBits, SMT
  <2> HIDE DEF bits
  <2>5. decode_Jtype(w).imm
          = SignExtended(Two20 * (g \div 64) + 4096 * (f + 8 * a) + 2048 * (b % 2)
                           + 2 * ((b \div 2) + 16 * (g % 64)), Two21)
    BY <2>1, <2>4, SMT
  <2>6. decode_Jtype(w).imm = ImmJ(w)
    BY <2>2, <2>3, <2>5, JumpBits, SMT
  <2> QED BY <2>6, DecodeCases, SMT
<1>5. w.opcode \in UTypeOp => 4096 * SignExtended(i.imm, Two20) = ImmU(w)
  <2> DEFINE f == w.funct3
             a == w.rs1
             b == w.rs2
             g == w.funct7
  <2>1. decode_Utype(w).imm = Upper(f, a, b, g)
    BY SMT DEF decode_Utype, Upper
  <2>2. ImmU(w) = 4096 * (f + 8 * a + 256 * b + 8192 * (g % 64) - Two19 * (g \div 64))
    BY SMT DEF ImmU
  <2>3. Groups(f, a, b, g)
    BY WordGroups, SMT DEF Groups
  <2> HIDE DEF f, a, b, g
  <2>4. 4096 * SignExtended(decode_Utype(w).imm, Two20) = ImmU(w)
    BY <2>1, <2>2, <2>3, PageBits, SMT
  <2> QED BY <2>4, DecodeCases, SMT
<1> HIDE DEF i
<1> QED
  BY <1>1, <1>2, <1>3, <1>4, <1>5, SMT DEF DecodesAsHardware, i, ITypeOp, UTypeOp

-----------------------------------------------------------------------------
(* Encoding what was decoded.                                              *)

(* Words are records of their six groups.                                  *)
LEMMA WordExtensional ==
  ASSUME NEW w \in RvWord
  PROVE  w = [opcode |-> w.opcode, rd |-> w.rd, funct3 |-> w.funct3,
              rs1 |-> w.rs1, rs2 |-> w.rs2, funct7 |-> w.funct7]
BY SMT DEF RvWord

(* What encode_Itype and encode_Stype take out of an immediate.            *)
LEMMA TwelveBitsBack ==
  ASSUME NEW lo \in 0..31, NEW hi \in 0..127
  PROVE  LET v == SignExtended(lo + 32 * hi, 4096)
         IN  v % 32 = lo /\ (v % 4096) \div 32 = hi
BY SMT DEF SignExtended

(* What encode_Utype takes out of one.                                     *)
LEMMA UpperBitsBack ==
  ASSUME NEW f, NEW a, NEW b, NEW g, Groups(f, a, b, g)
  PROVE  /\ Upper(f, a, b, g) % 8 = f
         /\ (Upper(f, a, b, g) \div 8) % 32 = a
         /\ (Upper(f, a, b, g) \div 256) % 32 = b
         /\ (Upper(f, a, b, g) \div 8192) % 128 = g
<1> f \in 0..7 /\ a \in 0..31 /\ b \in 0..31 /\ g \in 0..127
  BY SMT DEF Groups
<1>1. Upper(f, a, b, g) % 8 = f
  BY SMT DEF Upper
<1>2. Upper(f, a, b, g) \div 8 = a + 32 * (b + 32 * g)
  BY SMT DEF Upper
<1>3. (a + 32 * (b + 32 * g)) % 32 = a
  BY SMT
<1>4. Upper(f, a, b, g) \div 256 = b + 32 * g
  BY SMT DEF Upper
<1>5. (b + 32 * g) % 32 = b
  BY SMT
<1>6. Upper(f, a, b, g) \div 8192 = g
  BY SMT DEF Upper
<1> QED BY <1>1, <1>2, <1>3, <1>4, <1>5, <1>6, SMT

(* What encode_Btype takes out of an offset given by its parts.            *)
LEMMA BranchBitsBack ==
  ASSUME NEW t \in 0..1, NEW x \in 0..1, NEW z \in 0..63, NEW y \in 0..15
  PROVE  LET v == 2 * y + 32 * z + 2048 * x - 4096 * t
         IN  /\ (v \div 2048) % 2 = x /\ (v \div 2) % 16 = y
             /\ (v \div 32) % 64 = z  /\ (v \div 4096) % 2 = t
<1> DEFINE v == 2 * y + 32 * z + 2048 * x - 4096 * t
<1>1. v \div 2048 = x - 2 * t
  BY SMT
<1>2. v \div 2 = y + 16 * z + 1024 * x - 2048 * t
  BY SMT
<1>3. v \div 32 = z + 64 * x - 128 * t
  BY SMT
<1>4. v \div 4096 = -t
  BY SMT
<1>5. (x - 2 * t) % 2 = x /\ (y + 16 * z + 1024 * x - 2048 * t) % 16 = y
  BY SMT
<1>6. (z + 64 * x - 128 * t) % 64 = z /\ (-t) % 2 = t
  BY SMT
<1> QED BY <1>1, <1>2, <1>3, <1>4, <1>5, <1>6, SMT

(* A jump's offset given by its parts.                                     *)
IsJump(v, t, x, z, y, p) ==
  /\ t \in 0..1 /\ x \in 0..1 /\ z \in 0..63 /\ y \in 0..15 /\ p \in 0..255
  /\ v = 2 * y + 32 * z + 2048 * x + 4096 * p - Two20 * t

(* What encode_Jtype takes out of it.                                      *)
LEMMA JumpBitsBack ==
  ASSUME NEW v, NEW t, NEW x, NEW z, NEW y, NEW p, IsJump(v, t, x, z, y, p)
  PROVE  /\ (v % 2048) \div 2 = y + 16 * z
         /\ (v \div 2048) % 2 = x
         /\ (v \div 4096) % 256 = p
         /\ (v \div Two20) % 2 = t
<1>0. /\ t \in 0..1 /\ x \in 0..1 /\ z \in 0..63 /\ y \in 0..15 /\ p \in 0..255
      /\ v = 2 * y + 32 * z + 2048 * x + 4096 * p - Two20 * t /\ v \in Int
  BY SMT DEF IsJump, Two20
<1>1. v % 2048 = 2 * y + 32 * z
  BY <1>0, SMT DEF Two20
<1>2. (2 * y + 32 * z) \div 2 = y + 16 * z
  BY <1>0, SMT
<1>3. v \div 2048 = x + 2 * p - 512 * t /\ (x + 2 * p - 512 * t) % 2 = x
  BY <1>0, SMT DEF Two20
<1>4. v \div 4096 = p - 256 * t /\ (p - 256 * t) % 256 = p
  BY <1>0, SMT DEF Two20
<1>5. v \div Two20 = -t /\ (-t) % 2 = t
  BY <1>0, SMT DEF Two20
<1> QED BY <1>0, <1>1, <1>2, <1>3, <1>4, <1>5, SMT

(* A group of five or seven bits is made of its parts.                     *)
LEMMA Parts ==
  ASSUME NEW lo \in 0..31, NEW hi \in 0..127
  PROVE  /\ lo % 2 \in 0..1 /\ lo \div 2 \in 0..15 /\ lo = (lo % 2) + 2 * (lo \div 2)
         /\ hi % 64 \in 0..63 /\ hi \div 64 \in 0..1 /\ hi = (hi % 64) + 64 * (hi \div 64)
BY SMT

(* Which function encodes an instruction.                                  *)
LEMMA EncodeCases ==
  ASSUME NEW i
  PROVE  /\ i.opcode \in RTypeOp => encode_instruction(i) = encode_Rtype(i)
         /\ i.opcode \in {"LOAD", "JALR", "OPIMM", "OPIMM_32"}
              => encode_instruction(i) = encode_Itype(i)
         /\ i.opcode = "STORE"   => encode_instruction(i) = encode_Stype(i)
         /\ i.opcode \in UTypeOp => encode_instruction(i) = encode_Utype(i)
         /\ i.opcode = "BRANCH"  => encode_instruction(i) = encode_Btype(i)
         /\ i.opcode = "JAL"     => encode_instruction(i) = encode_Jtype(i)
BY SMT DEF encode_instruction, RTypeOp, UTypeOp

(* Each format's encoder undoes its decoder.                               *)
LEMMA ReencodedI ==
  ASSUME NEW w \in RvWord
  PROVE  encode_Itype(decode_Itype(w)) = w
<1> DEFINE v == SignExtended(w.rs2 + 32 * w.funct7, 4096)
<1>1. encode_Itype(decode_Itype(w))
        = [opcode |-> w.opcode, rd |-> w.rd, funct3 |-> w.funct3, rs1 |-> w.rs1,
           rs2 |-> v % 32, funct7 |-> (v % 4096) \div 32]
  <2> HIDE DEF v
  <2> QED BY SMT DEF encode_Itype, decode_Itype, v
<1>2. v % 32 = w.rs2 /\ (v % 4096) \div 32 = w.funct7
  <2>1. w.rs2 \in 0..31 /\ w.funct7 \in 0..127
    BY WordGroups
  <2> QED BY <2>1, TwelveBitsBack
<1> HIDE DEF v
<1> QED BY <1>1, <1>2, WordExtensional, SMT

(* The same for the format of stores.                                      *)
LEMMA ReencodedS ==
  ASSUME NEW w \in RvWord
  PROVE  encode_Stype(decode_Stype(w)) = w
<1> DEFINE v == SignExtended(w.rd + 32 * w.funct7, 4096)
<1>1. encode_Stype(decode_Stype(w))
        = [opcode |-> w.opcode, rd |-> v % 32, funct3 |-> w.funct3, rs1 |-> w.rs1,
           rs2 |-> w.rs2, funct7 |-> (v % 4096) \div 32]
  <2> HIDE DEF v
  <2> QED BY SMT DEF encode_Stype, decode_Stype, v
<1>2. v % 32 = w.rd /\ (v % 4096) \div 32 = w.funct7
  <2>1. w.rd \in 0..31 /\ w.funct7 \in 0..127
    BY WordGroups
  <2> QED BY <2>1, TwelveBitsBack
<1> HIDE DEF v
<1> QED BY <1>1, <1>2, WordExtensional, SMT

(* The same for the format of LUI and AUIPC.                               *)
LEMMA ReencodedU ==
  ASSUME NEW w \in RvWord
  PROVE  encode_Utype(decode_Utype(w)) = w
<1> DEFINE f == w.funct3
           a == w.rs1
           b == w.rs2
           g == w.funct7
           v == Upper(f, a, b, g)
<1>1. encode_Utype(decode_Utype(w))
        = [opcode |-> w.opcode, rd |-> w.rd, funct3 |-> v % 8, rs1 |-> (v \div 8) % 32,
           rs2 |-> (v \div 256) % 32, funct7 |-> (v \div 8192) % 128]
  BY SMT DEF encode_Utype, decode_Utype, Upper
<1>2. Groups(f, a, b, g)
  BY WordGroups, SMT DEF Groups
<1>3. w = [opcode |-> w.opcode, rd |-> w.rd, funct3 |-> f, rs1 |-> a, rs2 |-> b, funct7 |-> g]
  BY WordExtensional, SMT
<1> HIDE DEF f, a, b, g
<1>4. v % 8 = f /\ (v \div 8) % 32 = a /\ (v \div 256) % 32 = b /\ (v \div 8192) % 128 = g
  BY <1>2, UpperBitsBack, SMT
<1> HIDE DEF v
<1> QED BY <1>1, <1>3, <1>4, SMT

(* The same for the format of branches.                                    *)
LEMMA ReencodedB ==
  ASSUME NEW w \in RvWord
  PROVE  encode_Btype(decode_Btype(w)) = w
<1> DEFINE x == w.rd % 2
           y == w.rd \div 2
           z == w.funct7 % 64
           t == w.funct7 \div 64
           v == decode_Btype(w).imm
<1>1. encode_Btype(decode_Btype(w))
        = [opcode |-> w.opcode, rd |-> ((v \div 2048) % 2) + 2 * ((v \div 2) % 16),
           funct3 |-> w.funct3, rs1 |-> w.rs1, rs2 |-> w.rs2,
           funct7 |-> ((v \div 32) % 64) + 64 * ((v \div 4096) % 2)]
  BY SMT DEF encode_Btype, decode_Btype
<1>2. v = 2 * y + 32 * z + 2048 * x - 4096 * t
  <2>1. v = SignExtended(4096 * t + 2048 * x + 32 * z + 2 * y, 8192)
    BY SMT DEF decode_Btype
  <2> QED BY <2>1, WordGroups, BranchBits, SMT
<1>3. /\ x \in 0..1 /\ y \in 0..15 /\ w.rd = x + 2 * y
      /\ z \in 0..63 /\ t \in 0..1 /\ w.funct7 = z + 64 * t
  BY WordGroups, Parts, SMT
<1> HIDE DEF x, y, z, t, v
<1>4. /\ (v \div 2048) % 2 = x /\ (v \div 2) % 16 = y
      /\ (v \div 32) % 64 = z  /\ (v \div 4096) % 2 = t
  BY <1>2, <1>3, BranchBitsBack, SMT
<1> QED BY <1>1, <1>3, <1>4, WordExtensional, SMT

(* The same for the format of JAL.                                         *)
LEMMA ReencodedJ ==
  ASSUME NEW w \in RvWord, w.opcode = "JAL"
  PROVE  encode_Jtype(decode_Jtype(w)) = w
<1> DEFINE f == w.funct3
           a == w.rs1
           b == w.rs2
           g == w.funct7
           x == b % 2
           y == b \div 2
           z == g % 64
           t == g \div 64
           p == f + 8 * a
           v == decode_Jtype(w).imm
           enc == p + 256 * x + 512 * (y + 16 * z) + Two19 * t
<1>1. v = 2 * y + 32 * z + 2048 * x + 4096 * p - Two20 * t
  <2>1. v = ImmJ(w)
    BY DecodedImmediate, DecodeCases, SMT DEF DecodesAsHardware, ITypeOp, UTypeOp
  <2> QED BY <2>1, SMT DEF ImmJ
<1>2. decode_Jtype(w).opcode = w.opcode /\ decode_Jtype(w).rd = w.rd
  BY SMT DEF decode_Jtype
<1>3. decode_Utype(w) = [opcode |-> w.opcode, rd |-> w.rd, imm |-> Upper(f, a, b, g)]
  BY SMT DEF decode_Utype, Upper
<1>4. f \in 0..7 /\ a \in 0..31 /\ b \in 0..31 /\ g \in 0..127
  BY WordGroups, SMT
<1> HIDE DEF f, a, b, g
<1>5. p \in 0..255
  BY <1>4, SMT
<1>6. /\ x \in 0..1 /\ y \in 0..15 /\ b = x + 2 * y
      /\ z \in 0..63 /\ t \in 0..1 /\ g = z + 64 * t
  BY <1>4, Parts, SMT
<1> HIDE DEF x, y, z, t, v
<1>7. enc = Upper(f, a, b, g)
  BY <1>4, <1>6, SMT DEF Upper, Two19, Groups
<1> HIDE DEF p
<1>8. /\ (v % 2048) \div 2 = y + 16 * z /\ (v \div 2048) % 2 = x
      /\ (v \div 4096) % 256 = p        /\ (v \div Two20) % 2 = t
  <2>1. IsJump(v, t, x, z, y, p)
    BY <1>1, <1>5, <1>6, Zenon DEF IsJump
  <2> QED BY <2>1, JumpBitsBack, SMT
<1>9. encode_Jtype(decode_Jtype(w))
        = encode_Utype([opcode |-> w.opcode, rd |-> w.rd, imm |-> enc])
  BY <1>2, <1>8, SMT DEF encode_Jtype, v
<1> HIDE DEF enc
<1> QED BY <1>3, <1>7, <1>9, ReencodedU, SMT

(* encode_instruction undoes decode_instruction on every word it encodes.  *)
LEMMA Reencoded ==
  ASSUME NEW w \in RvWord
  PROVE  ReencodesExactly(w)
<1> SUFFICES ASSUME w.opcode \notin NotEncoded
             PROVE  encode_instruction(decode_instruction(w)) = w
  BY SMT DEF ReencodesExactly
<1>1. CASE w.opcode \in RTypeOp
  <2>1. decode_Rtype(w) = w
    BY WordExtensional, SMT DEF decode_Rtype
  <2>2. encode_Rtype(w) = w
    BY WordExtensional, SMT DEF encode_Rtype
  <2> QED BY <1>1, <2>1, <2>2, DecodeCases, EncodeCases, SMT
<1>2. CASE w.opcode \in {"LOAD", "JALR", "OPIMM", "OPIMM_32"}
  <2>1. decode_Itype(w).opcode = w.opcode
    BY SMT DEF decode_Itype
  <2> QED BY <1>2, <2>1, DecodeCases, EncodeCases, ReencodedI, SMT DEF ITypeOp
<1>3. CASE w.opcode = "STORE"
  <2>1. decode_Stype(w).opcode = w.opcode
    BY SMT DEF decode_Stype
  <2> QED BY <1>3, <2>1, DecodeCases, EncodeCases, ReencodedS, SMT
<1>4. CASE w.opcode \in UTypeOp
  <2>1. decode_Utype(w).opcode = w.opcode
    BY SMT DEF decode_Utype
  <2> QED BY <1>4, <2>1, DecodeCases, EncodeCases, ReencodedU, SMT
<1>5. CASE w.opcode = "BRANCH"
  <2>1. decode_Btype(w).opcode = w.opcode
    BY SMT DEF decode_Btype
  <2> QED BY <1>5, <2>1, DecodeCases, EncodeCases, ReencodedB, SMT
<1>6. CASE w.opcode = "JAL"
  <2>1. decode_Jtype(w).opcode = w.opcode
    BY SMT DEF decode_Jtype
  <2> QED BY <1>6, <2>1, DecodeCases, EncodeCases, ReencodedJ, SMT
<1> QED
  BY <1>1, <1>2, <1>3, <1>4, <1>5, <1>6, WordGroups, SMT
  DEF OpcodeName, NotEncoded, RTypeOp, ITypeOp, UTypeOp

-----------------------------------------------------------------------------
(* The words laid out.                                                     *)

(* Every encoder makes a word, whatever the immediate.                     *)
LEMMA EncodedR ==
  ASSUME NEW i, i.opcode \in OpcodeName, i.rd \in 0..31, i.funct3 \in 0..7,
         i.rs1 \in 0..31, i.rs2 \in 0..31, i.funct7 \in 0..127
  PROVE  encode_Rtype(i) \in RvWord
BY SMT DEF encode_Rtype, RvWord

(* An immediate cut into five and seven bits.                              *)
LEMMA LowGroups ==
  ASSUME NEW v \in Int
  PROVE  v % 32 \in 0..31 /\ (v % 4096) \div 32 \in 0..127
BY SMT

(* The I-type encoder makes a word.                                        *)
LEMMA EncodedI ==
  ASSUME NEW i, i.opcode \in OpcodeName, i.rd \in 0..31, i.funct3 \in 0..7,
         i.rs1 \in 0..31, i.imm \in Int
  PROVE  encode_Itype(i) \in RvWord
BY LowGroups, SMT DEF encode_Itype, RvWord

(* The S-type encoder makes a word.                                        *)
LEMMA EncodedS ==
  ASSUME NEW i, i.opcode \in OpcodeName, i.funct3 \in 0..7,
         i.rs1 \in 0..31, i.rs2 \in 0..31, i.imm \in Int
  PROVE  encode_Stype(i) \in RvWord
BY LowGroups, SMT DEF encode_Stype, RvWord

(* The U-type encoder makes a word.                                        *)
LEMMA EncodedU ==
  ASSUME NEW i, i.opcode \in OpcodeName, i.rd \in 0..31, i.imm \in Int
  PROVE  encode_Utype(i) \in RvWord
<1>1. ASSUME NEW v \in Int
      PROVE  /\ v % 8 \in 0..7 /\ (v \div 8) % 32 \in 0..31
             /\ (v \div 256) % 32 \in 0..31 /\ (v \div 8192) % 128 \in 0..127
  BY SMT
<1> QED BY <1>1, SMT DEF encode_Utype, RvWord

(* The B-type encoder makes a word.                                        *)
LEMMA EncodedB ==
  ASSUME NEW i, i.opcode \in OpcodeName, i.funct3 \in 0..7,
         i.rs1 \in 0..31, i.rs2 \in 0..31, i.imm \in Int
  PROVE  encode_Btype(i) \in RvWord
<1>1. ASSUME NEW v \in Int
      PROVE  /\ ((v \div 2048) % 2) + 2 * ((v \div 2) % 16) \in 0..31
             /\ ((v \div 32) % 64) + 64 * ((v \div 4096) % 2) \in 0..127
  BY SMT
<1> QED BY <1>1, SMT DEF encode_Btype, RvWord

(* The J-type encoder makes a word.                                        *)
LEMMA EncodedJ ==
  ASSUME NEW i, i.opcode \in OpcodeName, i.rd \in 0..31, i.imm \in Int
  PROVE  encode_Jtype(i) \in RvWord
<1> DEFINE x1 == (i.imm % 2048) \div 2
           x2 == (i.imm \div 2048) % 2
           x3 == (i.imm \div 4096) % 256
           x4 == (i.imm \div Two20) % 2
           u  == [opcode |-> i.opcode, rd |-> i.rd,
                  imm |-> x3 + 256 * x2 + 512 * x1 + Two19 * x4]
<1>1. encode_Jtype(i) = encode_Utype(u)
  BY SMT DEF encode_Jtype
<1>2. x1 \in Int /\ x2 \in Int /\ x3 \in Int /\ x4 \in Int
  BY SMT DEF Two20
<1> HIDE DEF x1, x2, x3, x4
<1>3. u.imm \in Int
  BY <1>2, SMT DEF Two19
<1>4. u.opcode = i.opcode /\ u.rd = i.rd
  BY SMT
<1> HIDE DEF u
<1> QED BY <1>1, <1>3, <1>4, EncodedU, SMT

(* Sequences of words: of one word, of two, and one after another.         *)
LEMMA WordSequences ==
  /\ << >> \in Seq(RvWord)
  /\ \A v \in RvWord : <<v>> \in Seq(RvWord)
  /\ \A v, w \in RvWord : <<v, w>> \in Seq(RvWord)
  /\ \A u, v, w \in RvWord : <<u, v, w>> \in Seq(RvWord)
  /\ \A s, t \in Seq(RvWord) : s \o t \in Seq(RvWord)
BY SMT

(* insertLi lays out words for every value.                                *)
LEMMA InsertLiWords ==
  ASSUME NEW v \in Int, NEW reg \in 0..31
  PROVE  insertLi(v, reg) \in Seq(RvWord)
<1> DEFINE low   == [opcode |-> "OPIMM", rd |-> reg, funct3 |-> 0, rs1 |-> reg,
                     imm |-> (v % 4096) \div 2]
           upper == [opcode |-> "LUI", rd |-> reg, imm |-> (v \div 4096) % Two20]
<1>1. (v % 4096) \div 2 \in Int /\ (v \div 4096) % Two20 \in Int
  BY SMT DEF Two20
<1>2. encode_Itype(low) \in RvWord
  BY <1>1, EncodedI, SMT DEF OpcodeName, ITypeOp
<1>3. encode_Utype(upper) \in RvWord
  BY <1>1, EncodedU, SMT DEF OpcodeName, UTypeOp
<1>4. insertLi(v, reg) = <<encode_Utype(upper), encode_Itype(low), encode_Itype(low)>>
  BY SMT DEF insertLi
<1> HIDE DEF low, upper
<1> QED BY <1>2, <1>3, <1>4, WordSequences, SMT

(* The small pieces of a sequence are words.                               *)
LEMMA MoveSPWord ==
  ASSUME NEW n \in Int
  PROVE  MoveSP(n) \in RvWord
BY EncodedI, SMT DEF MoveSP, OpcodeName, ITypeOp, SP

(* Saving and restoring a register.                                        *)
LEMMA ParkingWords ==
  ASSUME NEW r \in 0..31
  PROVE  inline_save(r) \in Seq(RvWord) /\ inline_load(r) \in Seq(RvWord)
<1>1. encode_Stype([opcode |-> "STORE", funct3 |-> 3, rs1 |-> SP, rs2 |-> r, imm |-> 0])
        \in RvWord
  BY EncodedS, SMT DEF OpcodeName, SP
<1>2. encode_Itype([opcode |-> "LOAD", rd |-> r, funct3 |-> 3, rs1 |-> SP, imm |-> 0])
        \in RvWord
  BY EncodedI, SMT DEF OpcodeName, ITypeOp, SP
<1>3. MoveSP(-16) \in RvWord /\ MoveSP(16) \in RvWord
  BY MoveSPWord, SMT
<1> QED BY <1>1, <1>2, <1>3, WordSequences, SMT DEF inline_save, inline_load

(* The jump out of the cache.                                              *)
LEMMA JalrT6Words == JalrT6 \in Seq(RvWord)
<1>1. encode_Itype([opcode |-> "JALR", rd |-> ZERO, funct3 |-> 0, rs1 |-> T6, imm |-> 0])
        \in RvWord
  BY EncodedI, SMT DEF OpcodeName, ITypeOp, ZERO, T6
<1> QED BY <1>1, WordSequences, SMT DEF JalrT6

(* A jump inside a sequence.                                               *)
LEMMA JalWord ==
  ASSUME NEW n \in Int
  PROVE  Jal(n) \in RvWord
BY EncodedJ, SMT DEF Jal, OpcodeName, ZERO

(* The branch that decides whether an access is adjusted.                  *)
LEMMA BltOverWord ==
  ASSUME NEW a \in 0..31, NEW b \in 0..31
  PROVE  BltOver(a, b) \in RvWord
BY EncodedB, SMT DEF BltOver, OpcodeName

(* Moving a base register, and moving it back.                             *)
LEMMA ArithWords ==
  ASSUME NEW d \in 0..31, NEW a \in 0..31, NEW b \in 0..31
  PROVE  Add(d, a, b) \in RvWord /\ Sub(d, a, b) \in RvWord
<1>1. ASSUME NEW k \in 0..127
      PROVE  Arith(k, d, a, b) \in RvWord
  BY EncodedR, SMT DEF Arith, OpcodeName, RTypeOp
<1> QED BY <1>1, SMT DEF Add, Sub

(* An access with its scratch register saved and restored around it.       *)
LEMMA AroundWords ==
  ASSUME NEW w \in RvWord, NEW s \in 0..31, NEW access \in RvWord, NEW skip \in Int,
         NEW adjusted \in Seq(RvWord)
  PROVE  Around(w, s, access, skip, adjusted) \in Seq(RvWord)
<1>1. inline_save(s) \in Seq(RvWord) /\ inline_load(s) \in Seq(RvWord)
  BY ParkingWords
<1>2. insertLi(dataOffset, s) \in Seq(RvWord)
  <2>1. dataOffset \in Int
    BY AddressAssumption, SMT
  <2> QED BY <2>1, InsertLiWords
<1>3. BltOver(w.rs1, s) \in RvWord /\ Jal(skip) \in RvWord
  <2>1. w.rs1 \in 0..31
    BY WordGroups
  <2> QED BY <2>1, BltOverWord, JalWord
<1>4. <<BltOver(w.rs1, s), access, Jal(skip)>> \in Seq(RvWord)
  BY <1>3, WordSequences, SMT
<1> QED BY <1>1, <1>2, <1>4, WordSequences, SMT DEF Around

(* The scratch register is a register.                                     *)
LEMMA ScratchRange ==
  ASSUME NEW i
  PROVE  Scratch(i) \in 0..31
BY SMT DEF Scratch, T5, T6

(* An immediate of twelve bits is a number.                                *)
LEMMA TwelveBitsInt ==
  ASSUME NEW w \in RvWord
  PROVE  /\ SignExtended(w.rs2 + 32 * w.funct7, 4096) \in Int
         /\ SignExtended(w.rd + 32 * w.funct7, 4096) \in Int
<1>1. ASSUME NEW v \in Int
      PROVE  SignExtended(v, 4096) \in Int
  BY SMT DEF SignExtended
<1>2. w.rs2 + 32 * w.funct7 \in Int /\ w.rd + 32 * w.funct7 \in Int
  <2>1. w.rs2 \in Int /\ w.rd \in Int /\ w.funct7 \in Int
    BY WordGroups, SMT
  <2> QED BY <2>1, SMT
<1> QED BY <1>1, <1>2, SMT

(* What the decoder gives for a load or a store encodes to a word with any *)
(* base register.                                                          *)
LEMMA RebasedWord ==
  ASSUME NEW w \in RvWord, w.opcode \in {"LOAD", "STORE"}, NEW s \in 0..31
  PROVE  encode_instruction([decode_instruction(w) EXCEPT !.rs1 = s]) \in RvWord
<1> DEFINE i == decode_instruction(w)
           r == [i EXCEPT !.rs1 = s]
<1>g. /\ w.opcode \in OpcodeName
      /\ w.rd \in 0..31 /\ w.funct3 \in 0..7 /\ w.rs1 \in 0..31
      /\ w.rs2 \in 0..31 /\ w.funct7 \in 0..127
  BY WordGroups
<1>1. CASE w.opcode = "LOAD"
  <2>1. i = decode_Itype(w)
    BY <1>1, DecodeCases, SMT DEF ITypeOp
  <2>2. SignExtended(w.rs2 + 32 * w.funct7, 4096) \in Int
    BY TwelveBitsInt, SMT
  <2>3. /\ r.opcode = "LOAD" /\ r.rd = w.rd /\ r.funct3 = w.funct3 /\ r.rs1 = s
        /\ r.imm = SignExtended(w.rs2 + 32 * w.funct7, 4096)
    BY <1>1, <2>1, SMT DEF decode_Itype
  <2> HIDE DEF r, i
  <2>4. encode_Itype(r) \in RvWord
    BY <1>1, <1>g, <2>2, <2>3, EncodedI, SMT
  <2>5. encode_instruction(r) = encode_Itype(r)
    BY <2>3, EncodeCases, SMT
  <2> QED BY <2>4, <2>5, Zenon DEF r, i
<1>2. CASE w.opcode = "STORE"
  <2>1. i = decode_Stype(w)
    BY <1>2, DecodeCases, SMT
  <2>2. SignExtended(w.rd + 32 * w.funct7, 4096) \in Int
    BY TwelveBitsInt, SMT
  <2>3. /\ r.opcode = "STORE" /\ r.rs2 = w.rs2 /\ r.funct3 = w.funct3 /\ r.rs1 = s
        /\ r.imm = SignExtended(w.rd + 32 * w.funct7, 4096)
    BY <1>2, <2>1, SMT DEF decode_Stype
  <2> HIDE DEF r, i
  <2>4. encode_Stype(r) \in RvWord
    BY <1>2, <1>g, <2>2, <2>3, EncodedS, SMT
  <2>5. encode_instruction(r) = encode_Stype(r)
    BY <2>3, EncodeCases, SMT
  <2> QED BY <2>4, <2>5, Zenon DEF r, i
<1> QED BY <1>1, <1>2

(* The sequence allocateBB lays out for a load or store.                   *)
LEMMA AdjustedAccessWords ==
  ASSUME NEW w \in RvWord, w.opcode \in {"LOAD", "STORE"}
  PROVE  AdjustedAccess(w) \in Seq(RvWord)
<1> DEFINE i == decode_instruction(w)
           s == Scratch(i)
           moved == encode_instruction([i EXCEPT !.rs1 = s])
<1>1. s \in 0..31
  BY ScratchRange
<1>2. i.rs1 = w.rs1
  BY DecodeCases, SMT DEF decode_Itype, decode_Stype, ITypeOp
<1>3. w.rs1 \in 0..31
  BY WordGroups
<1>4. Add(s, i.rs1, s) \in RvWord
  <2> HIDE DEF s, i
  <2> QED BY <1>1, <1>2, <1>3, ArithWords
<1>5. moved \in RvWord
  <2> HIDE DEF s
  <2> QED BY <1>1, RebasedWord
<1>6. AdjustedAccess(w) = Around(w, s, w, 12, <<Add(s, i.rs1, s), moved>>)
  BY DEF AdjustedAccess
<1> HIDE DEF s, i, moved
<1>7. <<Add(s, i.rs1, s), moved>> \in Seq(RvWord)
  BY <1>4, <1>5, WordSequences
<1>8. 12 \in Int
  BY SMT
<1> QED BY <1>1, <1>6, <1>7, <1>8, AroundWords

(* The sequence allocateNextInst lays out for a load or store.             *)
LEMMA AdjustedInPlaceWords ==
  ASSUME NEW w \in RvWord, w.opcode \in {"LOAD", "STORE"}
  PROVE  AdjustedInPlace(w) \in Seq(RvWord)
<1> DEFINE i     == decode_instruction(w)
           s     == Scratch(i)
           other == IF w.opcode = "LOAD" THEN i.rd ELSE i.rs2
           back  == IF i.rs1 # other THEN Sub(i.rs1, i.rs1, s) ELSE Nop
<1>1. s \in 0..31
  BY ScratchRange
<1>2. i.rs1 = w.rs1
  BY DecodeCases, SMT DEF decode_Itype, decode_Stype, ITypeOp
<1>3. w.rs1 \in 0..31
  BY WordGroups
<1>4. Nop \in RvWord
  BY SMT DEF Nop, RvWord, OpcodeName, ITypeOp
<1>6. AdjustedInPlace(w) = Around(w, s, w, 16, <<Add(i.rs1, i.rs1, s), w, back>>)
  BY DEF AdjustedInPlace
<1> HIDE DEF s, i, other
<1>5. Add(i.rs1, i.rs1, s) \in RvWord /\ back \in RvWord
  BY <1>1, <1>2, <1>3, <1>4, ArithWords
<1> HIDE DEF back
<1>7. <<Add(i.rs1, i.rs1, s), w, back>> \in Seq(RvWord)
  BY <1>5, WordSequences
<1>8. 16 \in Int
  BY SMT
<1> QED BY <1>1, <1>6, <1>7, <1>8, AroundWords

(* An atomic, as it is copied, is a word; of LR and SC, one of opcode OP.  *)
LEMMA UnreservedWord ==
  ASSUME NEW w \in RvWord, w.opcode = "AMO"
  PROVE  Unreserved(w) \in RvWord /\ Unreserved(w).opcode \in RTypeOp
<1> DEFINE i     == decode_Rtype(w)
           width == IF i.funct3 = 2 THEN 2 ELSE 3
           load  == [opcode |-> "OP", rd |-> i.rd, funct3 |-> width, rs1 |-> i.rs1, imm |-> 0]
           store == [opcode |-> "OP", funct3 |-> width, rs1 |-> i.rs1, rs2 |-> i.rs2, imm |-> 0]
<1>g. w.rd \in 0..31 /\ w.rs1 \in 0..31 /\ w.rs2 \in 0..31
  BY WordGroups
<1>1. width \in 0..7
  BY SMT
<1>2. i.rd = w.rd /\ i.rs1 = w.rs1 /\ i.rs2 = w.rs2
  BY SMT DEF decode_Rtype
<1>3. Unreserved(w) \in {encode_Itype(load), encode_Stype(store), w}
  BY SMT DEF Unreserved
<1> HIDE DEF i, width
<1>4. encode_Itype(load) \in RvWord /\ encode_Itype(load).opcode = "OP"
  <2>1. /\ load.opcode = "OP" /\ load.rd = i.rd /\ load.funct3 = width
        /\ load.rs1 = i.rs1 /\ load.imm = 0
    BY SMT
  <2>2. load.opcode \in OpcodeName
    BY <2>1, SMT DEF OpcodeName, RTypeOp
  <2> HIDE DEF load
  <2>3. encode_Itype(load).opcode = "OP"
    BY <2>1, SMT DEF encode_Itype
  <2> QED BY <1>g, <1>1, <1>2, <2>1, <2>2, <2>3, EncodedI, SMT
<1>5. encode_Stype(store) \in RvWord /\ encode_Stype(store).opcode = "OP"
  <2>1. /\ store.opcode = "OP" /\ store.rs2 = i.rs2 /\ store.funct3 = width
        /\ store.rs1 = i.rs1 /\ store.imm = 0
    BY SMT
  <2>2. store.opcode \in OpcodeName
    BY <2>1, SMT DEF OpcodeName, RTypeOp
  <2> HIDE DEF store
  <2>3. encode_Stype(store).opcode = "OP"
    BY <2>1, SMT DEF encode_Stype
  <2> QED BY <1>g, <1>1, <1>2, <2>1, <2>2, <2>3, EncodedS, SMT
<1> HIDE DEF load, store
<1> QED BY <1>3, <1>4, <1>5, Zenon DEF RTypeOp

(* The words after an SC.                                                  *)
LEMMA SuccessWords ==
  ASSUME NEW w \in RvWord
  PROVE  Success(w) \in Seq(RvWord)
<1> DEFINE ok == [opcode |-> "OP", rd |-> w.rd, funct3 |-> 0, rs1 |-> ZERO, imm |-> 0]
<1>1. w.rd \in 0..31
  BY WordGroups
<1>2. encode_Itype(ok) \in RvWord
  BY <1>1, EncodedI, SMT DEF OpcodeName, RTypeOp, ZERO
<1>3. Success(w) \in {<< >>, <<encode_Itype(ok)>>}
  BY SMT DEF Success
<1> HIDE DEF ok
<1> QED BY <1>2, <1>3, WordSequences, Zenon

(* The sequence allocateBB lays out for an atomic.                         *)
LEMMA AdjustedAtomicWords ==
  ASSUME NEW w \in RvWord, w.opcode = "AMO"
  PROVE  AdjustedAtomic(w) \in Seq(RvWord)
<1> DEFINE access == Unreserved(w)
           i == decode_instruction(access)
           s == Scratch(i)
<1>1. s \in 0..31
  BY ScratchRange
<1>2. access \in RvWord /\ access.opcode \in RTypeOp
  BY UnreservedWord
<1>3. AdjustedAtomic(w)
        = Around(w, s, access, 16, <<Add(i.rs1, i.rs1, s), encode_instruction(i),
                                     Sub(i.rs1, i.rs1, s)>>) \o Success(w)
  BY DEF AdjustedAtomic
<1> HIDE DEF access
<1>4. i = access
  <2>1. decode_Rtype(access) = access
    BY <1>2, WordExtensional, SMT DEF decode_Rtype
  <2> QED BY <1>2, <2>1, DecodeCases
<1>5. encode_instruction(i) \in RvWord
  <2>1. encode_Rtype(access) = access
    BY <1>2, WordExtensional, SMT DEF encode_Rtype
  <2>2. encode_instruction(access) = access
    BY <1>2, <2>1, EncodeCases
  <2> HIDE DEF i
  <2> QED BY <1>2, <1>4, <2>2
<1>6. i.rs1 \in 0..31
  <2>1. access.rs1 \in 0..31
    BY <1>2, WordGroups
  <2> HIDE DEF i
  <2> QED BY <1>4, <2>1
<1> HIDE DEF s, i
<1>7. Add(i.rs1, i.rs1, s) \in RvWord /\ Sub(i.rs1, i.rs1, s) \in RvWord
  BY <1>1, <1>6, ArithWords
<1>8. <<Add(i.rs1, i.rs1, s), encode_instruction(i), Sub(i.rs1, i.rs1, s)>> \in Seq(RvWord)
  BY <1>5, <1>7, WordSequences
<1>9. 16 \in Int
  BY SMT
<1>10. Around(w, s, access, 16, <<Add(i.rs1, i.rs1, s), encode_instruction(i),
                                  Sub(i.rs1, i.rs1, s)>>) \in Seq(RvWord)
  BY <1>1, <1>2, <1>8, <1>9, AroundWords
<1> QED BY <1>3, <1>10, SuccessWords, WordSequences

(* The li in place of an AUIPC.                                            *)
LEMMA ReplacedAuipcWords ==
  ASSUME NEW w \in RvWord
  PROVE  ReplacedAuipc(w) \in Seq(RvWord)
<1> DEFINE i == decode_Utype(w)
           v == PC + 4096 * SignExtended(i.imm, Two20)
<1>1. i.rd = w.rd /\ i.imm = w.funct3 + 8 * w.rs1 + 256 * w.rs2 + 8192 * w.funct7
  BY SMT DEF decode_Utype
<1>2. ReplacedAuipc(w) = insertLi(v, i.rd)
  BY DEF ReplacedAuipc
<1> HIDE DEF i
<1>3. i.imm \in Int
  <2>1. w.funct3 \in Int /\ w.rs1 \in Int /\ w.rs2 \in Int /\ w.funct7 \in Int
    BY WordGroups, SMT
  <2> QED BY <1>1, <2>1, SMT
<1>4. SignExtended(i.imm, Two20) \in Int
  BY <1>3, SMT DEF SignExtended, Two20
<1>5. v \in Int
  BY <1>4, AddressAssumption, SMT
<1>6. i.rd \in 0..31
  BY <1>1, WordGroups, SMT
<1> HIDE DEF v
<1> QED BY <1>2, <1>5, <1>6, InsertLiWords

(* The exits laid out for a branch.                                        *)
LEMMA BranchExitWords ==
  ASSUME NEW w \in RvWord, w.opcode = "BRANCH"
  PROVE  BranchExit(w) \in Seq(RvWord)
<1> DEFINE skip == [decode_Btype(w) EXCEPT !.imm = 20]
           branch == encode_Btype(skip)
<1>1. /\ skip.opcode = w.opcode /\ skip.funct3 = w.funct3 /\ skip.rs1 = w.rs1
      /\ skip.rs2 = w.rs2 /\ skip.imm = 20
  BY SMT DEF decode_Btype
<1>2. BranchExit(w) = inline_save(T6) \o <<branch>> \o insertLi(ContextSwitch, T6) \o JalrT6
                        \o insertLi(ContextSwitchTaken, T6) \o JalrT6
  BY DEF BranchExit
<1> HIDE DEF skip
<1>3. branch \in RvWord
  BY <1>1, WordGroups, EncodedB, SMT
<1>4. T6 \in 0..31 /\ ContextSwitch \in Int /\ ContextSwitchTaken \in Int
  BY SMT DEF T6, ContextSwitch, ContextSwitchTaken
<1>5. /\ inline_save(T6) \in Seq(RvWord)
      /\ insertLi(ContextSwitch, T6) \in Seq(RvWord)
      /\ insertLi(ContextSwitchTaken, T6) \in Seq(RvWord)
  BY <1>4, ParkingWords, InsertLiWords
<1> HIDE DEF branch
<1>6. <<branch>> \in Seq(RvWord)
  BY <1>3, WordSequences
<1> QED BY <1>2, <1>5, <1>6, JalrT6Words, WordSequences, SMT

(* Whatever the guest's word, words are laid out for it.                   *)
LEMMA LaidOutWords ==
  ASSUME NEW w \in RvWord
  PROVE  LaidOut(w) \in Seq(RvWord)
<1>1. w.opcode = "BRANCH" => BranchExit(w) \in Seq(RvWord)
  BY BranchExitWords
<1>2. ReplacedAuipc(w) \in Seq(RvWord)
  BY ReplacedAuipcWords
<1>3. w.opcode \in {"LOAD", "STORE"}
        => AdjustedAccess(w) \in Seq(RvWord) /\ AdjustedInPlace(w) \in Seq(RvWord)
  BY AdjustedAccessWords, AdjustedInPlaceWords
<1>4. w.opcode = "AMO" => /\ AdjustedAtomic(w) \in Seq(RvWord)
                          /\ <<Unreserved(w)>> \o Success(w) \in Seq(RvWord)
  BY AdjustedAtomicWords, UnreservedWord, SuccessWords, WordSequences
<1>5. <<w>> \in Seq(RvWord)
  BY WordSequences
<1> QED BY <1>1, <1>2, <1>3, <1>4, <1>5, SMT DEF LaidOut

-----------------------------------------------------------------------------
(* The specification.                                                      *)

(* The invariant CodecIsExact needs: whatever is laid out are words.       *)
WordsInv == inst \in RvWord /\ single \in BOOLEAN /\ words \in Seq(RvWord)

(* The invariant holds of every state of the specification.                *)
LEMMA WordsInvariant == Spec => []WordsInv
<1>1. Init => WordsInv
  <2> SUFFICES ASSUME Init PROVE WordsInv
    OBVIOUS
  <2>1. PICK c \in Cases : inst = c.inst /\ single = c.single
    BY DEF Init
  <2>2. c.inst \in RvWord /\ c.single \in BOOLEAN
    BY CasesAssumption, SMT
  <2>3. words = << >>
    BY DEF Init
  <2> QED BY <2>1, <2>2, <2>3, WordSequences DEF WordsInv
<1>2. WordsInv /\ [Next]_vars => WordsInv'
  <2> SUFFICES ASSUME WordsInv, [Next]_vars PROVE WordsInv'
    OBVIOUS
  <2> USE DEF WordsInv
  <2>1. CASE Allocate
    BY <2>1, LaidOutWords DEF Allocate
  <2>2. CASE RunOpImm \/ RunLui \/ RunOp
    BY <2>2 DEF RunOpImm, RunLui, RunOp, Computes, laidOut
  <2>3. CASE RunAccess
    BY <2>3 DEF RunAccess, laidOut
  <2>4. CASE RunBranch \/ RunJal
    BY <2>4 DEF RunBranch, RunJal, Goes, laidOut
  <2>5. CASE RunJalr
    BY <2>5 DEF RunJalr, laidOut
  <2>6. CASE Finish \/ UNCHANGED vars
    BY <2>6 DEF Finish, vars
  <2> QED BY <2>1, <2>2, <2>3, <2>4, <2>5, <2>6 DEF Next, Step
<1> QED BY <1>1, <1>2, PTL DEF Spec

(* Every word of the cache, and the guest's own, is decoded as the         *)
(* processor reads it and encoded back to itself: for all instructions,    *)
(* registers, immediates, addresses and data offsets.                      *)
THEOREM CodecCorrect == Spec => []CodecIsExact
<1>1. WordsInv => CodecIsExact
  <2> SUFFICES ASSUME WordsInv,
                      NEW w \in {inst} \cup {words[k] : k \in DOMAIN words}
               PROVE  DecodesAsHardware(w) /\ ReencodesExactly(w)
    BY DEF CodecIsExact
  <2>1. w \in RvWord
    BY SMT DEF WordsInv
  <2> QED BY <2>1, DecodedImmediate, Reencoded
<1> QED BY <1>1, WordsInvariant, PTL

-----------------------------------------------------------------------------
(* The words of a sequence as the processor reads them.                    *)

(* Moving the stack pointer.                                                *)
LEMMA MoveSPReads ==
  ASSUME NEW n \in {-16, 16}
  PROVE  LET w == MoveSP(n)
         IN  w.opcode = "OPIMM" /\ w.rd = SP /\ w.rs1 = SP /\ ImmI(w) = n
BY SMT DEF MoveSP, encode_Itype, ImmI

(* Storing and loading a register where the stack pointer is.               *)
SaveWord(r) == encode_Stype([opcode |-> "STORE", funct3 |-> 3, rs1 |-> SP, rs2 |-> r, imm |-> 0])
LoadWord(r) == encode_Itype([opcode |-> "LOAD", rd |-> r, funct3 |-> 3, rs1 |-> SP, imm |-> 0])

(* inline_save and inline_load.                                             *)
LEMMA ParkingReads ==
  ASSUME NEW r
  PROVE  /\ inline_save(r) = <<MoveSP(-16), SaveWord(r)>>
         /\ inline_load(r) = <<LoadWord(r), MoveSP(16)>>
         /\ SaveWord(r).opcode = "STORE" /\ SaveWord(r).funct3 = 3
         /\ SaveWord(r).rs1 = SP /\ SaveWord(r).rs2 = r /\ ImmS(SaveWord(r)) = 0
         /\ LoadWord(r).opcode = "LOAD" /\ LoadWord(r).funct3 = 3
         /\ LoadWord(r).rs1 = SP /\ LoadWord(r).rd = r /\ ImmI(LoadWord(r)) = 0
BY DEF inline_save, inline_load, SaveWord, LoadWord, encode_Stype, encode_Itype, ImmI, ImmS

(* insertLi's words.                                                        *)
LuiWord(v, r) == encode_Utype([opcode |-> "LUI", rd |-> r, imm |-> (v \div 4096) % Two20])
AddiWord(v, r) ==
  encode_Itype([opcode |-> "OPIMM", rd |-> r, funct3 |-> 0, rs1 |-> r,
                imm |-> (v % 4096) \div 2])

(* A number of twenty bits, cut as a U-type word keeps it, top bit negative. *)
LEMMA UpperCut ==
  ASSUME NEW u \in Nat, u < Two20
  PROVE  (u % 8) + 8 * ((u \div 8) % 32) + 256 * ((u \div 256) % 32)
           + 8192 * (((u \div 8192) % 128) % 64) - Two19 * (((u \div 8192) % 128) \div 64)
         = IF u < Two19 THEN u ELSE u - Two20
<1> DEFINE a == u \div 8
           b == a \div 32
           c == b \div 32
           d == c \div 64
<1>1. a \in Nat /\ u - 8 * a = u % 8 /\ u % 8 \in 0..7
  BY SMT
<1>2. b \in Nat /\ a - 32 * b = a % 32 /\ a % 32 \in 0..31
  <2> HIDE DEF a
  <2> QED BY <1>1, SMT
<1>3. c \in Nat /\ b - 32 * c = b % 32 /\ b % 32 \in 0..31
  <2> HIDE DEF b
  <2> QED BY <1>2, SMT
<1>4. d \in Nat /\ c - 64 * d = c % 64 /\ c % 64 \in 0..63
  <2> HIDE DEF c
  <2> QED BY <1>3, SMT
<1>5. u \div 256 = b /\ u \div 8192 = c
  BY SMT
<1> HIDE DEF a, b, c, d
<1>6. c \in 0..127 /\ d \in 0..1
  BY <1>1, <1>2, <1>3, <1>4, SMT DEF Two20
<1>7. c % 128 = c
  BY <1>6, SMT
<1>8. c \div 64 = d
  BY <1>4, <1>6, SMT
<1>9. u = 524288 * d + 8192 * (c % 64) + 256 * (b % 32) + 8 * (a % 32) + (u % 8)
  <2> DEFINE r0 == u % 8
             r1 == a % 32
             r2 == b % 32
             r3 == c % 64
  <2>1. r0 \in Int /\ r1 \in Int /\ r2 \in Int /\ r3 \in Int
    BY <1>1, <1>2, <1>3, <1>4, SMT
  <2>2. u = 8 * a + r0 /\ a = 32 * b + r1 /\ b = 32 * c + r2 /\ c = 64 * d + r3
    <3>1. u - 8 * a = r0 /\ a - 32 * b = r1 /\ b - 32 * c = r2 /\ c - 64 * d = r3
      BY <1>1, <1>2, <1>3, <1>4
    <3> HIDE DEF r0, r1, r2, r3
    <3> QED BY <1>1, <1>2, <1>3, <1>4, <2>1, <3>1, SMT
  <2> HIDE DEF r0, r1, r2, r3
  <2>3. u = 524288 * d + 8192 * r3 + 256 * r2 + 8 * r1 + r0
    BY <1>1, <1>2, <1>3, <1>4, <2>1, <2>2, SMT
  <2> QED BY <2>3 DEF r0, r1, r2, r3
<1>10. u < Two19 <=> d = 0
  BY <1>1, <1>2, <1>3, <1>4, <1>6, <1>9, SMT DEF Two19
<1>11. (u \div 8) % 32 = a % 32
  BY DEF a
<1> QED
  BY <1>1, <1>2, <1>3, <1>4, <1>5, <1>6, <1>7, <1>8, <1>9, <1>10, <1>11, SMT DEF Two19, Two20

(* Together they make the constant, if it is even and has 32 bits: the upper*)
(* twenty and, twice, half of the lower twelve.                             *)
LEMMA LiReads ==
  ASSUME NEW v \in Int, v % 2 = 0, -2147483647 - 1 <= v, v <= 2147483647, NEW r
  PROVE  /\ insertLi(v, r) = <<LuiWord(v, r), AddiWord(v, r), AddiWord(v, r)>>
         /\ LuiWord(v, r).opcode = "LUI" /\ LuiWord(v, r).rd = r
         /\ ImmU(LuiWord(v, r)) = Page(v)
         /\ AddiWord(v, r).opcode = "OPIMM" /\ AddiWord(v, r).rd = r
         /\ AddiWord(v, r).rs1 = r /\ ImmI(AddiWord(v, r)) = Half(v)
         /\ Page(v) \in Int /\ Half(v) \in Int /\ Page(v) + Half(v) + Half(v) = v
<1> DEFINE u == (v \div 4096) % Two20
           h == (v % 4096) \div 2
<1>1. insertLi(v, r) = <<LuiWord(v, r), AddiWord(v, r), AddiWord(v, r)>>
  BY DEF insertLi, LuiWord, AddiWord
<1>2. /\ LuiWord(v, r).opcode = "LUI" /\ LuiWord(v, r).rd = r
      /\ AddiWord(v, r).opcode = "OPIMM" /\ AddiWord(v, r).rd = r /\ AddiWord(v, r).rs1 = r
  BY DEF LuiWord, AddiWord, encode_Utype, encode_Itype
<1>3. ImmU(LuiWord(v, r)) = 4096 * (IF u < Two19 THEN u ELSE u - Two20)
  <2>1. u \in Nat /\ u < Two20
    BY SMT DEF Two20
  <2>2. ImmU(LuiWord(v, r)) = 4096 * ((u % 8) + 8 * ((u \div 8) % 32) + 256 * ((u \div 256) % 32)
           + 8192 * (((u \div 8192) % 128) % 64) - Two19 * (((u \div 8192) % 128) \div 64))
    <3> HIDE DEF u
    <3> QED BY DEF ImmU, LuiWord, encode_Utype, u
  <2> HIDE DEF u
  <2> QED BY <2>1, <2>2, UpperCut
<1>4. 4096 * (IF u < Two19 THEN u ELSE u - Two20) = Page(v)
  <2> DEFINE p == v \div 4096
  <2>1. p \in Int /\ -524288 <= p /\ p < 524288
    BY SMT
  <2> HIDE DEF p
  <2>2. p % Two20 = IF p < 0 THEN p + Two20 ELSE p
    BY <2>1, SMT DEF Two20
  <2>3. (IF p % Two20 < Two19 THEN p % Two20 ELSE (p % Two20) - Two20) = p
    BY <2>1, <2>2, SMT DEF Two19, Two20
  <2> QED BY <2>3 DEF p, Page
<1>5. ImmI(AddiWord(v, r)) = Half(v)
  <2>1. h \in 0..2047
    BY SMT
  <2>2. ImmI(AddiWord(v, r)) = (h % 32) + 32 * (((h % 4096) \div 32) % 64)
                                 - 2048 * (((h % 4096) \div 32) \div 64)
    <3> HIDE DEF h
    <3> QED BY DEF ImmI, AddiWord, encode_Itype, h
  <2>3. h = Half(v)
    BY DEF Half
  <2> HIDE DEF h
  <2>4. h % 4096 = h
    BY <2>1, SMT
  <2>5. (h \div 32) % 64 = h \div 32 /\ (h \div 32) \div 64 = 0
    <3>1. h \div 32 \in 0..63
      BY <2>1, SMT
    <3> QED BY <3>1, SMT
  <2>6. h - 32 * (h \div 32) = h % 32
    BY <2>1, SMT
  <2>7. ImmI(AddiWord(v, r)) = (h % 32) + 32 * (h \div 32) - 2048 * 0
    BY <2>2, <2>4, <2>5
  <2>8. (h % 32) + 32 * (h \div 32) - 2048 * 0 = h
    <3>1. h % 32 \in Int /\ h \div 32 \in Int
      BY <2>1, SMT
    <3> DEFINE q == h \div 32
               m == h % 32
    <3>2. m \in Int /\ q \in Int /\ h - 32 * q = m
      BY <2>6, <3>1
    <3> HIDE DEF q, m
    <3>3. m + 32 * q - 2048 * 0 = h
      BY <2>1, <3>2, SMT
    <3> QED BY <3>3 DEF q, m
  <2> QED BY <2>3, <2>7, <2>8
<1>6. Page(v) \in Int /\ Half(v) \in Int /\ Page(v) + Half(v) + Half(v) = v
  <2>1. v % 4096 = 2 * ((v % 4096) \div 2)
    BY SMT
  <2>2. v - 4096 * (v \div 4096) = v % 4096
    BY SMT
  <2> QED BY <2>1, <2>2, SMT DEF Page, Half
<1> QED BY <1>1, <1>2, <1>3, <1>4, <1>5, <1>6

(* The two jumps inside a sequence.                                         *)
LEMMA JumpReads ==
  /\ \A n \in {12, 16} : Jal(n).opcode = "JAL" /\ ImmJ(Jal(n)) = n
  /\ \A a, b : LET w == BltOver(a, b)
               IN  /\ w.opcode = "BRANCH" /\ w.funct3 = 4 /\ w.rs1 = a /\ w.rs2 = b
                   /\ ImmB(w) = 12
<1>1. ASSUME NEW n \in {12, 16} PROVE Jal(n).opcode = "JAL" /\ ImmJ(Jal(n)) = n
  BY DEF Jal, encode_Jtype, encode_Utype, ImmJ, Two19, Two20
<1>2. ASSUME NEW a, NEW b
      PROVE  LET w == BltOver(a, b)
             IN  /\ w.opcode = "BRANCH" /\ w.funct3 = 4 /\ w.rs1 = a /\ w.rs2 = b
                 /\ ImmB(w) = 12
  BY DEF BltOver, encode_Btype, ImmB
<1> QED BY <1>1, <1>2

(* Adding and subtracting, and doing nothing.                               *)
LEMMA ArithReads ==
  ASSUME NEW d, NEW a, NEW b
  PROVE  /\ Add(d, a, b).opcode = "OP" /\ Add(d, a, b).rd = d /\ Add(d, a, b).rs1 = a
         /\ Add(d, a, b).rs2 = b /\ \A x, y : ALU(Add(d, a, b), x, y) = x + y
         /\ Sub(d, a, b).opcode = "OP" /\ Sub(d, a, b).rd = d /\ Sub(d, a, b).rs1 = a
         /\ Sub(d, a, b).rs2 = b /\ \A x, y : ALU(Sub(d, a, b), x, y) = x - y
         /\ Nop.opcode = "OPIMM" /\ Nop.rd = ZERO /\ Nop.rs1 = ZERO /\ ImmI(Nop) = 0
BY DEF Add, Sub, Arith, encode_Rtype, ALU, Nop, ImmI, ZERO

-----------------------------------------------------------------------------
(* What the processor does with a word.                                    *)

(* It goes on, n words further, with the memory m and the registers r.     *)
GoesOn(n, r, m) ==
  ip' = ip + n /\ regs' = r /\ memory' = m /\ left' = left /\ laidOut' = laidOut

(* The effect of the word w.                                               *)
Ran(w) ==
  LET a == Value(regs, w.rs1)
      b == Value(regs, w.rs2)
  IN  /\ w.opcode = "OPIMM" => GoesOn(1, Written(regs, w.rd, a + ImmI(w)), memory)
      /\ w.opcode = "LUI"   => GoesOn(1, Written(regs, w.rd, ImmU(w)), memory)
      /\ w.opcode = "OP"    => GoesOn(1, Written(regs, w.rd, ALU(w, a, b)), memory)
      /\ w.opcode \in AccessOp =>
           GoesOn(1, AccessRegs(w, a, regs, memory), AccessMemory(w, a, regs, memory))
      /\ w.opcode = "BRANCH" =>
           GoesOn((IF Taken(w, a, b) THEN ImmB(w) ELSE 4) \div 4, regs, memory)
      /\ w.opcode = "JAL"    => GoesOn(ImmJ(w) \div 4, regs, memory)
      /\ w.opcode = "JALR"   =>
           /\ left' = a + ImmI(w)
           /\ ip' = ip /\ regs' = regs /\ memory' = memory /\ laidOut' = laidOut

(* Once words are laid out, a step runs the word the processor is at.      *)
LEMMA StepRuns ==
  ASSUME [Next]_vars, words # << >>
  PROVE  \/ UNCHANGED vars
         \/ Running /\ Ran(word) /\ UNCHANGED laidOut
<1> PICK w : w = word
  OBVIOUS
<1>1. CASE Allocate
  BY <1>1 DEF Allocate
<1>2. CASE RunOpImm \/ RunLui \/ RunOp
  <2>1. CASE RunOpImm
    BY <2>1, SMT DEF RunOpImm, At, Computes, Operand1, Operand2, Ran, GoesOn, laidOut,
                       word, AccessOp
  <2>2. CASE RunLui
    BY <2>2, SMT DEF RunLui, At, Computes, Operand1, Operand2, Ran, GoesOn, laidOut,
                       word, AccessOp
  <2>3. CASE RunOp
    BY <2>3, SMT DEF RunOp, At, Computes, Operand1, Operand2, Ran, GoesOn, laidOut,
                       word, AccessOp
  <2> QED BY <1>2, <2>1, <2>2, <2>3
<1>3. CASE RunAccess
  BY <1>3, SMT DEF RunAccess, At, Operand1, Ran, GoesOn, laidOut,
                       word, AccessOp
<1>4. CASE RunBranch
  BY <1>4, SMT DEF RunBranch, At, Goes, Operand1, Operand2, Ran, GoesOn, laidOut,
                       word, AccessOp
<1>5. CASE RunJal
  BY <1>5, SMT DEF RunJal, At, Goes, Ran, GoesOn, laidOut,
                       word, AccessOp
<1>6. CASE RunJalr
  BY <1>6, SMT DEF RunJalr, At, Operand1, Ran, laidOut, word, AccessOp
<1>7. CASE Finish \/ UNCHANGED vars
  BY <1>7 DEF Finish
<1> QED BY <1>1, <1>2, <1>3, <1>4, <1>5, <1>6, <1>7 DEF Next, Step

(* What the library's own words do.                                        *)
LEMMA LibraryRuns ==
  ASSUME regs \in [Reg -> Int]
  PROVE  /\ \A n \in {-16, 16} :
              Ran(MoveSP(n)) => GoesOn(1, [regs EXCEPT ![SP] = @ + n], memory)
         /\ \A r \in Reg :
              /\ Ran(SaveWord(r)) => GoesOn(1, regs, Put(memory, regs[SP], regs[r]))
              /\ Ran(LoadWord(r)) =>
                   GoesOn(1, [regs EXCEPT ![r] = Cell(memory, regs[SP])], memory)
         /\ \A n \in {12, 16} : Ran(Jal(n)) => GoesOn(n \div 4, regs, memory)
         /\ \A a, b : Ran(BltOver(a, b)) =>
              GoesOn(IF Value(regs, a) < Value(regs, b) THEN 3 ELSE 1, regs, memory)
         /\ \A d, a, b :
              /\ Ran(Add(d, a, b)) =>
                   GoesOn(1, Written(regs, d, Value(regs, a) + Value(regs, b)), memory)
              /\ Ran(Sub(d, a, b)) =>
                   GoesOn(1, Written(regs, d, Value(regs, a) - Value(regs, b)), memory)
         /\ Ran(Nop) => GoesOn(1, regs, memory)
<1>0. SP \in Reg /\ SP # ZERO /\ \A r \in Reg : r # ZERO /\ regs[r] \in Int
  BY SMT DEF Reg, SP, ZERO, A0, A1, T5, T6
<1>1. ASSUME NEW n \in {-16, 16}, Ran(MoveSP(n))
      PROVE  GoesOn(1, [regs EXCEPT ![SP] = @ + n], memory)
  <2> DEFINE w == MoveSP(n)
  <2>1. w.opcode = "OPIMM" /\ w.rd = SP /\ w.rs1 = SP /\ ImmI(w) = n
    BY MoveSPReads
  <2> HIDE DEF w
  <2>2. GoesOn(1, Written(regs, w.rd, Value(regs, w.rs1) + ImmI(w)), memory)
    <3>1. Ran(w)
      BY <1>1 DEF w
    <3> QED BY <2>1, <3>1 DEF Ran
  <2> QED BY <1>0, <2>1, <2>2, SMT DEF Written, Value
<1>2. ASSUME NEW r \in Reg, Ran(SaveWord(r))
      PROVE  GoesOn(1, regs, Put(memory, regs[SP], regs[r]))
  <2> DEFINE w == SaveWord(r)
  <2>1. w.opcode = "STORE" /\ w.funct3 = 3 /\ w.rs1 = SP /\ w.rs2 = r /\ ImmS(w) = 0
    BY ParkingReads
  <2> HIDE DEF w
  <2>2. Ran(w)
    BY <1>2 DEF w
  <2>3. GoesOn(1, AccessRegs(w, regs[SP], regs, memory), AccessMemory(w, regs[SP], regs, memory))
    BY <1>0, <2>1, <2>2 DEF Ran, AccessOp, Value
  <2>4. AccessRegs(w, regs[SP], regs, memory) = regs
    BY <2>1, SMT DEF AccessRegs, SC
  <2>5. AccessMemory(w, regs[SP], regs, memory) = Put(memory, regs[SP] + 0, regs[r])
    BY <1>0, <2>1, SMT DEF AccessMemory, Narrow, Value
  <2>6. regs[SP] + 0 = regs[SP]
    BY <1>0, SMT
  <2> QED BY <2>3, <2>4, <2>5, <2>6
<1>3. ASSUME NEW r \in Reg, Ran(LoadWord(r))
      PROVE  GoesOn(1, [regs EXCEPT ![r] = Cell(memory, regs[SP])], memory)
  <2> DEFINE w == LoadWord(r)
  <2>1. w.opcode = "LOAD" /\ w.funct3 = 3 /\ w.rs1 = SP /\ w.rd = r /\ ImmI(w) = 0
    BY ParkingReads
  <2> HIDE DEF w
  <2>2. Ran(w)
    BY <1>3 DEF w
  <2>3. GoesOn(1, AccessRegs(w, regs[SP], regs, memory), AccessMemory(w, regs[SP], regs, memory))
    BY <1>0, <2>1, <2>2 DEF Ran, AccessOp, Value
  <2>4. AccessMemory(w, regs[SP], regs, memory) = memory
    BY <2>1, SMT DEF AccessMemory, SC
  <2>5. regs[SP] + 0 = regs[SP]
    BY <1>0, SMT
  <2>6. AccessRegs(w, regs[SP], regs, memory) = [regs EXCEPT ![r] = Cell(memory, regs[SP])]
    <3>1. AccessRegs(w, regs[SP], regs, memory) = Written(regs, r, Cell(memory, regs[SP] + 0))
      BY <2>1, SMT DEF AccessRegs, Narrow, SC
    <3> QED BY <1>0, <2>5, <3>1 DEF Written
  <2> QED BY <2>3, <2>4, <2>6
<1>4. ASSUME NEW n \in {12, 16}, Ran(Jal(n)) PROVE GoesOn(n \div 4, regs, memory)
  BY <1>4, JumpReads DEF Ran
<1>5. ASSUME NEW a, NEW b, Ran(BltOver(a, b))
      PROVE  GoesOn(IF Value(regs, a) < Value(regs, b) THEN 3 ELSE 1, regs, memory)
  <2> DEFINE w == BltOver(a, b)
  <2>1. w.opcode = "BRANCH" /\ w.funct3 = 4 /\ w.rs1 = a /\ w.rs2 = b /\ ImmB(w) = 12
    BY JumpReads
  <2> HIDE DEF w
  <2>2. Ran(w)
    BY <1>5 DEF w
  <2>3. Taken(w, Value(regs, a), Value(regs, b)) <=> Value(regs, a) < Value(regs, b)
    BY <2>1, SMT DEF Taken
  <2>4. GoesOn((IF Value(regs, a) < Value(regs, b) THEN 12 ELSE 4) \div 4, regs, memory)
    BY <2>1, <2>2, <2>3 DEF Ran
  <2> QED BY <2>4, SMT DEF GoesOn
<1>6. ASSUME NEW d, NEW a, NEW b
      PROVE  /\ Ran(Add(d, a, b)) =>
                   GoesOn(1, Written(regs, d, Value(regs, a) + Value(regs, b)), memory)
             /\ Ran(Sub(d, a, b)) =>
                   GoesOn(1, Written(regs, d, Value(regs, a) - Value(regs, b)), memory)
  <2>1. ASSUME NEW w, w.opcode = "OP", w.rd = d, w.rs1 = a, w.rs2 = b, Ran(w)
        PROVE  GoesOn(1, Written(regs, d, ALU(w, Value(regs, a), Value(regs, b))), memory)
    BY <2>1 DEF Ran
  <2>2. ASSUME Ran(Add(d, a, b))
        PROVE  GoesOn(1, Written(regs, d, Value(regs, a) + Value(regs, b)), memory)
    <3> DEFINE w == Add(d, a, b)
    <3>1. /\ w.opcode = "OP" /\ w.rd = d /\ w.rs1 = a /\ w.rs2 = b
          /\ ALU(w, Value(regs, a), Value(regs, b)) = Value(regs, a) + Value(regs, b)
      BY ArithReads
    <3> QED BY <2>1, <2>2, <3>1
  <2>3. ASSUME Ran(Sub(d, a, b))
        PROVE  GoesOn(1, Written(regs, d, Value(regs, a) - Value(regs, b)), memory)
    <3> DEFINE w == Sub(d, a, b)
    <3>1. /\ w.opcode = "OP" /\ w.rd = d /\ w.rs1 = a /\ w.rs2 = b
          /\ ALU(w, Value(regs, a), Value(regs, b)) = Value(regs, a) - Value(regs, b)
      BY ArithReads
    <3> QED BY <2>1, <2>3, <3>1
  <2> QED BY <2>2, <2>3
<1>7. Ran(Nop) => GoesOn(1, regs, memory)
  BY ArithReads DEF Ran, Written
<1> QED BY <1>1, <1>2, <1>3, <1>4, <1>5, <1>6, <1>7

(* The words around an access, with two adjusted ones ...                   *)
LEMMA AroundTwo ==
  ASSUME NEW w, NEW s, NEW access, NEW skip, NEW b1, NEW b2, NEW W,
         W = Around(w, s, access, skip, <<b1, b2>>)
  PROVE  /\ Len(W) = 12
         /\ W[1] = MoveSP(-16) /\ W[2] = SaveWord(s)
         /\ W[3] = LuiWord(dataOffset, s) /\ W[4] = AddiWord(dataOffset, s)
         /\ W[5] = AddiWord(dataOffset, s) /\ W[6] = BltOver(w.rs1, s)
         /\ W[7] = access /\ W[8] = Jal(skip)
         /\ W[9] = b1 /\ W[10] = b2
         /\ W[11] = LoadWord(s) /\ W[12] = MoveSP(16)
<1> PICK m1, m2, sv, ld :
      m1 = MoveSP(-16) /\ m2 = MoveSP(16) /\ sv = SaveWord(s) /\ ld = LoadWord(s)
  OBVIOUS
<1> PICK lui, addi : lui = LuiWord(dataOffset, s) /\ addi = AddiWord(dataOffset, s)
  OBVIOUS
<1> PICK blt, jal : blt = BltOver(w.rs1, s) /\ jal = Jal(skip)
  OBVIOUS
<1>1. inline_save(s) = <<m1, sv>> /\ inline_load(s) = <<ld, m2>>
  BY ParkingReads
<1>2. insertLi(dataOffset, s) = <<lui, addi, addi>>
  BY DEF insertLi, LuiWord, AddiWord
<1>3. W = <<m1, sv>> \o <<lui, addi, addi>> \o <<blt, access, jal>> \o <<b1, b2>> \o <<ld, m2>>
  BY <1>1, <1>2 DEF Around
<1>4. /\ Len(W) = 12
      /\ W[1] = m1 /\ W[2] = sv /\ W[3] = lui /\ W[4] = addi /\ W[5] = addi /\ W[6] = blt
      /\ W[7] = access /\ W[8] = jal /\ W[9] = b1 /\ W[10] = b2 /\ W[11] = ld /\ W[12] = m2
  BY <1>3, SMT
<1> QED BY <1>4, Zenon

(* ... and with three.                                                      *)
LEMMA AroundThree ==
  ASSUME NEW w, NEW s, NEW access, NEW skip, NEW b1, NEW b2, NEW b3, NEW W,
         W = Around(w, s, access, skip, <<b1, b2, b3>>)
  PROVE  /\ Len(W) = 13
         /\ W[1] = MoveSP(-16) /\ W[2] = SaveWord(s)
         /\ W[3] = LuiWord(dataOffset, s) /\ W[4] = AddiWord(dataOffset, s)
         /\ W[5] = AddiWord(dataOffset, s) /\ W[6] = BltOver(w.rs1, s)
         /\ W[7] = access /\ W[8] = Jal(skip)
         /\ W[9] = b1 /\ W[10] = b2
         /\ W[11] = b3 /\ W[12] = LoadWord(s)
         /\ W[13] = MoveSP(16)
<1> PICK m1, m2, sv, ld :
      m1 = MoveSP(-16) /\ m2 = MoveSP(16) /\ sv = SaveWord(s) /\ ld = LoadWord(s)
  OBVIOUS
<1> PICK lui, addi : lui = LuiWord(dataOffset, s) /\ addi = AddiWord(dataOffset, s)
  OBVIOUS
<1> PICK blt, jal : blt = BltOver(w.rs1, s) /\ jal = Jal(skip)
  OBVIOUS
<1>1. inline_save(s) = <<m1, sv>> /\ inline_load(s) = <<ld, m2>>
  BY ParkingReads
<1>2. insertLi(dataOffset, s) = <<lui, addi, addi>>
  BY DEF insertLi, LuiWord, AddiWord
<1>3. W = <<m1, sv>> \o <<lui, addi, addi>> \o <<blt, access, jal>> \o <<b1, b2, b3>>
          \o <<ld, m2>>
  BY <1>1, <1>2 DEF Around
<1>4. /\ Len(W) = 13
      /\ W[1] = m1 /\ W[2] = sv /\ W[3] = lui /\ W[4] = addi /\ W[5] = addi /\ W[6] = blt
      /\ W[7] = access /\ W[8] = jal /\ W[9] = b1 /\ W[10] = b2 /\ W[11] = b3 /\ W[12] = ld
      /\ W[13] = m2
  BY <1>3, SMT
<1> QED BY <1>4, Zenon

(* The words laid out for an access that is adjusted.                      *)
LEMMA AdjustedWords ==
  ASSUME NEW w \in RvWord, w.opcode \in AccessOp, w.rs1 # SP, ~LR(w), ~SC(w),
         single => w.opcode # "AMO"
  PROVE  LET s == Scratch(w)
             b == w.rs1
             W == LaidOut(w)
         IN  IF MovedInPlace([inst |-> w, single |-> single])
             THEN \E undo : /\ W = Around(w, s, w, 16, <<Add(b, b, s), w, undo>>)
                            /\ undo = IF b \in Other(w) /\ w.opcode # "AMO"
                                      THEN Nop ELSE Sub(b, b, s)
             ELSE W = Around(w, s, w, 12, <<Add(s, b, s), [w EXCEPT !.rs1 = s]>>)
<1> DEFINE i == decode_instruction(w)
           s == Scratch(w)
           b == w.rs1
<1>0. RTypeOp \cap {"LOAD", "STORE"} = {} /\ "AMO" \in RTypeOp /\ "LOAD" \in ITypeOp
  BY DEF RTypeOp, ITypeOp
<1>1. i.rs1 = w.rs1 /\ Scratch(i) = s
  <2>1. i.rs1 = w.rs1
    BY <1>0, DecodeCases DEF AccessOp, decode_Rtype, decode_Itype, decode_Stype
  <2> QED BY <2>1 DEF Scratch
<1>2. w.opcode = "LOAD" => i.rd = w.rd
  BY <1>0, DecodeCases DEF decode_Itype
<1>3. w.opcode = "STORE" => i.rs2 = w.rs2
  BY <1>0, DecodeCases DEF decode_Stype
<1>4. w.opcode = "AMO" =>
        i = w /\ encode_instruction(i) = w /\ Unreserved(w) = w /\ Success(w) = << >>
  <2> SUFFICES ASSUME w.opcode = "AMO"
               PROVE  /\ i = w /\ encode_instruction(i) = w
                      /\ Unreserved(w) = w /\ Success(w) = << >>
    OBVIOUS
  <2>1. i = w
    <3>1. decode_Rtype(w) = w
      BY WordExtensional, SMT DEF decode_Rtype
    <3> QED BY <1>0, <3>1, DecodeCases
  <2>2. encode_instruction(w) = w
    <3>1. encode_Rtype(w) = w
      BY WordExtensional, SMT DEF encode_Rtype
    <3> QED BY <1>0, <3>1, EncodeCases
  <2>3. Unreserved(w) = w
    BY SMT DEF Unreserved
  <2>4. Success(w) = << >>
    BY DEF Success
  <2> HIDE DEF i
  <2> QED BY <2>1, <2>2, <2>3, <2>4
<1>5. CASE w.opcode = "AMO"
  <2>1. MovedInPlace([inst |-> w, single |-> single])
    BY <1>5 DEF MovedInPlace
  <2>2. LaidOut(w) = AdjustedAtomic(w)
    BY <1>5, SMT DEF LaidOut
  <2>3. AdjustedAtomic(w) = Around(w, s, w, 16, <<Add(b, b, s), w, Sub(b, b, s)>>) \o << >>
    BY <1>1, <1>4, <1>5 DEF AdjustedAtomic
  <2> QED BY <1>5, <2>1, <2>2, <2>3
<1>6. CASE w.opcode \in {"LOAD", "STORE"} /\ single
  <2>1. MovedInPlace([inst |-> w, single |-> single])
    BY <1>6 DEF MovedInPlace
  <2>2. LaidOut(w) = AdjustedInPlace(w)
    BY <1>6, SMT DEF LaidOut
  <2>3. (IF w.opcode = "LOAD" THEN i.rd ELSE i.rs2) = b <=> b \in Other(w)
    BY <1>2, <1>3, <1>6 DEF Other
  <2> DEFINE o == IF w.opcode = "LOAD" THEN i.rd ELSE i.rs2
  <2>4. AdjustedInPlace(w)
          = Around(w, s, w, 16, <<Add(b, b, s), w, IF b # o THEN Sub(b, b, s) ELSE Nop>>)
    BY <1>1 DEF AdjustedInPlace
  <2> QED BY <1>6, <2>1, <2>2, <2>3, <2>4
<1>7. CASE w.opcode \in {"LOAD", "STORE"} /\ ~single
  <2>1. ~MovedInPlace([inst |-> w, single |-> single])
    BY <1>7 DEF MovedInPlace
  <2>2. LaidOut(w) = AdjustedAccess(w)
    BY <1>7, SMT DEF LaidOut
  <2>3. AdjustedAccess(w)
          = Around(w, s, w, 12, <<Add(s, b, s), encode_instruction([i EXCEPT !.rs1 = s])>>)
    BY <1>1 DEF AdjustedAccess
  <2>4. encode_instruction([i EXCEPT !.rs1 = s]) = [w EXCEPT !.rs1 = s]
    <3> DEFINE v == [w EXCEPT !.rs1 = s]
    <3>1. v \in RvWord /\ v.opcode = w.opcode
      <4>1. s \in 0..31
        BY ScratchRange
      <4> QED BY <4>1, SMT DEF RvWord
    <3>2. decode_instruction(v) = [i EXCEPT !.rs1 = s]
      <4>1. decode_Itype(v) = [decode_Itype(w) EXCEPT !.rs1 = s]
        BY SMT DEF decode_Itype, RvWord
      <4>2. decode_Stype(v) = [decode_Stype(w) EXCEPT !.rs1 = s]
        BY SMT DEF decode_Stype, RvWord
      <4> HIDE DEF v
      <4> QED BY <1>0, <1>7, <3>1, <4>1, <4>2, DecodeCases
    <3>3. v.opcode \notin NotEncoded
      BY <1>7, <3>1 DEF NotEncoded
    <3> HIDE DEF v
    <3>4. encode_instruction(decode_instruction(v)) = v
      BY <3>1, <3>3, Reencoded DEF ReencodesExactly
    <3> QED BY <3>2, <3>4 DEF v
  <2> QED BY <1>7, <2>1, <2>2, <2>3, <2>4
<1> HIDE DEF i
<1> QED BY <1>5, <1>6, <1>7 DEF AccessOp

(* What does not change while a sequence runs.                             *)
LEMMA Rigid ==
  ASSUME UNCHANGED laidOut
  PROVE  /\ inst' = inst /\ single' = single /\ guest' = guest /\ words' = words
         /\ Undisturbed' <=> Undisturbed
         /\ InPlace' <=> InPlace
         /\ BranchGoes' <=> BranchGoes
         /\ Borrowed' = Borrowed /\ Parking' = Parking /\ Base' = Base
         /\ GuestRegs' = GuestRegs /\ GuestMemory' = GuestMemory
         /\ LaidOut(inst)' = LaidOut(inst)
<1>1. inst' = inst /\ single' = single /\ guest' = guest /\ words' = words
  BY DEF laidOut
<1>2. Borrowed' = Borrowed /\ Parking' = Parking /\ Base' = Base
  BY <1>1 DEF Borrowed, Parking, Base
<1>3. GuestRegs' = GuestRegs /\ GuestMemory' = GuestMemory
  BY <1>1, <1>2 DEF GuestRegs, GuestMemory
<1>4. InPlace' <=> InPlace
  BY <1>1 DEF InPlace
<1>5. BranchGoes' <=> BranchGoes
  BY <1>1 DEF BranchGoes
<1>6. Undisturbed' <=> Undisturbed
  BY <1>1, <1>2 DEF Undisturbed
<1>7. LaidOut(inst)' = LaidOut(inst)
  BY <1>1 DEF LaidOut
<1> QED BY <1>1, <1>2, <1>3, <1>4, <1>5, <1>6, <1>7

(* What an access of the guest's that is adjusted is known not to do.      *)
Adjusted ==
  /\ inst \in RvWord /\ guest \in [Reg -> Int]
  /\ Undisturbed /\ inst.opcode \in AccessOp /\ inst.rs1 # SP

(* The registers of the model, and reading one.                             *)
LEMMA RegisterFacts ==
  /\ Reg = {SP, A0, A1, T5, T6} /\ SP # ZERO /\ ZERO \notin Reg /\ T5 # T6
  /\ {SP, T5, T6} \subseteq Reg /\ SP # T5 /\ SP # T6
  /\ \A r \in [Reg -> Int] : \A n \in Reg \cup {ZERO} : Value(r, n) \in Int
  /\ \A r, n : n \in Reg => Value(r, n) = r[n]
BY SMT DEF Reg, SP, ZERO, A0, A1, T5, T6, Value

(* Its operands: none is borrowed, its base register can be moved if it is. *)
LEMMA AdjustedFacts ==
  ASSUME Adjusted
  PROVE  /\ Borrowed = Scratch(inst) /\ Borrowed \in Reg /\ Borrowed # SP
         /\ inst.rs1 \in Reg \cup {ZERO} /\ inst.rs1 # Borrowed
         /\ Other(inst) \subseteq Reg \cup {ZERO}
         /\ SP \notin Other(inst) /\ Borrowed \notin Other(inst)
         /\ Value(guest, inst.rs1) \in Int
         /\ Base = IF Value(guest, inst.rs1) < dataOffset
                   THEN Value(guest, inst.rs1) + dataOffset ELSE Value(guest, inst.rs1)
         /\ Base \in Int
         /\ InPlace => /\ inst.rs1 \in Reg
                       /\ inst.opcode # "LOAD" => inst.rs1 \notin Other(inst)
         /\ single => inst.opcode # "AMO"
         /\ ~LR(inst) /\ ~SC(inst) /\ Base + Offset(inst) # Parking
<1> USE DEF Adjusted
<1>1. ~Disturbed([inst |-> inst, single |-> single])
  BY DEF Undisturbed
<1>2. inst.rs1 \in Operands(inst) /\ Other(inst) \subseteq Operands(inst)
  BY DEF Operands, Other, AccessOp
<1>3. Operands(inst) \subseteq Reg \cup {ZERO}
  BY DEF Undisturbed
<1>4. {SP, Scratch(inst)} \cap Other(inst) = {}
  BY <1>1 DEF Disturbed
<1>5. Borrowed = Scratch(inst)
  BY DEF Borrowed, AccessOp
<1>6. Scratch(inst) \in {T5, T6} /\ Scratch(inst) # inst.rs1
  BY RegisterFacts DEF Scratch
<1>7. Value(guest, inst.rs1) \in Int
  BY <1>2, <1>3, RegisterFacts
<1>8. Base = IF Value(guest, inst.rs1) < dataOffset
             THEN Value(guest, inst.rs1) + dataOffset ELSE Value(guest, inst.rs1)
  BY DEF Base, Translated
<1>9. Base \in Int
  BY <1>7, <1>8, AddressAssumption, SMT
<1>10. InPlace => /\ inst.rs1 # ZERO
                  /\ inst.opcode # "LOAD" => inst.rs1 \notin Other(inst)
  BY <1>1 DEF Disturbed, InPlace
<1>11. single => inst.opcode # "AMO"
  BY <1>1 DEF Disturbed
<1>12. ~LR(inst) /\ ~SC(inst) /\ Base + Offset(inst) # Parking
  BY DEF Undisturbed
<1> QED
  BY <1>2, <1>3, <1>4, <1>5, <1>6, <1>7, <1>8, <1>9, <1>10, <1>11, <1>12, RegisterFacts

(* The same word stored into memories that agree.                          *)
LEMMA PutBoth ==
  ASSUME NEW m, NEW n, NEW a, NEW y, a # Parking,
         \A z : z # Parking => Cell(m, z) = Cell(n, z)
  PROVE  /\ SameCells(Put(m, a, y), Put(n, a, y))
         /\ Cell(Put(m, a, y), Parking) = Cell(m, Parking)
<1>1. /\ Cell(Put(m, a, y), a) = y /\ Cell(Put(n, a, y), a) = y
      /\ \A z : z # a => Cell(Put(m, a, y), z) = Cell(m, z)
      /\ \A z : z # a => Cell(Put(n, a, y), z) = Cell(n, z)
  <2>1. /\ Cell(Put(m, a, y), a) = y
        /\ \A z : z # a => Cell(Put(m, a, y), z) = Cell(m, z)
    BY SMT DEF Cell, Put
  <2>2. /\ Cell(Put(n, a, y), a) = y
        /\ \A z : z # a => Cell(Put(n, a, y), z) = Cell(n, z)
    BY SMT DEF Cell, Put
  <2> QED BY <2>1, <2>2
<1>2. ASSUME NEW z, z # Parking PROVE Cell(Put(m, a, y), z) = Cell(Put(n, a, y), z)
  <2>1. CASE z = a
    BY <1>1, <2>1
  <2>2. CASE z # a
    BY <1>1, <1>2, <2>2, Zenon
  <2> QED BY <2>1, <2>2
<1>3. SameCells(Put(m, a, y), Put(n, a, y))
  BY <1>2, Zenon DEF SameCells
<1> QED BY <1>1, <1>3, Zenon

(* The access itself, from a base register that holds its address: what it *)
(* loads and stores is what the guest's own instruction does.              *)
LEMMA Accessed ==
  ASSUME Adjusted, regs \in [Reg -> Int], memory \in [DOMAIN memory -> Int],
         SameCells(memory, NoMemory), NEW v,
         v.opcode = inst.opcode, v.rd = inst.rd, v.funct3 = inst.funct3,
         v.rs2 = inst.rs2, v.funct7 = inst.funct7,
         inst.opcode # "LOAD" => Value(regs, inst.rs2) = Value(guest, inst.rs2)
  PROVE  LET r == AccessRegs(v, Base, regs, memory)
             m == AccessMemory(v, Base, regs, memory)
         IN  /\ r \in [Reg -> Int] /\ m \in [DOMAIN m -> Int]
             /\ SameCells(m, GuestMemory) /\ Cell(m, Parking) = Cell(memory, Parking)
             /\ GuestRegs \in [Reg -> Int]
             /\ \A n \in Reg : n \notin Other(inst) => r[n] = regs[n] /\ GuestRegs[n] = guest[n]
             /\ \A n \in Reg : r[n] = GuestRegs[n] \/ (r[n] = regs[n] /\ GuestRegs[n] = guest[n])
             /\ \A n \in Reg : inst.opcode = "LOAD" /\ n \in Other(inst) => r[n] = GuestRegs[n]
<1> DEFINE r == AccessRegs(v, Base, regs, memory)
           m == AccessMemory(v, Base, regs, memory)
           a == Base + Offset(inst)
           c == Narrow(inst.funct3, Cell(memory, a))
           x == Value(guest, inst.rs2)
<1>0. inst \in RvWord /\ inst.opcode \in AccessOp /\ guest \in [Reg -> Int]
  BY DEF Adjusted
<1>1. /\ inst.funct3 \in Int /\ inst.funct7 \in Int /\ Offset(inst) \in Int
  <2>1. inst.rd \in Int /\ inst.rs2 \in Int /\ inst.funct7 \in Int /\ inst.funct3 \in Int
    BY <1>0, WordGroups, SMT
  <2> QED BY <2>1, SMT DEF Offset, ImmI, ImmS
<1>2. Base \in Int /\ a \in Int /\ a # Parking /\ Base + 0 = Base
  BY <1>1, AdjustedFacts, SMT
<1>3. \A y : y # Parking => Cell(memory, y) = Cell(NoMemory, y)
  <2> SUFFICES ASSUME NEW y, y # Parking PROVE Cell(memory, y) = Cell(NoMemory, y)
    OBVIOUS
  <2>1. CASE y \in DOMAIN memory
    BY <2>1 DEF SameCells
  <2>2. CASE y \notin DOMAIN memory
    BY <2>2 DEF Cell, NoMemory
  <2> QED BY <2>1, <2>2
<1>4. Cell(memory, a) = Cell(NoMemory, a) /\ Cell(memory, a) \in Int
  BY <1>2, <1>3, SMT DEF Cell, NoMemory
<1>5. c \in Int /\ c = Narrow(inst.funct3, Cell(NoMemory, a))
  <2>1. c \in Int
    BY <1>1, <1>4, SMT DEF Narrow
  <2> QED BY <1>4, <2>1
<1>6. ImmI(v) = ImmI(inst) /\ ImmS(v) = ImmS(inst) /\ ~LR(inst) /\ ~SC(inst) /\ ~LR(v) /\ ~SC(v)
  BY AdjustedFacts DEF ImmI, ImmS, LR, SC
<1>7. inst.opcode # "AUIPC" /\ inst.opcode \in {"LOAD", "STORE", "AMO"}
  BY <1>0 DEF AccessOp
<1>8. inst.opcode # "LOAD" => x \in Int /\ inst.rs2 \in Reg \cup {ZERO}
  BY <1>0, <1>7, AdjustedFacts, RegisterFacts DEF Other
<1> HIDE DEF c, x
<1>9. CASE inst.opcode = "LOAD"
  <2>1. a = Base + ImmI(inst)
    BY <1>9 DEF Offset
  <2>2. r = Written(regs, inst.rd, c) /\ m = memory
    BY <1>6, <1>9, <2>1, SMT DEF AccessRegs, AccessMemory, c
  <2>3. GuestRegs = Written(guest, inst.rd, c) /\ GuestMemory = NoMemory
    BY <1>5, <1>6, <1>9, <2>1, SMT DEF AccessRegs, AccessMemory, GuestRegs, GuestMemory
  <2>4. Other(inst) = {inst.rd}
    BY <1>9 DEF Other
  <2> HIDE DEF r, m
  <2>5. inst.rd \in Reg \cup {ZERO}
    BY <2>4, AdjustedFacts
  <2>6. /\ r \in [Reg -> Int] /\ GuestRegs \in [Reg -> Int]
        /\ \A n \in Reg : n \notin Other(inst) => r[n] = regs[n] /\ GuestRegs[n] = guest[n]
        /\ \A n \in Reg : n \in Other(inst) => r[n] = GuestRegs[n]
    BY <1>0, <1>5, <2>2, <2>3, <2>4, <2>5, RegisterFacts DEF Written
  <2> QED BY <2>2, <2>3, <2>6 DEF r, m
<1>10. CASE inst.opcode = "STORE"
  <2>1. a = Base + ImmS(inst)
    BY <1>10 DEF Offset
  <2> DEFINE y == Narrow(inst.funct3, x)
  <2>2. y \in Int
    BY <1>1, <1>8, <1>10, SMT DEF Narrow
  <2>3. r = regs /\ GuestRegs = guest
    BY <1>6, <1>10, SMT DEF AccessRegs, GuestRegs
  <2>4. m = Put(memory, a, y)
    BY <1>6, <1>10, <2>1, SMT DEF AccessMemory, x
  <2>5. GuestMemory = Put(NoMemory, a, y)
    BY <1>6, <1>10, <2>1, SMT DEF AccessMemory, GuestMemory, x
  <2> HIDE DEF r, m, y
  <2>6. m \in [DOMAIN m -> Int]
    BY <2>2, <2>4, SMT DEF Put
  <2>7. SameCells(m, GuestMemory) /\ Cell(m, Parking) = Cell(memory, Parking)
    <3>1. /\ SameCells(Put(memory, a, y), Put(NoMemory, a, y))
          /\ Cell(Put(memory, a, y), Parking) = Cell(memory, Parking)
      BY <1>2, <1>3, PutBoth
    <3> QED BY <2>4, <2>5, <3>1
  <2> QED BY <1>0, <1>10, <2>3, <2>6, <2>7 DEF r, m
<1>11. CASE inst.opcode = "AMO"
  <2>1. a = Base
    BY <1>2, <1>11 DEF Offset
  <2> DEFINE y == Combined(inst, c, x)
  <2>2. y \in Int
    BY <1>1, <1>5, <1>8, <1>11, SMT DEF Combined
  <2>3. r = Written(regs, inst.rd, c)
    BY <1>6, <1>11, <2>1, SMT DEF AccessRegs, c
  <2>4. GuestRegs = Written(guest, inst.rd, c)
    BY <1>5, <1>6, <1>11, <2>1, SMT DEF AccessRegs, GuestRegs
  <2>5. m = Put(memory, a, y)
    BY <1>6, <1>11, <2>1, SMT DEF AccessMemory, Combined, x, c
  <2>6. GuestMemory = Put(NoMemory, a, y)
    BY <1>5, <1>6, <1>11, <2>1, SMT DEF AccessMemory, GuestMemory, Combined, x
  <2>7. Other(inst) = {inst.rd, inst.rs2}
    BY <1>11 DEF Other
  <2> HIDE DEF r, m, y
  <2>8. inst.rd \in Reg \cup {ZERO}
    BY <2>7, AdjustedFacts
  <2>9. m \in [DOMAIN m -> Int]
    BY <2>2, <2>5, SMT DEF Put
  <2>10. SameCells(m, GuestMemory) /\ Cell(m, Parking) = Cell(memory, Parking)
    <3>1. /\ SameCells(Put(memory, a, y), Put(NoMemory, a, y))
          /\ Cell(Put(memory, a, y), Parking) = Cell(memory, Parking)
      BY <1>2, <1>3, PutBoth
    <3> QED BY <2>5, <2>6, <3>1
  <2>11. /\ r \in [Reg -> Int] /\ GuestRegs \in [Reg -> Int]
         /\ \A n \in Reg : n # inst.rd => r[n] = regs[n] /\ GuestRegs[n] = guest[n]
         /\ \A n \in Reg : n = inst.rd => r[n] = GuestRegs[n]
    BY <1>0, <1>5, <2>3, <2>4, <2>8, RegisterFacts DEF Written
  <2> QED BY <1>11, <2>7, <2>9, <2>10, <2>11 DEF r, m
<1> QED BY <1>7, <1>9, <1>10, <1>11

(* The words of an adjusted access.                                        *)
LEMMA WordsAround ==
  ASSUME Adjusted, words = LaidOut(inst)
  PROVE  LET s == Borrowed
             b == inst.rs1
             n == Len(words)
         IN  /\ n = IF InPlace THEN 13 ELSE 12
             /\ words[1] = MoveSP(-16) /\ words[2] = SaveWord(s)
             /\ words[3] = LuiWord(dataOffset, s)
             /\ words[4] = AddiWord(dataOffset, s) /\ words[5] = AddiWord(dataOffset, s)
             /\ words[6] = BltOver(b, s) /\ words[7] = inst
             /\ words[8] = Jal(IF InPlace THEN 16 ELSE 12)
             /\ words[n - 1] = LoadWord(s) /\ words[n] = MoveSP(16)
             /\ InPlace => /\ words[9] = Add(b, b, s) /\ words[10] = inst
                           /\ words[11] = IF b \in Other(inst) /\ inst.opcode # "AMO"
                                          THEN Nop ELSE Sub(b, b, s)
             /\ ~InPlace => words[9] = Add(s, b, s) /\ words[10] = [inst EXCEPT !.rs1 = s]
<1> PICK s, b : s = Borrowed /\ b = inst.rs1
  OBVIOUS
<1>0. inst \in RvWord /\ inst.opcode \in AccessOp /\ inst.rs1 # SP
  BY DEF Adjusted
<1>1. /\ Borrowed = Scratch(inst) /\ ~LR(inst) /\ ~SC(inst)
      /\ single => inst.opcode # "AMO"
  BY AdjustedFacts
<1>2. CASE InPlace
  <2>1. MovedInPlace([inst |-> inst, single |-> single])
    BY <1>2 DEF InPlace
  <2>2. PICK undo :
          /\ words = Around(inst, s, inst, 16, <<Add(b, b, s), inst, undo>>)
          /\ undo = IF b \in Other(inst) /\ inst.opcode # "AMO" THEN Nop ELSE Sub(b, b, s)
    BY <1>0, <1>1, <2>1, AdjustedWords
  <2>3. /\ Len(words) = 13 /\ words[7] = inst /\ words[8] = Jal(16)
        /\ words[9] = Add(b, b, s) /\ words[10] = inst /\ words[11] = undo
        /\ words[12] = LoadWord(s) /\ words[13] = MoveSP(16)
        /\ words[1] = MoveSP(-16) /\ words[2] = SaveWord(s)
        /\ words[3] = LuiWord(dataOffset, s) /\ words[4] = AddiWord(dataOffset, s)
        /\ words[5] = AddiWord(dataOffset, s) /\ words[6] = BltOver(inst.rs1, s)
    BY <2>2, AroundThree
  <2>4. words[Len(words) - 1] = words[12] /\ words[Len(words)] = words[13]
    BY <2>3, SMT
  <2> QED BY <1>2, <2>2, <2>3, <2>4
<1>3. CASE ~InPlace
  <2>1. ~MovedInPlace([inst |-> inst, single |-> single])
    BY <1>3 DEF InPlace
  <2>2. words = Around(inst, s, inst, 12, <<Add(s, b, s), [inst EXCEPT !.rs1 = s]>>)
    BY <1>0, <1>1, <2>1, AdjustedWords
  <2>3. /\ Len(words) = 12 /\ words[7] = inst /\ words[8] = Jal(12)
        /\ words[9] = Add(s, b, s) /\ words[10] = [inst EXCEPT !.rs1 = s]
        /\ words[11] = LoadWord(s) /\ words[12] = MoveSP(16)
        /\ words[1] = MoveSP(-16) /\ words[2] = SaveWord(s)
        /\ words[3] = LuiWord(dataOffset, s) /\ words[4] = AddiWord(dataOffset, s)
        /\ words[5] = AddiWord(dataOffset, s) /\ words[6] = BltOver(inst.rs1, s)
    BY <2>2, AroundTwo
  <2>4. words[Len(words) - 1] = words[11] /\ words[Len(words)] = words[12]
    BY <2>3, SMT
  <2> QED BY <1>3, <2>2, <2>3, <2>4
<1> QED BY <1>2, <1>3

(* The registers and the memory have their types.                          *)
Stored == regs \in [Reg -> Int] /\ memory \in [DOMAIN memory -> Int]

(* A word that sets the borrowed register only.                            *)
LEMMA Borrowing ==
  ASSUME Stored, Borrowed \in Reg, Borrowed # SP, NEW v \in Int, NEW n,
         GoesOn(n, [regs EXCEPT ![Borrowed] = v], memory)
  PROVE  /\ Stored' /\ regs'[Borrowed] = v
         /\ Before({}) => Before({})'
         /\ After({}) => After({})'
<1>1. /\ regs' \in [Reg -> Int] /\ regs'[Borrowed] = v /\ regs'[SP] = regs[SP]
      /\ \A x \in Reg \ {SP, Borrowed} : regs'[x] = regs[x]
  BY RegisterFacts DEF GoesOn, Stored
<1>2. memory' = memory /\ UNCHANGED laidOut
  BY DEF GoesOn
<1>3. Parked => Parked'
  BY <1>1, <1>2, Rigid DEF Parked
<1>4. /\ SameCells(memory, NoMemory) => SameCells(memory, NoMemory)'
      /\ SameCells(memory, GuestMemory) => SameCells(memory, GuestMemory)'
  BY <1>2, Rigid DEF SameCells
<1>5. /\ Agree(guest, {SP, Borrowed} \cup {}) => Agree(guest, {SP, Borrowed} \cup {})'
      /\ Agree(GuestRegs, {SP, Borrowed} \cup {}) => Agree(GuestRegs, {SP, Borrowed} \cup {})'
  BY <1>1, <1>2, Rigid DEF Agree
<1>6. Stored'
  BY <1>1, <1>2 DEF Stored
<1> QED BY <1>1, <1>3, <1>4, <1>5, <1>6 DEF Before, After

(* Saving the borrowed register below the stack, for any sequence.         *)
LEMMA Saving ==
  ASSUME guest \in [Reg -> Int], Borrowed \in Reg, Borrowed # SP
  PROVE  /\ Untouched /\ Ran(MoveSP(-16)) =>
              /\ Stored' /\ Lowered' /\ ip' = ip + 1 /\ left' = left /\ laidOut' = laidOut
         /\ Lowered /\ Ran(SaveWord(Borrowed)) =>
              /\ Stored' /\ Before({})' /\ regs'[Borrowed] = guest[Borrowed]
              /\ ip' = ip + 1 /\ left' = left /\ laidOut' = laidOut
<1>0. NoMemory \in [DOMAIN NoMemory -> Int] /\ DOMAIN NoMemory = {}
  BY DEF NoMemory
<1>1. Parking \in Int /\ guest[SP] + -16 = Parking
  BY RegisterFacts, SMT DEF Parking
<1>2. ASSUME Untouched, Ran(MoveSP(-16))
      PROVE  Stored' /\ Lowered' /\ ip' = ip + 1 /\ left' = left /\ laidOut' = laidOut
  <2>1. GoesOn(1, [regs EXCEPT ![SP] = @ + -16], memory)
    BY <1>2, LibraryRuns DEF Untouched
  <2>2. regs' = [guest EXCEPT ![SP] = Parking] /\ memory' = NoMemory /\ UNCHANGED laidOut
    BY <1>1, <1>2, <2>1 DEF GoesOn, Untouched
  <2>3. Lowered'
    BY <2>2, Rigid DEF Lowered
  <2>4. regs' \in [Reg -> Int]
    BY <1>1, <2>2
  <2>5. Stored'
    BY <1>0, <2>2, <2>4 DEF Stored
  <2> QED BY <2>1, <2>3, <2>5 DEF GoesOn
<1>3. ASSUME Lowered, Ran(SaveWord(Borrowed))
      PROVE  /\ Stored' /\ Before({})' /\ regs'[Borrowed] = guest[Borrowed]
             /\ ip' = ip + 1 /\ left' = left /\ laidOut' = laidOut
  <2>1. regs \in [Reg -> Int] /\ regs[SP] = Parking /\ memory = NoMemory
        /\ \A x \in Reg \ {SP} : regs[x] = guest[x]
    BY <1>1, <1>3, RegisterFacts DEF Lowered
  <2>2. GoesOn(1, regs, Put(memory, regs[SP], regs[Borrowed]))
    <3>1. \A r \in Reg : Ran(SaveWord(r)) => GoesOn(1, regs, Put(memory, regs[SP], regs[r]))
      BY <2>1, LibraryRuns
    <3> QED BY <1>3, <3>1
  <2>3. regs' = regs /\ memory' = Put(NoMemory, Parking, guest[Borrowed]) /\ UNCHANGED laidOut
    BY <2>1, <2>2 DEF GoesOn
  <2>4. /\ Cell(memory', Parking) = guest[Borrowed]
        /\ DOMAIN memory' = {Parking} /\ memory'[Parking] = guest[Borrowed]
    BY <1>0, <2>3, SMT DEF Put, Cell
  <2>5. memory' \in [DOMAIN memory' -> Int]
    <3>1. guest[Borrowed] \in Int
      OBVIOUS
    <3> QED BY <1>0, <2>3, <3>1, SMT DEF Put
  <2>6. Stored'
    BY <2>1, <2>3, <2>5 DEF Stored
  <2>7. Parked'
    BY <2>1, <2>3, <2>4, Rigid DEF Parked
  <2>8. SameCells(memory, NoMemory)'
    BY <1>0, <2>3, <2>4, Rigid DEF SameCells, NoMemory
  <2>9. Agree(guest, {SP, Borrowed} \cup {})'
    BY <2>1, <2>3, Rigid DEF Agree
  <2>10. Before({})'
    BY <2>7, <2>8, <2>9 DEF Before
  <2> QED BY <2>1, <2>2, <2>3, <2>6, <2>10 DEF GoesOn
<1> QED BY <1>2, <1>3

(* Loading a constant into the borrowed register.                          *)
LEMMA Loading ==
  ASSUME Stored, Borrowed \in Reg, Borrowed # SP, Before({}),
         NEW v \in Int, v % 2 = 0, -2147483647 - 1 <= v, v <= 2147483647
  PROVE  LET s == Borrowed
         IN  /\ Ran(LuiWord(v, s)) =>
                  GoesOn(1, regs', memory) /\ Stored' /\ Before({})' /\ regs'[s] = Page(v)
             /\ Ran(AddiWord(v, s)) /\ regs[s] = Page(v) =>
                  GoesOn(1, regs', memory) /\ Stored' /\ Before({})'
                    /\ regs'[s] = Page(v) + Half(v)
             /\ Ran(AddiWord(v, s)) /\ regs[s] = Page(v) + Half(v) =>
                  GoesOn(1, regs', memory) /\ Stored' /\ Before({})' /\ regs'[s] = v
<1> PICK s : s = Borrowed
  OBVIOUS
<1>1. /\ LuiWord(v, s).opcode = "LUI" /\ LuiWord(v, s).rd = s
      /\ ImmU(LuiWord(v, s)) = Page(v)
      /\ AddiWord(v, s).opcode = "OPIMM" /\ AddiWord(v, s).rd = s
      /\ AddiWord(v, s).rs1 = s /\ ImmI(AddiWord(v, s)) = Half(v)
      /\ Page(v) \in Int /\ Half(v) \in Int /\ Page(v) + Half(v) + Half(v) = v
  BY LiReads
<1>2. \A x : Written(regs, s, x) = [regs EXCEPT ![s] = x]
  BY RegisterFacts DEF Written
<1>3. Value(regs, s) = regs[s]
  BY RegisterFacts
<1>4. ASSUME Ran(LuiWord(v, s))
      PROVE  GoesOn(1, regs', memory) /\ Stored' /\ Before({})' /\ regs'[s] = Page(v)
  <2> PICK p \in Int : p = Page(v)
    BY <1>1
  <2>1. GoesOn(1, [regs EXCEPT ![s] = p], memory)
    BY <1>1, <1>2, <1>4 DEF Ran
  <2>2. Stored' /\ Before({})' /\ regs'[s] = p
    BY <2>1, Borrowing
  <2> QED BY <2>1, <2>2 DEF GoesOn
<1>5. ASSUME Ran(AddiWord(v, s)), NEW p, p = regs[s] + Half(v)
      PROVE  GoesOn(1, [regs EXCEPT ![s] = p], memory)
  BY <1>1, <1>2, <1>3, <1>5 DEF Ran
<1>6. ASSUME Ran(AddiWord(v, s)), NEW p \in Int, p = regs[s] + Half(v)
      PROVE  GoesOn(1, regs', memory) /\ Stored' /\ Before({})' /\ regs'[s] = p
  <2>1. GoesOn(1, [regs EXCEPT ![s] = p], memory)
    BY <1>5, <1>6
  <2>2. Stored' /\ Before({})' /\ regs'[Borrowed] = p
    BY <1>6, <2>1, Borrowing
  <2> QED BY <2>1, <2>2 DEF GoesOn
<1>7. Page(v) + Half(v) \in Int
  BY <1>1, SMT
<1> QED BY <1>1, <1>4, <1>6, <1>7

(* Where an access with an adjusted base may be.                           *)
AdjustedAt == AroundAt \/ (IF InPlace THEN InPlaceAt ELSE CopyAt)

(* What the place of a word says.                                          *)
LEMMA AroundPlaces ==
  ASSUME AroundAt, Len(words) \in {12, 13}
  PROVE  /\ ip = 1 => Untouched
         /\ ip = 2 => Lowered
         /\ ip \in {3, 4, 5, 6, 7, 9} => Before({})
         /\ ip = 4 => regs[Borrowed] = Page(dataOffset)
         /\ ip = 5 => regs[Borrowed] = Page(dataOffset) + Half(dataOffset)
         /\ ip = 6 => regs[Borrowed] = dataOffset
         /\ ip = 7 => Value(guest, inst.rs1) >= dataOffset
         /\ ip = 8 => After({})
         /\ ip = 9 => regs[Borrowed] = dataOffset /\ Value(guest, inst.rs1) < dataOffset
         /\ ip = Len(words) - 1 => After({})
         /\ ip = Len(words) => After({}) /\ regs[Borrowed] = guest[Borrowed]
         /\ ip = Len(words) + 1 => regs = GuestRegs /\ SameCells(memory, GuestMemory)
         /\ ip \in 1..9 \/ ip \in (Len(words) - 1)..(Len(words) + 1)
<1> DEFINE n == Len(words)
           P4 == regs[Borrowed] = Page(dataOffset)
           P5 == regs[Borrowed] = Page(dataOffset) + Half(dataOffset)
           P6 == regs[Borrowed] = dataOffset
           P7 == Value(guest, inst.rs1) >= dataOffset
           P9 == Value(guest, inst.rs1) < dataOffset
           P12 == regs[Borrowed] = guest[Borrowed]
           P13 == regs = GuestRegs
           B == Before({})
           A == After({})
<1>1. \/ ip = 1 /\ Untouched
      \/ ip = 2 /\ Lowered
      \/ ip = 3 /\ B
      \/ ip = 4 /\ B /\ P4
      \/ ip = 5 /\ B /\ P5
      \/ ip = 6 /\ B /\ P6
      \/ ip = 7 /\ B /\ P7
      \/ ip = 8 /\ A
      \/ ip = 9 /\ B /\ P6 /\ P9
      \/ ip = n - 1 /\ A
      \/ ip = n /\ A /\ P12
      \/ ip = n + 1 /\ P13 /\ SameCells(memory, GuestMemory)
  BY DEF AroundAt
<1>2. n \in {12, 13}
  OBVIOUS
<1> HIDE DEF n, P4, P5, P6, P7, P9, P12, P13, A, B
<1>3. /\ ip = 1 => Untouched
      /\ ip = 2 => Lowered
      /\ ip \in {3, 4, 5, 6, 7, 9} => B
      /\ ip = 4 => P4
      /\ ip = 5 => P5
      /\ ip = 6 => P6
      /\ ip = 7 => P7
      /\ ip = 8 => A
      /\ ip = 9 => P6 /\ P9
      /\ ip = n - 1 => A
      /\ ip = n => A /\ P12
      /\ ip = n + 1 => P13 /\ SameCells(memory, GuestMemory)
      /\ ip \in 1..9 \/ ip \in (n - 1)..(n + 1)
  BY <1>1, <1>2, SMT
<1> QED BY <1>3 DEF n, P4, P5, P6, P7, P9, P12, P13, A, B

(* The words before the access, whose register and memory are the guest's. *)
LEMMA AroundOpens ==
  ASSUME Adjusted, words = LaidOut(inst), Stored, Running, Ran(words[ip]),
         AroundAt, ip \in 1..5
  PROVE  AroundAt' /\ Stored' /\ left' = left /\ laidOut' = laidOut
<1>0. /\ Borrowed \in Reg /\ Borrowed # SP /\ guest \in [Reg -> Int]
      /\ Len(words) \in {12, 13}
      /\ words[1] = MoveSP(-16) /\ words[2] = SaveWord(Borrowed)
      /\ words[3] = LuiWord(dataOffset, Borrowed)
      /\ words[4] = AddiWord(dataOffset, Borrowed)
      /\ words[5] = AddiWord(dataOffset, Borrowed)
  BY AdjustedFacts, WordsAround DEF Adjusted
<1>1. /\ dataOffset \in Int /\ dataOffset % 2 = 0
      /\ -2147483647 - 1 <= dataOffset /\ dataOffset <= 2147483647
  BY AddressAssumption, AlignmentAssumption, SMT
<1>2. CASE ip = 1
  <2>1. Untouched /\ Ran(MoveSP(-16))
    BY <1>0, <1>2, AroundPlaces
  <2>2. Stored' /\ Lowered' /\ ip' = 2 /\ left' = left /\ laidOut' = laidOut
    BY <1>0, <1>2, <2>1, Saving
  <2> QED BY <2>2 DEF AroundAt
<1>3. CASE ip = 2
  <2>1. Lowered /\ Ran(SaveWord(Borrowed))
    BY <1>0, <1>3, AroundPlaces
  <2>2. Stored' /\ Before({})' /\ ip' = 3 /\ left' = left /\ laidOut' = laidOut
    BY <1>0, <1>3, <2>1, Saving
  <2> QED BY <2>2 DEF AroundAt
<1>4. CASE ip = 3
  <2>1. Before({}) /\ Ran(LuiWord(dataOffset, Borrowed))
    BY <1>0, <1>4, AroundPlaces
  <2>2. /\ GoesOn(1, regs', memory) /\ Stored' /\ Before({})'
        /\ regs'[Borrowed] = Page(dataOffset)
    BY <1>0, <1>1, <2>1, Loading
  <2>3. ip' = 4 /\ left' = left /\ laidOut' = laidOut /\ Borrowed' = Borrowed
    BY <1>4, <2>2, Rigid DEF GoesOn
  <2> QED BY <2>2, <2>3 DEF AroundAt
<1>5. CASE ip = 4
  <2>1. Before({}) /\ Ran(AddiWord(dataOffset, Borrowed)) /\ regs[Borrowed] = Page(dataOffset)
    <3>1. Ran(AddiWord(dataOffset, Borrowed))
      BY <1>0, <1>5
    <3>2. Before({}) /\ regs[Borrowed] = Page(dataOffset)
      BY <1>0, <1>5, AroundPlaces
    <3> QED BY <3>1, <3>2
  <2>2. /\ GoesOn(1, regs', memory) /\ Stored' /\ Before({})'
        /\ regs'[Borrowed] = Page(dataOffset) + Half(dataOffset)
    BY <1>0, <1>1, <2>1, Loading
  <2>3. ip' = 5 /\ left' = left /\ laidOut' = laidOut /\ Borrowed' = Borrowed
    BY <1>5, <2>2, Rigid DEF GoesOn
  <2> QED BY <2>2, <2>3 DEF AroundAt
<1>6. CASE ip = 5
  <2>1. /\ Before({}) /\ Ran(AddiWord(dataOffset, Borrowed))
        /\ regs[Borrowed] = Page(dataOffset) + Half(dataOffset)
    <3>1. Ran(AddiWord(dataOffset, Borrowed))
      BY <1>0, <1>6
    <3>2. Before({}) /\ regs[Borrowed] = Page(dataOffset) + Half(dataOffset)
      BY <1>0, <1>6, AroundPlaces
    <3> QED BY <3>1, <3>2
  <2>2. GoesOn(1, regs', memory) /\ Stored' /\ Before({})' /\ regs'[Borrowed] = dataOffset
    BY <1>0, <1>1, <2>1, Loading
  <2>3. ip' = 6 /\ left' = left /\ laidOut' = laidOut /\ Borrowed' = Borrowed
    BY <1>6, <2>2, Rigid DEF GoesOn
  <2> QED BY <2>2, <2>3 DEF AroundAt
<1> QED BY <1>2, <1>3, <1>4, <1>5, <1>6, SMT

(* The last two words, which give back the borrowed register and the stack *)
(* pointer.                                                                *)
LEMMA AroundCloses ==
  ASSUME Adjusted, words = LaidOut(inst), Stored, Running, Ran(words[ip]),
         After({}), GuestRegs \in [Reg -> Int],
         GuestRegs[SP] = guest[SP], GuestRegs[Borrowed] = guest[Borrowed]
  PROVE  /\ ip = Len(words) - 1 => AroundAt' /\ Stored' /\ left' = left /\ laidOut' = laidOut
         /\ ip = Len(words) /\ regs[Borrowed] = guest[Borrowed] =>
              AroundAt' /\ Stored' /\ left' = left /\ laidOut' = laidOut
<1>0. /\ Borrowed \in Reg /\ Borrowed # SP /\ guest \in [Reg -> Int]
      /\ Len(words) \in {12, 13}
      /\ words[Len(words) - 1] = LoadWord(Borrowed) /\ words[Len(words)] = MoveSP(16)
  BY AdjustedFacts, WordsAround DEF Adjusted
<1>1. regs[SP] = Parking /\ Cell(memory, Parking) = guest[Borrowed]
      /\ Agree(GuestRegs, {SP, Borrowed} \cup {}) /\ SameCells(memory, GuestMemory)
  BY DEF After, Parked
<1>2. ASSUME ip = Len(words) - 1
      PROVE  AroundAt' /\ Stored' /\ left' = left /\ laidOut' = laidOut
  <2> PICK v \in Int : v = guest[Borrowed]
    BY <1>0
  <2>1. Ran(LoadWord(Borrowed))
    BY <1>0, <1>2
  <2>2. GoesOn(1, [regs EXCEPT ![Borrowed] = v], memory)
    <3>1. \A r \in Reg : Ran(LoadWord(r)) =>
            GoesOn(1, [regs EXCEPT ![r] = Cell(memory, regs[SP])], memory)
      BY LibraryRuns DEF Stored
    <3> QED BY <1>0, <1>1, <2>1, <3>1
  <2>3. Stored' /\ After({})' /\ regs'[Borrowed] = v
    BY <1>0, <2>2, Borrowing
  <2>4. ip' = ip + 1 /\ left' = left /\ laidOut' = laidOut /\ Borrowed' = Borrowed
        /\ guest' = guest /\ words' = words
    BY <2>2, Rigid DEF GoesOn
  <2>5. ip' = Len(words')
    BY <1>0, <1>2, <2>4, SMT
  <2> QED BY <2>3, <2>4, <2>5 DEF AroundAt
<1>3. ASSUME ip = Len(words), regs[Borrowed] = guest[Borrowed]
      PROVE  AroundAt' /\ Stored' /\ left' = left /\ laidOut' = laidOut
  <2>1. Ran(MoveSP(16))
    BY <1>0, <1>3
  <2>2. GoesOn(1, [regs EXCEPT ![SP] = @ + 16], memory)
    BY <2>1, LibraryRuns DEF Stored
  <2>3. ip' = ip + 1 /\ left' = left /\ laidOut' = laidOut /\ memory' = memory
        /\ GuestRegs' = GuestRegs /\ GuestMemory' = GuestMemory /\ Parking' = Parking
        /\ words' = words
    BY <2>2, Rigid DEF GoesOn
  <2>4. regs[SP] + 16 = guest[SP] /\ guest[SP] \in Int
    BY <1>0, <1>1, RegisterFacts, SMT DEF Parking
  <2>5. regs' = [regs EXCEPT ![SP] = guest[SP]]
    BY <2>2, <2>4 DEF GoesOn
  <2>6. regs' \in [Reg -> Int] /\ \A n \in Reg : regs'[n] = GuestRegs[n]
    BY <1>0, <1>1, <1>3, <2>4, <2>5, RegisterFacts DEF Stored, Agree
  <2>7. regs' = GuestRegs
    BY <2>6
  <2>8. SameCells(memory, GuestMemory)'
    BY <1>1, <2>3 DEF SameCells
  <2>9. Stored'
    BY <2>3, <2>6 DEF Stored
  <2> QED BY <1>3, <2>3, <2>7, <2>8, <2>9 DEF AroundAt
<1> QED BY <1>2, <1>3

(* A word that only moves the processor on.                                *)
LEMMA Passing ==
  ASSUME Stored, NEW n, GoesOn(n, regs, memory), NEW X
  PROVE  /\ Stored'
         /\ Before(X) => Before(X)'
         /\ After(X) => After(X)'
<1>1. regs' = regs /\ memory' = memory /\ UNCHANGED laidOut
  BY DEF GoesOn
<1>2. Parked => Parked'
  BY <1>1, Rigid DEF Parked
<1>3. /\ SameCells(memory, NoMemory) => SameCells(memory, NoMemory)'
      /\ SameCells(memory, GuestMemory) => SameCells(memory, GuestMemory)'
  BY <1>1, Rigid DEF SameCells
<1>4. /\ Agree(guest, {SP, Borrowed} \cup X) => Agree(guest, {SP, Borrowed} \cup X)'
      /\ Agree(GuestRegs, {SP, Borrowed} \cup X) => Agree(GuestRegs, {SP, Borrowed} \cup X)'
  BY <1>1, Rigid DEF Agree
<1>5. Stored'
  BY <1>1 DEF Stored
<1> QED BY <1>2, <1>3, <1>4, <1>5 DEF Before, After

(* The branch to the adjusted access and the jump past it.                 *)
LEMMA AroundTurns ==
  ASSUME Adjusted, words = LaidOut(inst), Stored, Running, Ran(words[ip]), AroundAt
  PROVE  ip \in {6, 8} => AroundAt' /\ Stored' /\ left' = left /\ laidOut' = laidOut
<1>0. /\ Borrowed \in Reg /\ Borrowed # SP /\ guest \in [Reg -> Int]
      /\ inst.rs1 \in Reg \cup {ZERO} /\ inst.rs1 # Borrowed /\ inst.rs1 # SP
      /\ Len(words) = (IF InPlace THEN 13 ELSE 12)
      /\ words[6] = BltOver(inst.rs1, Borrowed)
      /\ words[8] = Jal(IF InPlace THEN 16 ELSE 12)
  BY AdjustedFacts, WordsAround DEF Adjusted
<1>1. Len(words) \in {12, 13}
  BY <1>0
<1>2. ASSUME ip = 6
      PROVE  AroundAt' /\ Stored' /\ left' = left /\ laidOut' = laidOut
  <2> PICK v : v = Value(guest, inst.rs1)
    OBVIOUS
  <2> DEFINE n == IF v < dataOffset THEN 3 ELSE 1
  <2>1. Before({}) /\ regs[Borrowed] = dataOffset
    BY <1>1, <1>2, AroundPlaces
  <2>2. Value(regs, inst.rs1) = v /\ Value(regs, Borrowed) = dataOffset
    <3>1. Agree(guest, {SP, Borrowed} \cup {})
      BY <2>1 DEF Before
    <3> QED BY <1>0, <2>1, <3>1, RegisterFacts DEF Agree, Value
  <2>3. GoesOn(n, regs, memory)
    <3>1. Ran(BltOver(inst.rs1, Borrowed))
      BY <1>0, <1>2
    <3>2. \A a, b : Ran(BltOver(a, b)) =>
            GoesOn(IF Value(regs, a) < Value(regs, b) THEN 3 ELSE 1, regs, memory)
      BY LibraryRuns DEF Stored
    <3> QED BY <2>2, <3>1, <3>2
  <2>4. Stored' /\ Before({})'
    BY <2>1, <2>3, Passing
  <2>5. /\ ip' = 6 + n /\ left' = left /\ laidOut' = laidOut /\ regs' = regs
        /\ Borrowed' = Borrowed /\ inst' = inst /\ guest' = guest
    BY <1>2, <2>3, Rigid DEF GoesOn
  <2>6. CASE v < dataOffset
    <3>1. ip' = 9 /\ regs'[Borrowed'] = dataOffset /\ Value(guest', inst'.rs1) < dataOffset
      BY <2>1, <2>5, <2>6
    <3> QED BY <2>4, <2>5, <3>1 DEF AroundAt
  <2>7. CASE ~(v < dataOffset)
    <3>1. v \in Int
      BY <1>0, RegisterFacts
    <3>2. v >= dataOffset
      BY <2>7, <3>1, AddressAssumption, SMT
    <3>3. ip' = 7 /\ Value(guest', inst'.rs1) >= dataOffset
      BY <2>5, <2>7, <3>2
    <3> QED BY <2>4, <2>5, <3>3 DEF AroundAt
  <2> QED BY <2>6, <2>7
<1>3. ASSUME ip = 8
      PROVE  AroundAt' /\ Stored' /\ left' = left /\ laidOut' = laidOut
  <2> DEFINE n == IF InPlace THEN 16 ELSE 12
  <2>1. After({})
    BY <1>1, <1>3, AroundPlaces
  <2>2. GoesOn(n \div 4, regs, memory)
    <3>1. Ran(Jal(n))
      BY <1>0, <1>3
    <3>2. n \in {12, 16}
      OBVIOUS
    <3> HIDE DEF n
    <3> QED BY <3>1, <3>2, LibraryRuns DEF Stored
  <2>3. Stored' /\ After({})'
    BY <2>1, <2>2, Passing
  <2>4. ip' = (n \div 4) + 8 /\ left' = left /\ laidOut' = laidOut /\ words' = words
    BY <1>3, <2>2, Rigid, SMT DEF GoesOn
  <2>5. ip' = Len(words') - 1
    <3>1. (n \div 4) + 8 = Len(words) - 1
      BY <1>0, SMT
    <3> HIDE DEF n
    <3> QED BY <1>1, <2>4, <3>1, SMT
  <2> QED BY <2>3, <2>4, <2>5 DEF AroundAt
<1> QED BY <1>2, <1>3

(* An access word, run with the guest's address in its base register.      *)
LEMMA AccessRuns ==
  ASSUME Adjusted, Stored, NEW X,
         Before(X), NEW v,
         v.opcode = inst.opcode, v.rd = inst.rd, v.funct3 = inst.funct3,
         v.rs2 = inst.rs2, v.funct7 = inst.funct7,
         Value(regs, v.rs1) = Base, Ran(v),
         inst.opcode # "LOAD" => X \cap Other(inst) = {}
  PROVE  /\ Stored' /\ ip' = ip + 1 /\ left' = left /\ laidOut' = laidOut
         /\ GuestRegs \in [Reg -> Int]
         /\ GuestRegs[SP] = guest[SP] /\ GuestRegs[Borrowed] = guest[Borrowed]
         /\ \A n \in Reg : n \notin Other(inst) => regs'[n] = regs[n] /\ GuestRegs[n] = guest[n]
         /\ After(X \ Other(inst))'
<1> PICK s : s = Borrowed
  OBVIOUS
<1> DEFINE r == AccessRegs(v, Base, regs, memory)
           m == AccessMemory(v, Base, regs, memory)
<1>0. /\ s \in Reg /\ s # SP /\ s \notin Other(inst) /\ SP \notin Other(inst) /\ SP \in Reg
      /\ inst.opcode \in AccessOp /\ Other(inst) \subseteq Reg \cup {ZERO}
  BY AdjustedFacts, RegisterFacts DEF Adjusted
<1>1. /\ Agree(guest, {SP, s} \cup X) /\ SameCells(memory, NoMemory)
      /\ regs[SP] = Parking /\ Cell(memory, Parking) = guest[s]
  BY DEF Before, Parked
<1>2. inst.opcode # "LOAD" => Value(regs, inst.rs2) = Value(guest, inst.rs2)
  <2> SUFFICES ASSUME inst.opcode # "LOAD"
               PROVE  Value(regs, inst.rs2) = Value(guest, inst.rs2)
    OBVIOUS
  <2>1. inst.rs2 \in Other(inst)
    BY <1>0 DEF Other, AccessOp
  <2>2. inst.rs2 \notin {SP, s} \cup X
    BY <1>0, <2>1
  <2> QED BY <1>0, <1>1, <2>1, <2>2, RegisterFacts DEF Agree, Value
<1>3. GoesOn(1, r, m)
  BY <1>0 DEF Ran
<1>4. /\ r \in [Reg -> Int] /\ m \in [DOMAIN m -> Int]
      /\ SameCells(m, GuestMemory) /\ Cell(m, Parking) = Cell(memory, Parking)
      /\ GuestRegs \in [Reg -> Int]
      /\ \A n \in Reg : n \notin Other(inst) => r[n] = regs[n] /\ GuestRegs[n] = guest[n]
      /\ \A n \in Reg : r[n] = GuestRegs[n] \/ (r[n] = regs[n] /\ GuestRegs[n] = guest[n])
      /\ \A n \in Reg : inst.opcode = "LOAD" /\ n \in Other(inst) => r[n] = GuestRegs[n]
  BY <1>1, <1>2, Accessed DEF Stored
<1> HIDE DEF r, m
<1>5. regs' = r /\ memory' = m /\ ip' = ip + 1 /\ left' = left /\ UNCHANGED laidOut
  BY <1>3 DEF GoesOn
<1>6. /\ Parking' = Parking /\ Borrowed' = s /\ GuestMemory' = GuestMemory
      /\ GuestRegs' = GuestRegs /\ guest' = guest /\ inst' = inst
  BY <1>5, Rigid
<1>7. Stored'
  BY <1>4, <1>5 DEF Stored
<1>8. Parked'
  BY <1>0, <1>1, <1>4, <1>5, <1>6 DEF Parked
<1>9. SameCells(memory, GuestMemory)'
  BY <1>4, <1>5, <1>6 DEF SameCells
<1>10. Other(inst)' = Other(inst)
  BY <1>6 DEF Other
<1>11. Agree(GuestRegs, {SP, Borrowed} \cup (X \ Other(inst)))'
  <2> SUFFICES ASSUME NEW n \in Reg \ ({SP, s} \cup (X \ Other(inst)))
               PROVE  r[n] = GuestRegs[n]
    BY <1>5, <1>6, <1>10 DEF Agree
  <2>1. CASE n \notin X
    <3>1. regs[n] = guest[n]
      BY <1>1, <2>1 DEF Agree
    <3> QED BY <1>4, <3>1
  <2>2. CASE n \in X
    <3>1. n \in Other(inst) /\ inst.opcode = "LOAD"
      BY <2>2
    <3> QED BY <1>4, <3>1
  <2> QED BY <2>1, <2>2
<1>12. After(X \ Other(inst))'
  BY <1>8, <1>9, <1>11 DEF After
<1> QED BY <1>0, <1>4, <1>5, <1>7, <1>12

(* The access where the base register is not below dataOffset, and the one *)
(* through the borrowed register.                                          *)
LEMMA AroundAccesses ==
  ASSUME Adjusted, words = LaidOut(inst), Stored, Running, Ran(words[ip])
  PROVE  /\ AroundAt /\ ip = 7 => AroundAt' /\ Stored' /\ left' = left /\ laidOut' = laidOut
         /\ CopyAt /\ ~InPlace => AroundAt' /\ Stored' /\ left' = left /\ laidOut' = laidOut
<1> PICK s, b : s = Borrowed /\ b = inst.rs1
  OBVIOUS
<1>0. /\ s \in Reg /\ s # SP /\ guest \in [Reg -> Int] /\ inst \in RvWord
      /\ b \in Reg \cup {ZERO} /\ b # s /\ b # SP
      /\ Len(words) = (IF InPlace THEN 13 ELSE 12)
      /\ words[7] = inst
      /\ ~InPlace => words[10] = [inst EXCEPT !.rs1 = s]
  BY AdjustedFacts, WordsAround DEF Adjusted
<1>1. ASSUME AroundAt, ip = 7
      PROVE  AroundAt' /\ Stored' /\ left' = left /\ laidOut' = laidOut
  <2>1. Before({}) /\ Value(guest, b) >= dataOffset
    BY <1>0, <1>1, AroundPlaces
  <2>2. Value(regs, b) = Value(guest, b)
    <3>1. Agree(guest, {SP, s} \cup {})
      BY <2>1 DEF Before
    <3> QED BY <1>0, <3>1 DEF Agree, Value
  <2>3. Base = Value(guest, b)
    <3>1. Value(guest, b) \in Int
      BY AdjustedFacts
    <3>2. ~(Value(guest, b) < dataOffset)
      BY <2>1, <3>1, AddressAssumption, SMT
    <3> QED BY <3>2, AdjustedFacts
  <2>4. Ran(inst)
    BY <1>0, <1>1
  <2>5. /\ Stored' /\ ip' = 8 /\ left' = left /\ laidOut' = laidOut
        /\ After({} \ Other(inst))'
    BY <1>1, <2>1, <2>2, <2>3, <2>4, AccessRuns
  <2>6. After({})'
    <3>1. {} \ Other(inst)' = {}
      OBVIOUS
    <3> QED BY <2>5, <3>1
  <2> QED BY <2>5, <2>6 DEF AroundAt
<1>2. ASSUME CopyAt, ~InPlace
      PROVE  AroundAt' /\ Stored' /\ left' = left /\ laidOut' = laidOut
  <2> PICK v : v = [inst EXCEPT !.rs1 = s]
    OBVIOUS
  <2>1. ip = 10 /\ Before({}) /\ regs[s] = Base
    BY <1>2 DEF CopyAt
  <2>2. /\ v.opcode = inst.opcode /\ v.rd = inst.rd /\ v.funct3 = inst.funct3
        /\ v.rs2 = inst.rs2 /\ v.funct7 = inst.funct7 /\ v.rs1 = s
    BY <1>0, SMT DEF RvWord
  <2>3. Value(regs, v.rs1) = Base
    BY <1>0, <2>1, <2>2, RegisterFacts
  <2>4. Ran(v)
    BY <1>0, <1>2, <2>1
  <2>5. /\ Stored' /\ ip' = ip + 1 /\ left' = left /\ laidOut' = laidOut
        /\ After({} \ Other(inst))'
    <3>1. inst.opcode # "LOAD" => {} \cap Other(inst) = {}
      OBVIOUS
    <3> QED BY <2>1, <2>2, <2>3, <2>4, <3>1, AccessRuns
  <2>6. After({})'
    <3>1. {} \ Other(inst)' = {}
      OBVIOUS
    <3> QED BY <2>5, <3>1
  <2>7. ip' = Len(words') - 1
    BY <1>0, <1>2, <2>1, <2>5, Rigid, SMT
  <2> QED BY <2>5, <2>6, <2>7 DEF AroundAt
<1> QED BY <1>1, <1>2

(* The sum of the base register and dataOffset, put into the borrowed      *)
(* register or into the base register itself.                              *)
LEMMA AroundAdds ==
  ASSUME Adjusted, words = LaidOut(inst), Stored, Running, Ran(words[ip]),
         AroundAt, ip = 9
  PROVE  AdjustedAt' /\ Stored' /\ left' = left /\ laidOut' = laidOut
<1> PICK s, b : s = Borrowed /\ b = inst.rs1
  OBVIOUS
<1>0. /\ s \in Reg /\ s # SP /\ guest \in [Reg -> Int] /\ inst \in RvWord
      /\ b \in Reg \cup {ZERO} /\ b # s /\ b # SP
      /\ Len(words) \in {12, 13}
      /\ InPlace => b \in Reg /\ words[9] = Add(b, b, s)
      /\ ~InPlace => words[9] = Add(s, b, s)
  BY AdjustedFacts, WordsAround DEF Adjusted
<1>1. Before({}) /\ regs[s] = dataOffset /\ Value(guest, b) < dataOffset
  BY <1>0, AroundPlaces
<1>2. Agree(guest, {SP, s} \cup {}) /\ SameCells(memory, NoMemory) /\ Parked
  BY <1>1 DEF Before
<1>3. Value(regs, b) = Value(guest, b)
  BY <1>0, <1>2 DEF Agree, Value
<1>4. Value(guest, b) + dataOffset = Base /\ Base \in Int
  BY <1>1, AdjustedFacts
<1>5. Value(regs, s) = dataOffset
  BY <1>0, <1>1, RegisterFacts
<1> PICK v \in Int : v = Base
  BY <1>4
<1>6. \A d : Ran(Add(d, b, s)) => GoesOn(1, Written(regs, d, v), memory)
  <2>1. ASSUME NEW d, Ran(Add(d, b, s)) PROVE GoesOn(1, Written(regs, d, v), memory)
    <3>1. GoesOn(1, Written(regs, d, Value(regs, b) + Value(regs, s)), memory)
      BY <2>1, LibraryRuns DEF Stored
    <3>2. Value(regs, b) + Value(regs, s) = v
      BY <1>3, <1>4, <1>5
    <3> QED BY <3>1, <3>2
  <2> QED BY <2>1
<1>7. CASE ~InPlace
  <2>1. GoesOn(1, [regs EXCEPT ![s] = v], memory)
    <3>1. Written(regs, s, v) = [regs EXCEPT ![s] = v]
      BY <1>0, RegisterFacts DEF Written
    <3>2. words[ip] = Add(s, b, s)
      BY <1>0, <1>7
    <3>3. Ran(Add(s, b, s))
      BY <3>2, Zenon
    <3>4. GoesOn(1, Written(regs, s, v), memory)
      BY <1>6, <3>3, Zenon
    <3> QED BY <3>1, <3>4, Zenon
  <2>2. Stored' /\ Before({})' /\ regs'[s] = v
    BY <1>0, <1>1, <2>1, Borrowing
  <2>3. /\ ip' = 10 /\ left' = left /\ laidOut' = laidOut /\ Borrowed' = s /\ Base' = v
        /\ ~InPlace'
    BY <1>7, <2>1, Rigid DEF GoesOn
  <2>4. CopyAt'
    BY <2>2, <2>3 DEF CopyAt
  <2> QED BY <2>2, <2>3, <2>4 DEF AdjustedAt
<1>8. CASE InPlace
  <2>1. GoesOn(1, [regs EXCEPT ![b] = v], memory)
    <3>1. Written(regs, b, v) = [regs EXCEPT ![b] = v]
      BY <1>0, <1>8, RegisterFacts DEF Written
    <3>2. words[ip] = Add(b, b, s)
      BY <1>0, <1>8
    <3>3. Ran(Add(b, b, s))
      BY <3>2, Zenon
    <3>4. GoesOn(1, Written(regs, b, v), memory)
      BY <1>6, <3>3, Zenon
    <3> QED BY <3>1, <3>4, Zenon
  <2>2. /\ ip' = 10 /\ left' = left /\ laidOut' = laidOut /\ Borrowed' = s /\ Base' = v
        /\ InPlace' /\ inst' = inst /\ guest' = guest /\ Parking' = Parking
        /\ memory' = memory /\ regs' = [regs EXCEPT ![b] = v]
    BY <1>8, <2>1, Rigid DEF GoesOn
  <2>3. /\ regs' \in [Reg -> Int] /\ regs'[b] = v /\ regs'[s] = dataOffset
        /\ regs'[SP] = regs[SP] /\ \A n \in Reg \ {SP, s, b} : regs'[n] = guest[n]
    BY <1>0, <1>1, <1>2, <1>8, <2>2, RegisterFacts DEF Stored, Agree
  <2>4. Parked'
    BY <1>2, <2>2, <2>3 DEF Parked
  <2>5. SameCells(memory, NoMemory)'
    BY <1>2, <2>2 DEF SameCells
  <2>6. Agree(guest, {SP, Borrowed} \cup {inst.rs1})'
    BY <2>2, <2>3 DEF Agree
  <2>7. Before({inst.rs1})'
    BY <2>4, <2>5, <2>6 DEF Before
  <2>8. Value(guest, inst.rs1)' < dataOffset
    BY <1>1, <2>2
  <2>10. InPlaceAt'
    BY <2>2, <2>3, <2>7, <2>8 DEF InPlaceAt
  <2>9. Stored'
    BY <2>2, <2>3 DEF Stored
  <2> QED BY <2>2, <2>9, <2>10 DEF AdjustedAt
<1> QED BY <1>7, <1>8

(* What the guest's own access leaves in the registers it does not name,   *)
(* and in memory.                                                          *)
LEMMA GuestKeeps ==
  ASSUME inst \in RvWord, guest \in [Reg -> Int], inst.opcode \in AccessOp,
         ~LR(inst), ~SC(inst), Base \in Int, Other(inst) \subseteq Reg \cup {ZERO}
  PROVE  /\ GuestRegs \in [Reg -> Int]
         /\ \A n \in Reg : n \notin Other(inst) => GuestRegs[n] = guest[n]
         /\ GuestMemory \in [DOMAIN GuestMemory -> Int]
<1>0. inst.opcode \in {"LOAD", "STORE", "AMO"}
  BY DEF AccessOp
<1>1. ASSUME NEW z \in Int, inst.rd \in Reg \cup {ZERO}
      PROVE  /\ Written(guest, inst.rd, z) \in [Reg -> Int]
             /\ \A n \in Reg : n # inst.rd => Written(guest, inst.rd, z)[n] = guest[n]
  BY <1>1 DEF Written
<1> DEFINE a == Base + Offset(inst)
           c == Narrow(inst.funct3, Cell(NoMemory, a))
           x == Value(guest, inst.rs2)
<1>2. inst.funct3 \in Int /\ inst.funct7 \in Int /\ Offset(inst) \in Int
  <2>1. inst.rd \in Int /\ inst.rs2 \in Int /\ inst.funct7 \in Int /\ inst.funct3 \in Int
    BY WordGroups, SMT
  <2> QED BY <2>1, SMT DEF Offset, ImmI, ImmS
<1>3. a \in Int /\ Base + 0 = Base
  BY <1>2, SMT
<1>4. c \in Int
  <2> HIDE DEF a
  <2> QED BY <1>2, <1>3, SMT DEF Narrow, Cell, NoMemory
<1>5. inst.opcode # "LOAD" => x \in Int
  BY <1>0, RegisterFacts DEF Other
<1>6. NoMemory \in [DOMAIN NoMemory -> Int]
  BY DEF NoMemory
<1>7. ASSUME NEW y, NEW z \in Int
      PROVE  Put(NoMemory, y, z) \in [DOMAIN Put(NoMemory, y, z) -> Int]
  BY <1>6, SMT DEF Put
<1>8. CASE inst.opcode = "STORE"
  <2> DEFINE y == Narrow(inst.funct3, x)
  <2>1. y \in Int
    BY <1>2, <1>5, <1>8, SMT DEF Narrow
  <2>2. GuestRegs = guest /\ GuestMemory = Put(NoMemory, a, y)
    BY <1>8, SMT DEF AccessRegs, AccessMemory, GuestRegs, GuestMemory, Offset
  <2> HIDE DEF y
  <2> QED BY <1>7, <2>1, <2>2
<1>9. CASE inst.opcode = "LOAD"
  <2>1. GuestRegs = Written(guest, inst.rd, c) /\ GuestMemory = NoMemory
    BY <1>9, SMT DEF AccessRegs, AccessMemory, GuestRegs, GuestMemory, Offset
  <2>2. inst.rd \in Other(inst)
    BY <1>9 DEF Other
  <2> HIDE DEF c
  <2> QED BY <1>1, <1>4, <1>6, <2>1, <2>2
<1>10. CASE inst.opcode = "AMO"
  <2> DEFINE y == Combined(inst, c, x)
  <2>1. a = Base
    BY <1>3, <1>10 DEF Offset
  <2>2. y \in Int
    <3> HIDE DEF c, x
    <3> QED BY <1>2, <1>4, <1>5, <1>10, SMT DEF Combined
  <2>3. GuestRegs = Written(guest, inst.rd, c)
    BY <1>10, <2>1, SMT DEF AccessRegs, GuestRegs
  <2>4. GuestMemory = Put(NoMemory, a, y)
    BY <1>10, <2>1, SMT DEF AccessMemory, GuestMemory, Combined
  <2>5. inst.rd \in Other(inst)
    BY <1>10 DEF Other
  <2> HIDE DEF c, y
  <2> QED BY <1>1, <1>4, <1>7, <2>2, <2>3, <2>4, <2>5
<1> QED BY <1>0, <1>8, <1>9, <1>10

(* The access with the base register moved in place, and moving it back.   *)
LEMMA InPlaceRuns ==
  ASSUME Adjusted, words = LaidOut(inst), Stored, Running, Ran(words[ip]),
         InPlace, InPlaceAt
  PROVE  AdjustedAt' /\ Stored' /\ left' = left /\ laidOut' = laidOut
<1> PICK s, b : s = Borrowed /\ b = inst.rs1
  OBVIOUS
<1>0. /\ s \in Reg /\ s # SP /\ guest \in [Reg -> Int] /\ inst \in RvWord
      /\ b \in Reg /\ b # s /\ b # SP /\ s \notin Other(inst)
      /\ inst.opcode # "LOAD" => b \notin Other(inst)
      /\ Len(words) = 13 /\ words[10] = inst
      /\ words[11] = IF b \in Other(inst) /\ inst.opcode # "AMO" THEN Nop ELSE Sub(b, b, s)
      /\ inst.opcode \in AccessOp
  BY AdjustedFacts, WordsAround DEF Adjusted
<1>v. Value(guest, b) < dataOffset
  BY DEF InPlaceAt
<1>1. CASE ip = 10
  <2>1. Before({b}) /\ regs[b] = Base /\ regs[s] = dataOffset
    BY <1>1 DEF InPlaceAt
  <2>2. Value(regs, b) = Base
    BY <1>0, <2>1, RegisterFacts
  <2>3. Ran(inst)
    BY <1>0, <1>1
  <2>4. /\ Stored' /\ ip' = ip + 1 /\ left' = left /\ laidOut' = laidOut
        /\ After({b} \ Other(inst))'
        /\ \A n \in Reg : n \notin Other(inst) => regs'[n] = regs[n]
    <3>1. inst.opcode # "LOAD" => {b} \cap Other(inst) = {}
      BY <1>0
    <3>2. /\ inst.opcode = inst.opcode /\ inst.rd = inst.rd /\ inst.funct3 = inst.funct3
          /\ inst.rs2 = inst.rs2 /\ inst.funct7 = inst.funct7
      OBVIOUS
    <3>3. Value(regs, inst.rs1) = Base
      BY <2>2
    <3> QED BY <2>1, <2>3, <3>1, <3>2, <3>3, AccessRuns
  <2>5. /\ inst' = inst /\ Borrowed' = s /\ Base' = Base /\ (InPlace' <=> InPlace)
        /\ Other(inst)' = Other(inst) /\ Value(guest, inst.rs1)' < dataOffset
    BY <1>v, <2>4, Rigid DEF Other
  <2>6. ip' = 11 /\ regs'[s] = dataOffset
    BY <1>0, <1>1, <2>1, <2>4
  <2>7. CASE b \in Other(inst)
    <3>1. {b} \ Other(inst)' = {}
      BY <2>5, <2>7
    <3>2. After({})'
      BY <2>4, <3>1
    <3>3. InPlaceAt'
      BY <2>5, <2>6, <2>7, <3>2 DEF InPlaceAt
    <3> QED BY <2>4, <2>5, <3>3 DEF AdjustedAt
  <2>8. CASE b \notin Other(inst)
    <3>1. {b} \ Other(inst)' = {b}
      BY <2>5, <2>8
    <3>2. After({b})'
      BY <2>4, <3>1
    <3>3. regs'[b] = Base'
      BY <1>0, <2>1, <2>4, <2>5, <2>8
    <3>4. InPlaceAt'
      BY <2>5, <2>6, <2>8, <3>2, <3>3 DEF InPlaceAt
    <3> QED BY <2>4, <2>5, <3>4 DEF AdjustedAt
  <2> QED BY <2>7, <2>8
<1>2. CASE ip = 11 /\ b \in Other(inst)
  <2>1. After({})
    BY <1>2 DEF InPlaceAt
  <2>2. inst.opcode = "LOAD" /\ Ran(Nop)
    BY <1>0, <1>2
  <2>3. GoesOn(1, regs, memory)
    BY <2>2, LibraryRuns DEF Stored
  <2>4. Stored' /\ After({})'
    BY <2>1, <2>3, Passing
  <2>5. ip' = Len(words') - 1 /\ left' = left /\ laidOut' = laidOut
    BY <1>0, <1>2, <2>3, Rigid, SMT DEF GoesOn
  <2> QED BY <2>4, <2>5 DEF AdjustedAt, AroundAt
<1>3. CASE ip = 11 /\ b \notin Other(inst)
  <2>1. After({b}) /\ regs[b] = Base /\ regs[s] = dataOffset
    BY <1>3 DEF InPlaceAt
  <2> PICK v \in Int : v = guest[b]
    BY <1>0
  <2>2. Ran(Sub(b, b, s))
    BY <1>0, <1>3
  <2>3. Value(regs, b) - Value(regs, s) = v
    <3>1. Value(guest, b) = v /\ Value(regs, b) = Base /\ Value(regs, s) = dataOffset
      BY <1>0, <2>1, RegisterFacts
    <3>2. Base = v + dataOffset
      BY <1>v, <3>1, AdjustedFacts
    <3> QED BY <3>1, <3>2, AddressAssumption, SMT
  <2>4. GoesOn(1, [regs EXCEPT ![b] = v], memory)
    <3>1. GoesOn(1, Written(regs, b, Value(regs, b) - Value(regs, s)), memory)
      BY <2>2, LibraryRuns DEF Stored
    <3>2. Written(regs, b, v) = [regs EXCEPT ![b] = v]
      BY <1>0, RegisterFacts DEF Written
    <3> QED BY <2>3, <3>1, <3>2
  <2>5. /\ ip' = 12 /\ left' = left /\ laidOut' = laidOut /\ Borrowed' = s
        /\ GuestRegs' = GuestRegs /\ GuestMemory' = GuestMemory /\ Parking' = Parking
        /\ guest' = guest /\ words' = words
        /\ memory' = memory /\ regs' = [regs EXCEPT ![b] = v]
    BY <1>3, <2>4, Rigid, SMT DEF GoesOn
  <2>6. Agree(GuestRegs, {SP, s} \cup {b}) /\ SameCells(memory, GuestMemory) /\ Parked
    BY <2>1 DEF After
  <2>7. GuestRegs[b] = v
    BY <1>0, <1>3, AdjustedFacts, GuestKeeps
  <2>8. /\ regs' \in [Reg -> Int] /\ regs'[s] = regs[s] /\ regs'[SP] = regs[SP]
        /\ \A n \in Reg \ {SP, s} : regs'[n] = GuestRegs[n]
    BY <1>0, <2>5, <2>6, <2>7, RegisterFacts DEF Stored, Agree
  <2>9. Parked'
    BY <2>5, <2>6, <2>8 DEF Parked
  <2>10. SameCells(memory, GuestMemory)'
    BY <2>5, <2>6 DEF SameCells
  <2>11. Agree(GuestRegs, {SP, Borrowed} \cup {})'
    BY <2>5, <2>8 DEF Agree
  <2>12. After({})'
    BY <2>9, <2>10, <2>11 DEF After
  <2>13. ip' = Len(words') - 1
    BY <1>0, <2>5, SMT
  <2>14. Stored'
    BY <2>5, <2>8 DEF Stored
  <2> QED BY <2>5, <2>12, <2>13, <2>14 DEF AdjustedAt, AroundAt
<1> QED BY <1>1, <1>2, <1>3 DEF InPlaceAt

(* An access with an adjusted base, word by word.                          *)
LEMMA AdjustedStep ==
  ASSUME Adjusted, words = LaidOut(inst), Stored, Running, Ran(words[ip]), AdjustedAt
  PROVE  AdjustedAt' /\ Stored' /\ left' = left /\ laidOut' = laidOut
<1>0. /\ Borrowed \in Reg /\ SP \in Reg /\ SP \notin Other(inst) /\ Borrowed \notin Other(inst)
      /\ Len(words) \in {12, 13}
  BY AdjustedFacts, WordsAround, RegisterFacts
<1>1. /\ GuestRegs \in [Reg -> Int]
      /\ GuestRegs[SP] = guest[SP] /\ GuestRegs[Borrowed] = guest[Borrowed]
  BY <1>0, AdjustedFacts, GuestKeeps DEF Adjusted
<1>2. CASE InPlace /\ InPlaceAt
  BY <1>2, InPlaceRuns
<1>3. CASE ~InPlace /\ CopyAt
  BY <1>3, AroundAccesses DEF AdjustedAt
<1>4. CASE AroundAt
  <2>1. ip \in 1..9 \/ ip \in (Len(words) - 1)..(Len(words) + 1)
    BY <1>0, <1>4, AroundPlaces
  <2>2. ip \in 1..Len(words)
    BY DEF Running
  <2>3. \/ ip \in 1..5 \/ ip \in {6, 8} \/ ip = 7 \/ ip = 9
        \/ ip = Len(words) - 1 \/ ip = Len(words)
    BY <1>0, <2>1, <2>2, SMT
  <2>4. CASE ip \in 1..5
    BY <1>4, <2>4, AroundOpens DEF AdjustedAt
  <2>5. CASE ip \in {6, 8}
    BY <1>4, <2>5, AroundTurns DEF AdjustedAt
  <2>6. CASE ip = 7
    BY <1>4, <2>6, AroundAccesses DEF AdjustedAt
  <2>7. CASE ip = 9
    BY <1>4, <2>7, AroundAdds
  <2>8. CASE ip = Len(words) - 1
    <3>1. After({})
      BY <1>0, <1>4, <2>8, AroundPlaces
    <3> QED BY <1>1, <2>8, <3>1, AroundCloses DEF AdjustedAt
  <2>9. CASE ip = Len(words)
    <3>1. After({}) /\ regs[Borrowed] = guest[Borrowed]
      BY <1>0, <1>4, <2>9, AroundPlaces
    <3> QED BY <1>1, <2>9, <3>1, AroundCloses DEF AdjustedAt
  <2> QED BY <2>3, <2>4, <2>5, <2>6, <2>7, <2>8, <2>9
<1> QED BY <1>2, <1>3, <1>4 DEF AdjustedAt

-----------------------------------------------------------------------------
(* An access as it is.                                                     *)
Plain ==
  /\ inst \in RvWord /\ guest \in [Reg -> Int]
  /\ Undisturbed /\ inst.opcode \in AccessOp /\ inst.rs1 = SP

(* It is laid out alone.                                                    *)
LEMMA PlainWords ==
  ASSUME Plain
  PROVE  LaidOut(inst) = <<inst>>
<1>0. inst.opcode \in {"LOAD", "STORE", "AMO"} /\ ~LR(inst) /\ ~SC(inst) /\ inst.rs1 = SP
  BY DEF Plain, AccessOp, Undisturbed
<1>1. Unreserved(inst) = inst /\ Success(inst) = << >>
  <2>1. Unreserved(inst) = inst
    BY <1>0, SMT DEF Unreserved
  <2> QED BY <1>0, <2>1 DEF Success
<1>2. CASE inst.opcode = "AMO" /\ ~single
  <2>1. LaidOut(inst) = <<inst>> \o << >>
    BY <1>0, <1>1, <1>2, SMT DEF LaidOut
  <2> QED BY <2>1
<1>3. CASE ~(inst.opcode = "AMO" /\ ~single)
  BY <1>0, <1>3, SMT DEF LaidOut
<1> QED BY <1>2, <1>3

(* The access itself.                                                       *)
LEMMA PlainStep ==
  ASSUME Plain, words = LaidOut(inst), Stored, Running, Ran(words[ip]), PlainAt
  PROVE  PlainAt' /\ Stored' /\ left' = left /\ laidOut' = laidOut
<1>0. words = <<inst>>
  BY PlainWords
<1>1. ip = 1 /\ words[ip] = inst
  BY <1>0, SMT DEF Running
<1>2. regs = guest /\ memory = NoMemory
  BY <1>1, SMT DEF PlainAt, Untouched
<1>3. inst.opcode \in AccessOp /\ inst.opcode # "AUIPC" /\ Value(regs, inst.rs1) = Base
  BY <1>2, RegisterFacts DEF Plain, AccessOp, Base
<1>4. GoesOn(1, AccessRegs(inst, Base, regs, memory), AccessMemory(inst, Base, regs, memory))
  BY <1>1, <1>3 DEF Ran
<1>5. regs' = GuestRegs /\ memory' = GuestMemory /\ ip' = 2 /\ left' = left /\ laidOut' = laidOut
  BY <1>1, <1>2, <1>3, <1>4 DEF GoesOn, GuestRegs, GuestMemory
<1>6. PlainAt'
  BY <1>5, Rigid DEF PlainAt
<1>7. Stored'
  <2>1. Base \in Int
    BY RegisterFacts DEF Plain, Base
  <2>2. ~LR(inst) /\ ~SC(inst) /\ Other(inst) \subseteq Reg \cup {ZERO}
    <3>1. Operands(inst) \subseteq Reg \cup {ZERO} /\ ~LR(inst) /\ ~SC(inst)
      BY <1>3 DEF Plain, Undisturbed
    <3> QED BY <1>3, <3>1 DEF Operands, Other, AccessOp
  <2>3. GuestRegs \in [Reg -> Int] /\ GuestMemory \in [DOMAIN GuestMemory -> Int]
    BY <1>3, <2>1, <2>2, GuestKeeps DEF Plain
  <2> QED BY <1>5, <2>3 DEF Stored
<1> QED BY <1>5, <1>6, <1>7

-----------------------------------------------------------------------------
(* The constant in place of an AUIPC.                                      *)
Constant ==
  /\ inst \in RvWord /\ guest \in [Reg -> Int] /\ Undisturbed /\ inst.opcode = "AUIPC"

(* Its three words.                                                         *)
LEMMA ConstantStep ==
  ASSUME Constant, words = LaidOut(inst), Stored, Running, Ran(words[ip]), AuipcAt
  PROVE  AuipcAt' /\ Stored' /\ left' = left /\ laidOut' = laidOut
<1> PICK d : d = inst.rd
  OBVIOUS
<1>0. d \in Reg \cup {ZERO} /\ inst \in RvWord /\ guest \in [Reg -> Int]
  BY DEF Constant, Undisturbed, Operands
<1> PICK v : v = PC + ImmU(inst)
  OBVIOUS
<1>1. v \in Int /\ v % 2 = 0 /\ -2147483647 - 1 <= v /\ v <= 2147483647
  <2>1. -2147483647 - 1 <= v /\ v <= 2147483647
    BY DEF Constant, Undisturbed
  <2> DEFINE u == inst.funct3 + 8 * inst.rs1 + 256 * inst.rs2
                     + 8192 * (inst.funct7 % 64) - Two19 * (inst.funct7 \div 64)
  <2>2. u \in Int /\ ImmU(inst) = 4096 * u
    <3>1. inst.funct3 \in Int /\ inst.rs1 \in Int /\ inst.rs2 \in Int /\ inst.funct7 \in Int
      BY <1>0, WordGroups, SMT
    <3> QED BY <3>1, SMT DEF ImmU, Two19
  <2> HIDE DEF u
  <2>3. v = PC + 4096 * u
    BY <2>2
  <2>4. v \in Int /\ v % 2 = 0
    BY <2>2, <2>3, AddressAssumption, AlignmentAssumption, SMT
  <2> QED BY <2>1, <2>4
<1>2. words = <<LuiWord(v, d), AddiWord(v, d), AddiWord(v, d)>>
  <2>1. decode_Utype(inst).rd = d
    BY DEF decode_Utype
  <2>2. 4096 * SignExtended(decode_Utype(inst).imm, Two20) = ImmU(inst)
    <3>1. inst.opcode \in UTypeOp /\ inst.opcode \notin ITypeOp
      BY DEF Constant, UTypeOp, ITypeOp
    <3>2. decode_instruction(inst) = decode_Utype(inst)
      BY <3>1, DecodeCases
    <3>3. DecodesAsHardware(inst)
      BY <1>0, DecodedImmediate
    <3> QED BY <3>1, <3>2, <3>3, SMT DEF DecodesAsHardware, Constant
  <2>3. ReplacedAuipc(inst) = insertLi(v, d)
    BY <2>1, <2>2 DEF ReplacedAuipc
  <2>4. LaidOut(inst) = ReplacedAuipc(inst)
    BY SMT DEF LaidOut, Constant
  <2> QED BY <1>1, <2>3, <2>4, LiReads
<1>3. /\ LuiWord(v, d).opcode = "LUI" /\ LuiWord(v, d).rd = d
      /\ ImmU(LuiWord(v, d)) = Page(v)
      /\ AddiWord(v, d).opcode = "OPIMM" /\ AddiWord(v, d).rd = d
      /\ AddiWord(v, d).rs1 = d /\ ImmI(AddiWord(v, d)) = Half(v)
      /\ Page(v) \in Int /\ Half(v) \in Int /\ Page(v) + Half(v) + Half(v) = v
  BY <1>1, LiReads
<1>4. memory = NoMemory
  BY DEF AuipcAt
<1>5. ASSUME NEW x \in Int, GoesOn(1, Written(guest, d, x), memory)
      PROVE  /\ Stored' /\ left' = left /\ laidOut' = laidOut /\ ip' = ip + 1
             /\ regs' = Written(guest', inst'.rd, x) /\ memory' = NoMemory
  <2>1. Written(guest, d, x) \in [Reg -> Int]
    BY <1>0 DEF Written
  <2>2. NoMemory \in [DOMAIN NoMemory -> Int]
    BY DEF NoMemory
  <2>3. /\ regs' = Written(guest, d, x) /\ memory' = NoMemory
        /\ left' = left /\ laidOut' = laidOut /\ ip' = ip + 1
    BY <1>4, <1>5 DEF GoesOn
  <2> QED BY <2>1, <2>2, <2>3, Rigid DEF Stored
<1>6. ASSUME NEW x \in Int, NEW y \in Int, y = x + Half(v), regs = Written(guest, d, x),
             Ran(AddiWord(v, d))
      PROVE  GoesOn(1, Written(guest, d, y), memory)
  <2> PICK h \in Int : h = Half(v)
    BY <1>3
  <2>1. GoesOn(1, Written(regs, d, Value(regs, d) + h), memory)
    BY <1>3, <1>6 DEF Ran
  <2>2. CASE d = ZERO
    BY <1>6, <2>1, <2>2 DEF Written
  <2>3. CASE d # ZERO
    <3>1. regs = [guest EXCEPT ![d] = x] /\ d \in Reg
      BY <1>0, <1>6, <2>3 DEF Written
    <3>2. Value(regs, d) = x
      BY <1>0, <2>3, <3>1 DEF Value
    <3>3. Value(regs, d) + h = y
      BY <1>6, <3>2
    <3>4. \A z : Written(regs, d, z) = Written(guest, d, z)
      BY <1>0, <2>3, <3>1 DEF Written
    <3> QED BY <2>1, <3>3, <3>4
  <2> QED BY <2>2, <2>3
<1>p. Page(v) + Half(v) \in Int
  BY <1>3, SMT
<1>7. CASE ip = 1
  <2>1. regs = guest
    BY <1>7, SMT DEF AuipcAt
  <2>2. Ran(LuiWord(v, d))
    BY <1>2, <1>7
  <2>3. GoesOn(1, Written(guest, d, Page(v)), memory)
    BY <1>3, <2>1, <2>2 DEF Ran
  <2>4. /\ Stored' /\ left' = left /\ laidOut' = laidOut /\ ip' = 2
        /\ regs' = Written(guest', inst'.rd, Page(v)) /\ memory' = NoMemory
    BY <1>3, <1>5, <1>7, <2>3
  <2> QED BY <2>4, Rigid DEF AuipcAt
<1>8. CASE ip = 2
  <2>1. regs = Written(guest, d, Page(v))
    BY <1>8, SMT DEF AuipcAt
  <2>2. Ran(AddiWord(v, d))
    BY <1>2, <1>8
  <2>3. GoesOn(1, Written(guest, d, Page(v) + Half(v)), memory)
    BY <1>3, <1>6, <1>p, <2>1, <2>2
  <2>4. /\ Stored' /\ left' = left /\ laidOut' = laidOut /\ ip' = 3
        /\ regs' = Written(guest', inst'.rd, Page(v) + Half(v)) /\ memory' = NoMemory
    BY <1>p, <1>5, <1>8, <2>3
  <2> QED BY <2>4, Rigid DEF AuipcAt
<1>9. CASE ip = 3
  <2>1. regs = Written(guest, d, Page(v) + Half(v))
    BY <1>9, SMT DEF AuipcAt
  <2>2. Ran(AddiWord(v, d))
    BY <1>2, <1>9
  <2>3. GoesOn(1, Written(guest, d, v), memory)
    BY <1>1, <1>3, <1>6, <1>p, <2>1, <2>2
  <2>4. /\ Stored' /\ left' = left /\ laidOut' = laidOut /\ ip' = 4
        /\ regs' = Written(guest', inst'.rd, v) /\ memory' = NoMemory
    BY <1>1, <1>5, <1>9, <2>3
  <2> QED BY <2>4, Rigid DEF AuipcAt
<1>10. ip \in 1..3
  BY <1>2, SMT DEF Running
<1> QED BY <1>7, <1>8, <1>9, <1>10

-----------------------------------------------------------------------------
(* A branch's exits, the branch among them.                                *)
Exiting ==
  /\ inst \in RvWord /\ guest \in [Reg -> Int] /\ Undisturbed /\ inst.opcode = "BRANCH"

(* The jump to the host, and the branch over the first exit.                *)
Jalr == encode_Itype([opcode |-> "JALR", rd |-> ZERO, funct3 |-> 0, rs1 |-> T6, imm |-> 0])

Skip == encode_Btype([decode_Btype(inst) EXCEPT !.imm = 20])

(* The words of the exits.                                                 *)
LEMMA ExitWords ==
  ASSUME Exiting, words = LaidOut(inst)
  PROVE  /\ Len(words) = 11 /\ words[1] = MoveSP(-16) /\ words[2] = SaveWord(T6)
         /\ words[3] = Skip
         /\ words[4] = LuiWord(ContextSwitch, T6)
         /\ words[5] = AddiWord(ContextSwitch, T6) /\ words[6] = AddiWord(ContextSwitch, T6)
         /\ words[7] = Jalr
         /\ words[8] = LuiWord(ContextSwitchTaken, T6)
         /\ words[9] = AddiWord(ContextSwitchTaken, T6)
         /\ words[10] = AddiWord(ContextSwitchTaken, T6)
         /\ words[11] = Jalr
<1> PICK W : W = words
  OBVIOUS
<1> PICK sp, sv, br, jr : sp = MoveSP(-16) /\ sv = SaveWord(T6) /\ br = Skip /\ jr = Jalr
  OBVIOUS
<1> PICK u1, a1 : u1 = LuiWord(ContextSwitch, T6) /\ a1 = AddiWord(ContextSwitch, T6)
  OBVIOUS
<1> PICK u2, a2 : u2 = LuiWord(ContextSwitchTaken, T6) /\ a2 = AddiWord(ContextSwitchTaken, T6)
  OBVIOUS
<1>1. inline_save(T6) = <<sp, sv>>
  BY ParkingReads
<1>2. /\ insertLi(ContextSwitch, T6) = <<u1, a1, a1>>
      /\ insertLi(ContextSwitchTaken, T6) = <<u2, a2, a2>>
  BY DEF insertLi, LuiWord, AddiWord
<1>3. JalrT6 = <<jr>>
  BY DEF JalrT6, Jalr
<1>4. W = <<sp, sv>> \o <<br>> \o <<u1, a1, a1>> \o <<jr>> \o <<u2, a2, a2>> \o <<jr>>
  <2>1. BranchExit(inst) = <<sp, sv>> \o <<br>> \o <<u1, a1, a1>> \o <<jr>>
                             \o <<u2, a2, a2>> \o <<jr>>
    BY <1>1, <1>2, <1>3 DEF BranchExit, Skip
  <2>2. LaidOut(inst) = BranchExit(inst)
    BY SMT DEF LaidOut, Exiting
  <2> QED BY <2>1, <2>2
<1>5. /\ Len(W) = 11 /\ W[1] = sp /\ W[2] = sv /\ W[3] = br
      /\ W[4] = u1 /\ W[5] = a1 /\ W[6] = a1 /\ W[7] = jr
      /\ W[8] = u2 /\ W[9] = a2 /\ W[10] = a2 /\ W[11] = jr
  BY <1>4, SMT
<1> QED BY <1>5, Zenon

(* What the branch and the jump of an exit do.                             *)
LEMMA ExitRuns ==
  ASSUME Exiting, Stored
  PROVE  /\ Ran(Skip) => GoesOn(IF Taken(inst, Value(regs, inst.rs1), Value(regs, inst.rs2))
                                 THEN 5 ELSE 1, regs, memory)
         /\ Ran(Jalr) => /\ left' = regs[T6] /\ ip' = ip /\ regs' = regs /\ memory' = memory
                         /\ laidOut' = laidOut
<1>1. ASSUME Ran(Skip)
      PROVE  GoesOn(IF Taken(inst, Value(regs, inst.rs1), Value(regs, inst.rs2))
                     THEN 5 ELSE 1, regs, memory)
  <2> PICK x, y : x = Value(regs, inst.rs1) /\ y = Value(regs, inst.rs2)
    OBVIOUS
  <2> DEFINE w == Skip
  <2>1. /\ w.opcode = "BRANCH" /\ w.funct3 = inst.funct3 /\ w.rs1 = inst.rs1 /\ w.rs2 = inst.rs2
        /\ ImmB(w) = 20
    BY SMT DEF Skip, encode_Btype, decode_Btype, ImmB, Exiting
  <2> HIDE DEF w
  <2>2. Taken(w, x, y) <=> Taken(inst, x, y)
    BY <2>1 DEF Taken
  <2>3. Ran(w)
    BY <1>1 DEF w
  <2>4. GoesOn((IF Taken(inst, x, y) THEN 20 ELSE 4) \div 4, regs, memory)
    BY <2>1, <2>2, <2>3 DEF Ran
  <2> QED BY <2>4, SMT DEF GoesOn
<1>2. ASSUME Ran(Jalr)
      PROVE  /\ left' = regs[T6] /\ ip' = ip /\ regs' = regs /\ memory' = memory
             /\ laidOut' = laidOut
  <2> DEFINE w == Jalr
  <2>1. w.opcode = "JALR" /\ w.rs1 = T6 /\ ImmI(w) = 0
    BY SMT DEF Jalr, encode_Itype, ImmI
  <2> HIDE DEF w
  <2>2. Ran(w)
    BY <1>2 DEF w
  <2>3. Value(regs, T6) = regs[T6] /\ regs[T6] \in Int
    BY RegisterFacts DEF Stored
  <2>4. regs[T6] + 0 = regs[T6]
    BY <2>3, SMT
  <2> QED BY <2>1, <2>2, <2>3, <2>4 DEF Ran
<1> QED BY <1>1, <1>2

(* One of the exits: a constant loaded into T6, and the jump to it.        *)
LEMMA ExitStep ==
  ASSUME Exiting, Stored, NEW k \in {4, 8}, NEW h \in {ContextSwitch, ContextSwitchTaken},
         words[k] = LuiWord(h, T6), words[k + 1] = AddiWord(h, T6),
         words[k + 2] = AddiWord(h, T6), words[k + 3] = Jalr,
         left = 0, Ran(words[ip]), Before({}), ExitAt(k, h)
  PROVE  Stored' /\ Before({})' /\ ExitAt(k, h)' /\ laidOut' = laidOut
<1>0. Borrowed = T6 /\ T6 \in Reg /\ T6 # SP
  BY RegisterFacts DEF Borrowed, Exiting
<1>1. h \in Int /\ h % 2 = 0 /\ -2147483647 - 1 <= h /\ h <= 2147483647
  BY SMT DEF ContextSwitch, ContextSwitchTaken
<1> PICK p : p = Page(h)
  OBVIOUS
<1> PICK q : q = Page(h) + Half(h)
  OBVIOUS
<1>2. \/ ip = k
      \/ ip = k + 1 /\ regs[T6] = p
      \/ ip = k + 2 /\ regs[T6] = q
      \/ ip = k + 3 /\ regs[T6] = h
  BY DEF ExitAt
<1>3. CASE ip = k
  <2>1. GoesOn(1, regs', memory) /\ Stored' /\ Before({})' /\ regs'[T6] = p
    BY <1>0, <1>1, <1>3, Loading
  <2>2. ip' = k + 1 /\ left' = 0 /\ laidOut' = laidOut
    BY <1>3, <2>1 DEF GoesOn
  <2> QED BY <2>1, <2>2 DEF ExitAt
<1>4. CASE ip = k + 1 /\ regs[T6] = p
  <2>1. GoesOn(1, regs', memory) /\ Stored' /\ Before({})' /\ regs'[T6] = q
    BY <1>0, <1>1, <1>4, Loading
  <2>2. ip' = k + 2 /\ left' = 0 /\ laidOut' = laidOut
    BY <1>4, <2>1, SMT DEF GoesOn
  <2> QED BY <2>1, <2>2 DEF ExitAt
<1>5. CASE ip = k + 2 /\ regs[T6] = q
  <2>1. GoesOn(1, regs', memory) /\ Stored' /\ Before({})' /\ regs'[T6] = h
    BY <1>0, <1>1, <1>5, Loading
  <2>2. ip' = k + 3 /\ left' = 0 /\ laidOut' = laidOut
    BY <1>5, <2>1, SMT DEF GoesOn
  <2> QED BY <2>1, <2>2 DEF ExitAt
<1>6. CASE ip = k + 3 /\ regs[T6] = h
  <2>1. left' = h /\ ip' = ip /\ regs' = regs /\ memory' = memory /\ laidOut' = laidOut
    BY <1>6, ExitRuns
  <2>2. Stored' /\ Before({})'
    <3>1. Before({}) => Before({})'
      BY <2>1, Rigid DEF Before, Agree, SameCells, Parked
    <3> QED BY <2>1, <3>1 DEF Stored
  <2> QED BY <1>6, <2>1, <2>2 DEF ExitAt
<1> QED BY <1>2, <1>3, <1>4, <1>5, <1>6

(* A branch's exits, word by word.                                         *)
LEMMA BranchStep ==
  ASSUME Exiting, words = LaidOut(inst), Stored, Running, Ran(words[ip]), BranchAt
  PROVE  BranchAt' /\ Stored' /\ laidOut' = laidOut
<1>0. /\ Borrowed = T6 /\ T6 \in Reg /\ T6 # SP /\ guest \in [Reg -> Int] /\ left = 0
      /\ inst.rs1 \in Reg \cup {ZERO} /\ inst.rs2 \in Reg \cup {ZERO}
      /\ inst.rs1 # SP /\ inst.rs2 # SP
  BY RegisterFacts DEF Borrowed, Exiting, Undisturbed, Operands, Running
<1>1. \/ ip = 1 /\ Untouched
      \/ ip = 2 /\ Lowered
      \/ ip = 3 /\ Before({}) /\ regs[T6] = guest[T6]
      \/ ~BranchGoes /\ Before({}) /\ ExitAt(4, ContextSwitch)
      \/ BranchGoes /\ Before({}) /\ ExitAt(8, ContextSwitchTaken)
  BY DEF BranchAt
<1>2. CASE ip = 1 /\ Untouched
  <2>1. Ran(MoveSP(-16))
    BY <1>2, ExitWords
  <2>2. Stored' /\ Lowered' /\ ip' = 2 /\ left' = left /\ laidOut' = laidOut
    BY <1>0, <1>2, <2>1, Saving
  <2> QED BY <1>0, <2>2 DEF BranchAt
<1>3. CASE ip = 2 /\ Lowered
  <2>1. Ran(SaveWord(Borrowed))
    BY <1>0, <1>3, ExitWords
  <2>2. /\ Stored' /\ Before({})' /\ ip' = 3 /\ left' = left /\ laidOut' = laidOut
        /\ regs'[T6] = guest[T6]
    BY <1>0, <1>3, <2>1, Saving
  <2>3. guest' = guest
    BY <2>2, Rigid
  <2> QED BY <1>0, <2>2, <2>3 DEF BranchAt
<1>4. CASE ip = 3 /\ Before({}) /\ regs[T6] = guest[T6]
  <2>1. /\ Value(regs, inst.rs1) = Value(guest, inst.rs1)
        /\ Value(regs, inst.rs2) = Value(guest, inst.rs2)
    <3>1. Agree(guest, {SP, T6} \cup {})
      BY <1>0, <1>4 DEF Before
    <3>2. \A n \in Reg \ {SP} : regs[n] = guest[n]
      BY <1>4, <3>1 DEF Agree
    <3> QED BY <1>0, <3>2, RegisterFacts DEF Value
  <2>2. GoesOn(IF BranchGoes THEN 5 ELSE 1, regs, memory)
    <3>1. Ran(Skip)
      BY <1>4, ExitWords
    <3> QED BY <2>1, <3>1, ExitRuns DEF BranchGoes
  <2>3. Stored' /\ Before({})'
    BY <1>4, <2>2, Passing
  <2>4. /\ ip' = 3 + (IF BranchGoes THEN 5 ELSE 1) /\ left' = 0 /\ laidOut' = laidOut
        /\ (BranchGoes' <=> BranchGoes)
    BY <1>0, <1>4, <2>2, Rigid DEF GoesOn
  <2>5. CASE BranchGoes
    <3>1. ip' = 8
      BY <2>4, <2>5, SMT
    <3> QED BY <2>3, <2>4, <2>5, <3>1 DEF BranchAt, ExitAt
  <2>6. CASE ~BranchGoes
    <3>1. ip' = 4
      BY <2>4, <2>6, SMT
    <3> QED BY <2>3, <2>4, <2>6, <3>1 DEF BranchAt, ExitAt
  <2> QED BY <2>5, <2>6
<1>5. CASE ~BranchGoes /\ Before({}) /\ ExitAt(4, ContextSwitch)
  <2>1. Stored' /\ Before({})' /\ ExitAt(4, ContextSwitch)' /\ laidOut' = laidOut
    BY <1>0, <1>5, ExitWords, ExitStep
  <2> QED BY <1>5, <2>1, Rigid DEF BranchAt
<1>6. CASE BranchGoes /\ Before({}) /\ ExitAt(8, ContextSwitchTaken)
  <2>1. Stored' /\ Before({})' /\ ExitAt(8, ContextSwitchTaken)' /\ laidOut' = laidOut
    BY <1>0, <1>6, ExitWords, ExitStep
  <2> QED BY <1>6, <2>1, Rigid DEF BranchAt
<1> QED BY <1>1, <1>2, <1>3, <1>4, <1>5, <1>6

-----------------------------------------------------------------------------
(* The four kinds of sequence.                                             *)
LEMMA Kinds ==
  ASSUME inst \in RvWord, guest \in [Reg -> Int], Undisturbed
  PROVE  /\ Exiting \/ Constant \/ Plain \/ Adjusted
         /\ Exiting  => (SequenceAt <=> BranchAt)
         /\ Constant => (SequenceAt <=> AuipcAt /\ left = 0)
         /\ Plain    => (SequenceAt <=> PlainAt /\ left = 0)
         /\ Adjusted => (SequenceAt <=> AdjustedAt /\ left = 0)
<1>1. inst.opcode \in {"LOAD", "STORE", "AMO", "AUIPC", "BRANCH"}
  BY DEF Undisturbed, AccessOp
<1>2. Exiting \/ Constant \/ Plain \/ Adjusted
  BY <1>1 DEF Exiting, Constant, Plain, Adjusted, AccessOp
<1>3. Exiting => (SequenceAt <=> BranchAt)
  BY SMT DEF Exiting, SequenceAt, AccessOp
<1>4. Constant => (SequenceAt <=> AuipcAt /\ left = 0)
  BY SMT DEF Constant, SequenceAt, AccessOp
<1>5. Plain => (SequenceAt <=> PlainAt /\ left = 0)
  BY <1>1, SMT DEF Plain, SequenceAt, AccessOp
<1>6. Adjusted => (SequenceAt <=> AdjustedAt /\ left = 0)
  <2>1. Adjusted => /\ inst.opcode # "BRANCH" /\ inst.opcode # "AUIPC"
                    /\ inst.opcode \in AccessOp /\ inst.rs1 # SP
    BY <1>1 DEF Adjusted, AccessOp
  <2> QED BY <2>1, Zenon DEF SequenceAt, AdjustedAt
<1> QED BY <1>2, <1>3, <1>4, <1>5, <1>6

(* A sequence begins with the guest's state.                               *)
LEMMA SequenceBegins ==
  inst \in RvWord /\ guest \in [Reg -> Int] /\ Undisturbed /\ ip = 1 /\ Untouched /\ left = 0
    => Stored /\ SequenceAt
<1> SUFFICES ASSUME inst \in RvWord, guest \in [Reg -> Int], Undisturbed,
                    ip = 1, Untouched, left = 0
             PROVE  Stored /\ SequenceAt
  OBVIOUS
<1>1. Stored
  BY DEF Stored, Untouched, NoMemory
<1>2. BranchAt /\ AuipcAt /\ PlainAt /\ AdjustedAt
  BY DEF BranchAt, AuipcAt, PlainAt, AdjustedAt, AroundAt, Untouched
<1> QED BY <1>1, <1>2, Kinds

(* A step that changes nothing.                                            *)
LEMMA SequenceStays ==
  ASSUME UNCHANGED vars
  PROVE  SequenceInv => SequenceInv'
<1>1. /\ ip' = ip /\ regs' = regs /\ memory' = memory /\ left' = left /\ UNCHANGED laidOut
  BY DEF vars, laidOut
<1>2. /\ inst' = inst /\ single' = single /\ guest' = guest /\ words' = words
      /\ (Undisturbed' <=> Undisturbed) /\ (InPlace' <=> InPlace)
      /\ (BranchGoes' <=> BranchGoes)
      /\ Borrowed' = Borrowed /\ Parking' = Parking /\ Base' = Base
      /\ GuestRegs' = GuestRegs /\ GuestMemory' = GuestMemory
      /\ LaidOut(inst)' = LaidOut(inst)
  BY <1>1, Rigid
<1>3. ASSUME NEW X
      PROVE  (Before(X)' <=> Before(X)) /\ (After(X)' <=> After(X))
  BY <1>1, <1>2 DEF Before, After, Agree, SameCells, Parked
<1>4. (Untouched' <=> Untouched) /\ (Lowered' <=> Lowered)
      /\ (SameCells(memory, GuestMemory)' <=> SameCells(memory, GuestMemory))
  BY <1>1, <1>2 DEF Untouched, Lowered, SameCells
<1>5. PlainAt' <=> PlainAt
  BY <1>1, <1>2, <1>4 DEF PlainAt
<1>6. AuipcAt' <=> AuipcAt
  BY <1>1, <1>2 DEF AuipcAt
<1>7. BranchAt' <=> BranchAt
  BY <1>1, <1>2, <1>3, <1>4 DEF BranchAt, ExitAt
<1>8. (Before({})' <=> Before({})) /\ (After({})' <=> After({}))
  BY <1>3
<1>9. AroundAt' <=> AroundAt
  BY <1>1, <1>2, <1>4, <1>8, Zenon DEF AroundAt
<1>10. CopyAt' <=> CopyAt
  BY <1>1, <1>2, <1>8 DEF CopyAt
<1>11. InPlaceAt' <=> InPlaceAt
  <2> PICK b : b = inst.rs1
    OBVIOUS
  <2>1. (Before({b})' <=> Before({b})) /\ (After({b})' <=> After({b}))
    BY <1>3
  <2>2. Before({inst.rs1})' = Before({b})' /\ After({inst.rs1})' = After({b})'
    BY <1>2
  <2>3. Other(inst)' = Other(inst)
    BY <1>2 DEF Other
  <2> QED BY <1>1, <1>2, <1>8, <2>1, <2>2, <2>3 DEF InPlaceAt
<1>12. SequenceAt' <=> SequenceAt
  BY <1>1, <1>2, <1>5, <1>6, <1>7, <1>9, <1>10, <1>11, Zenon DEF SequenceAt
<1> QED BY <1>1, <1>2, <1>4, <1>12 DEF SequenceInv

(* Every word leaves the state as the next one's place says.               *)
LEMMA SequenceStep ==
  ASSUME inst \in RvWord, guest \in [Reg -> Int], Undisturbed, words = LaidOut(inst),
         Stored, SequenceAt, Running, Ran(words[ip])
  PROVE  Stored' /\ SequenceAt' /\ UNCHANGED laidOut
<1>0. left = 0
  BY DEF Running
<1>1. CASE Exiting
  <2>1. Stored' /\ BranchAt' /\ UNCHANGED laidOut
    BY <1>1, Kinds, BranchStep
  <2>2. inst' = inst /\ inst.opcode = "BRANCH"
    BY <1>1, <2>1, Rigid DEF Exiting
  <2> QED BY <2>1, <2>2, SMT DEF SequenceAt, AccessOp
<1>2. CASE Constant
  <2>1. Stored' /\ AuipcAt' /\ left' = 0 /\ UNCHANGED laidOut
    BY <1>0, <1>2, Kinds, ConstantStep
  <2>2. inst' = inst /\ inst.opcode = "AUIPC"
    BY <1>2, <2>1, Rigid DEF Constant
  <2> QED BY <2>1, <2>2, SMT DEF SequenceAt, AccessOp
<1>3. CASE Plain
  <2>1. Stored' /\ PlainAt' /\ left' = 0 /\ UNCHANGED laidOut
    BY <1>0, <1>3, Kinds, PlainStep
  <2>2. inst' = inst /\ inst.opcode \in {"LOAD", "STORE", "AMO"} /\ inst.rs1 = SP
    BY <1>3, <2>1, Rigid DEF Plain, AccessOp
  <2> QED BY <2>1, <2>2, SMT DEF SequenceAt, AccessOp
<1>4. CASE Adjusted
  <2>1. Stored' /\ AdjustedAt' /\ left' = 0 /\ UNCHANGED laidOut
    BY <1>0, <1>4, Kinds, AdjustedStep
  <2>2. inst' = inst /\ inst.opcode \in {"LOAD", "STORE", "AMO"} /\ inst.rs1 # SP
    BY <1>4, <2>1, Rigid DEF Adjusted, AccessOp
  <2>3. /\ inst'.opcode # "BRANCH" /\ inst'.opcode # "AUIPC"
        /\ inst'.opcode \in AccessOp /\ inst'.rs1 # SP
    BY <2>2 DEF AccessOp
  <2> QED BY <2>1, <2>3, Zenon DEF SequenceAt, AdjustedAt
<1> QED BY <1>1, <1>2, <1>3, <1>4, Kinds

(* SequenceInv holds of every state.                                       *)
LEMMA SequenceInvariant == Spec => []SequenceInv
<1>b. (inst \in RvWord /\ guest \in [Reg -> Int] /\ Undisturbed /\ ip = 1 /\ Untouched /\ left = 0
         => Stored /\ SequenceAt)'
  BY SequenceBegins, PTL
<1>1. Init => SequenceInv
  <2> SUFFICES ASSUME Init PROVE SequenceInv
    OBVIOUS
  <2>1. guest \in [Reg -> Int]
    BY InitialRegsAssumption DEF Init
  <2>2. words = << >> /\ ip = 1 /\ Untouched /\ left = 0
    BY DEF Init, Untouched, NoMemory
  <2> QED BY <2>1, <2>2 DEF SequenceInv
<1>2. WordsInv /\ SequenceInv /\ [Next]_vars => SequenceInv'
  <2> SUFFICES ASSUME WordsInv, SequenceInv, [Next]_vars PROVE SequenceInv'
    OBVIOUS
  <2>0. inst \in RvWord /\ guest \in [Reg -> Int]
    BY DEF WordsInv, SequenceInv
  <2>1. CASE words = << >>
    <3>1. ip = 1 /\ Untouched /\ left = 0
      BY <2>1 DEF SequenceInv
    <3>2. ~Running /\ ~Finished
      BY <2>1 DEF Running, Finished
    <3>3. Allocate \/ UNCHANGED vars
      BY <3>2 DEF Next, Step, RunOpImm, RunLui, RunOp, RunAccess, RunBranch, RunJal, RunJalr,
                  At, Finish
    <3>4. CASE UNCHANGED vars
      <4>1. words' = << >> /\ ip' = 1 /\ Untouched' /\ left' = 0 /\ guest' = guest
        BY <2>1, <3>1, <3>4 DEF vars, Untouched
      <4> QED BY <2>0, <4>1 DEF SequenceInv
    <3>5. CASE Allocate
      <4>1. /\ inst' = inst /\ single' = single /\ guest' = guest /\ ip' = 1 /\ left' = 0
            /\ Untouched' /\ words' = LaidOut(inst)'
        BY <3>1, <3>5 DEF Allocate, Untouched, LaidOut
      <4>2. Undisturbed' => Stored' /\ SequenceAt'
        <5>1. inst' \in RvWord /\ guest' \in [Reg -> Int]
          BY <2>0, <4>1
        <5> QED BY <1>b, <4>1, <5>1
      <4> QED BY <2>0, <4>1, <4>2 DEF SequenceInv, Stored
    <3> QED BY <3>3, <3>4, <3>5
  <2>2. CASE words # << >>
    <3>1. UNCHANGED vars \/ (Running /\ Ran(word) /\ UNCHANGED laidOut)
      BY <2>2, StepRuns
    <3>2. CASE UNCHANGED vars
      BY <3>2, SequenceStays
    <3>3. CASE Running /\ Ran(word) /\ UNCHANGED laidOut
      <4>1. guest' = guest /\ words' = words /\ (Undisturbed' <=> Undisturbed)
            /\ LaidOut(inst)' = LaidOut(inst)
        BY <3>3, Rigid
      <4>2. CASE ~Undisturbed
        BY <2>0, <2>2, <4>1, <4>2 DEF SequenceInv
      <4>3. CASE Undisturbed
        <5>1. words = LaidOut(inst) /\ Stored /\ SequenceAt
          BY <2>2, <4>3 DEF SequenceInv, Stored
        <5>2. Stored' /\ SequenceAt'
          BY <2>0, <3>3, <4>3, <5>1, SequenceStep DEF word
        <5> QED BY <2>0, <2>2, <4>1, <5>1, <5>2 DEF SequenceInv, Stored
      <4> QED BY <4>2, <4>3
    <3> QED BY <3>1, <3>2, <3>3
  <2> QED BY <2>1, <2>2
<1> QED BY <1>1, <1>2, WordsInvariant, PTL DEF Spec

-----------------------------------------------------------------------------
(* What a sequence that is over has done.                                  *)
LEMMA SequenceEnded ==
  ASSUME inst \in RvWord, guest \in [Reg -> Int], Undisturbed, words = LaidOut(inst),
         SequenceAt, Finished
  PROVE  ResultMatchesGuest /\ ExitMatchesGuest
<1>1. CASE Exiting
  <2>0. Borrowed = T6 /\ inst.opcode = "BRANCH" /\ Len(words) = 11
    BY <1>1, ExitWords DEF Borrowed, Exiting
  <2>1. BranchAt
    BY <1>1, Kinds
  <2>2. ip # 12
    BY <2>1, SMT DEF BranchAt, ExitAt
  <2>3. left # 0
    BY <2>0, <2>2, SMT DEF Finished
  <2>4. /\ Before({})
        /\ left = IF BranchGoes THEN ContextSwitchTaken ELSE ContextSwitch
    BY <2>1, <2>3 DEF BranchAt, ExitAt
  <2>5. \A r \in Reg \ {T6, SP} : regs[r] = guest[r]
    BY <2>0, <2>4 DEF Before, Agree
  <2>6. regs[SP] = Parking /\ Cell(memory, Parking) = guest[T6]
    BY <2>0, <2>4 DEF Before, Parked
  <2>7. ExitMatchesGuest
    BY <2>4, <2>5, <2>6 DEF ExitMatchesGuest, BranchGoes
  <2> QED BY <2>0, <2>7 DEF ResultMatchesGuest
<1>2. CASE Constant
  <2>1. AuipcAt /\ left = 0 /\ inst.opcode = "AUIPC"
    BY <1>2, Kinds DEF Constant
  <2>2. Len(words) = 3
    <3>1. LaidOut(inst) = ReplacedAuipc(inst)
      BY <2>1, SMT DEF LaidOut
    <3> QED BY <3>1, SMT DEF ReplacedAuipc, insertLi
  <2>3. ip = 4
    BY <2>1, <2>2, SMT DEF Finished
  <2>4. regs = GuestRegs /\ memory = NoMemory
    BY <2>1, <2>3, SMT DEF AuipcAt, GuestRegs
  <2>5. GuestMemory = NoMemory
    BY <2>1, SMT DEF GuestMemory, AccessMemory, SC
  <2>6. SameMemory
    BY <2>4, <2>5 DEF SameMemory
  <2> QED BY <2>1, <2>4, <2>6 DEF ResultMatchesGuest, ExitMatchesGuest
<1>3. CASE Plain
  <2>1. PlainAt /\ left = 0 /\ inst.opcode # "BRANCH"
    BY <1>3, Kinds DEF Plain, AccessOp
  <2>2. ip = 2
    <3>1. words = <<inst>>
      BY <1>3, PlainWords
    <3>2. Len(words) = 1
      BY <3>1
    <3> QED BY <2>1, <3>2, SMT DEF Finished
  <2>3. regs = GuestRegs /\ memory = GuestMemory
    BY <2>1, <2>2, SMT DEF PlainAt
  <2>4. SameMemory
    BY <2>3 DEF SameMemory
  <2> QED BY <2>1, <2>3, <2>4 DEF ResultMatchesGuest, ExitMatchesGuest
<1>4. CASE Adjusted
  <2>1. AdjustedAt /\ left = 0 /\ inst.opcode # "BRANCH"
    BY <1>4, Kinds DEF Adjusted, AccessOp
  <2>2. Len(words) = IF InPlace THEN 13 ELSE 12
    BY <1>4, WordsAround
  <2>3. ip = Len(words) + 1
    BY <2>1 DEF Finished
  <2>4. AroundAt
    BY <2>1, <2>2, <2>3, SMT DEF AdjustedAt, InPlaceAt, CopyAt
  <2>5. regs = GuestRegs /\ SameCells(memory, GuestMemory)
    BY <2>2, <2>3, <2>4, AroundPlaces
  <2> QED BY <2>1, <2>5 DEF ResultMatchesGuest, ExitMatchesGuest, SameMemory, SameCells
<1> QED BY <1>1, <1>2, <1>3, <1>4, Kinds

(* Both properties, wherever the library is given what it needs.            *)
LEMMA SequencesCorrect == Spec => [](Undisturbed => ResultMatchesGuest /\ ExitMatchesGuest)
<1>1. WordsInv /\ SequenceInv => (Undisturbed => ResultMatchesGuest /\ ExitMatchesGuest)
  <2> SUFFICES ASSUME WordsInv, SequenceInv, Undisturbed
               PROVE  ResultMatchesGuest /\ ExitMatchesGuest
    OBVIOUS
  <2>1. CASE ~Finished
    BY <2>1 DEF ResultMatchesGuest, ExitMatchesGuest
  <2>2. CASE Finished
    <3>1. words = LaidOut(inst) /\ SequenceAt
      BY <2>2 DEF Finished, SequenceInv
    <3> QED BY <2>2, <3>1, SequenceEnded DEF WordsInv, SequenceInv
  <2> QED BY <2>1, <2>2
<1> QED BY <1>1, WordsInvariant, SequenceInvariant, PTL

(* The sequence laid out for a load, store, atomic or AUIPC ends with the   *)
(* registers and the memory the instruction itself would leave, whatever its*)
(* registers, immediate and width, the values of all registers, the data    *)
(* offset and the address: for every instruction that is Undisturbed.       *)
THEOREM AccessesCorrect == Spec => [](Undisturbed => ResultMatchesGuest)
<1>1. (Undisturbed => ResultMatchesGuest /\ ExitMatchesGuest)
        => (Undisturbed => ResultMatchesGuest)
  OBVIOUS
<1> QED BY <1>1, SequencesCorrect, PTL

(* A branch leaves for the host routine of the way the guest's branch goes, *)
(* with the guest's registers and its T6 below the stack.                   *)
THEOREM BranchesCorrect == Spec => [](Undisturbed => ExitMatchesGuest)
<1>1. (Undisturbed => ResultMatchesGuest /\ ExitMatchesGuest)
        => (Undisturbed => ExitMatchesGuest)
  OBVIOUS
<1> QED BY <1>1, SequencesCorrect, PTL

(* Registers and memory hold integers throughout a sequence.                *)
THEOREM SequenceTypes == Spec => [](Undisturbed => TypeOK)
<1>1. WordsInv /\ SequenceInv => (Undisturbed => TypeOK)
  <2> SUFFICES ASSUME WordsInv, SequenceInv, Undisturbed PROVE TypeOK
    OBVIOUS
  <2>1. inst \in RvWord /\ single \in BOOLEAN /\ words \in Seq(RvWord) /\ guest \in [Reg -> Int]
    BY DEF WordsInv, SequenceInv
  <2>2. CASE words = << >>
    <3>1. ip = 1 /\ regs = guest /\ memory = NoMemory /\ left = 0
      BY <2>2 DEF SequenceInv, Untouched
    <3>2. memory \in [DOMAIN memory -> Int]
      BY <3>1 DEF NoMemory
    <3> QED BY <2>1, <3>1, <3>2 DEF TypeOK
  <2>3. CASE words # << >>
    <3>1. regs \in [Reg -> Int] /\ memory \in [DOMAIN memory -> Int] /\ SequenceAt
          /\ words = LaidOut(inst)
      BY <2>3 DEF SequenceInv
    <3>2. ip \in Int /\ left \in Int
      <4>1. CASE Exiting
        <5>1. BranchAt
          BY <2>1, <3>1, <4>1, Kinds
        <5> QED BY <5>1, SMT DEF BranchAt, ExitAt, ContextSwitch, ContextSwitchTaken
      <4>2. CASE Constant
        <5>1. AuipcAt /\ left = 0
          BY <2>1, <3>1, <4>2, Kinds
        <5> QED BY <5>1, SMT DEF AuipcAt
      <4>3. CASE Plain
        <5>1. PlainAt /\ left = 0
          BY <2>1, <3>1, <4>3, Kinds
        <5> QED BY <5>1, SMT DEF PlainAt
      <4>4. CASE Adjusted
        <5>1. AdjustedAt /\ left = 0
          BY <2>1, <3>1, <4>4, Kinds
        <5>2. Len(words) \in {12, 13}
          BY <3>1, <4>4, WordsAround
        <5>3. AroundAt \/ ip \in {10, 11}
          BY <5>1 DEF AdjustedAt, InPlaceAt, CopyAt
        <5>4. AroundAt => ip \in Int
          <6> SUFFICES ASSUME AroundAt PROVE ip \in Int
            OBVIOUS
          <6>1. ip \in 1..9 \/ ip \in (Len(words) - 1)..(Len(words) + 1)
            BY <5>2, AroundPlaces
          <6> QED BY <5>2, <6>1, SMT
        <5> QED BY <5>1, <5>3, <5>4
      <4> QED BY <2>1, <4>1, <4>2, <4>3, <4>4, Kinds
    <3> QED BY <2>1, <3>1, <3>2 DEF TypeOK
  <2> QED BY <2>2, <2>3
<1> QED BY <1>1, WordsInvariant, SequenceInvariant, PTL
=============================================================================
