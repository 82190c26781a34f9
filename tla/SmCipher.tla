------------------------------- MODULE SmCipher -------------------------------
(***************************************************************************)
(* The ciphers of secure messaging: ISO 9797-1 padding and MAC algorithm   *)
(* 3, Triple DES, AES and CMAC as crypto/ composes them, and the two       *)
(* SmCipher objects of proto/.  The block cipher itself is a stand-in: a   *)
(* permutation of the blocks for every key, in which every byte of the     *)
(* result moves with the first; adding bytes stands for XOR.               *)
(***************************************************************************)
EXTENDS Apdu

AesBlockSize == 16
DesBlockSize == 8
AesCmacOutputLen == 8
KeySize == [S128 |-> 16, S192 |-> 24, S256 |-> 32]

-----------------------------------------------------------------------------
\* iso9797.rs
Zeros(n) == [i \in 1 .. n |-> 0]
Pad(data, size) == data \o <<128>> \o Zeros(size - 1 - (Len(data) % size))
\* The last byte that is not zero must be the marker, in the last block.
Unpad(data, size) ==
  IF data = << >> \/ Len(data) % size # 0 THEN {}
  ELSE {SubSeq(data, 1, i - 1) : i \in {j \in Len(data) - size + 1 .. Len(data) :
          data[j] = 128 /\ \A k \in j + 1 .. Len(data) : data[k] = 0}}

-----------------------------------------------------------------------------
\* The stand-in, and the modes over it.
Key(k, i) == k[((i - 1) % Len(k)) + 1]
Total(b) ==
  LET sum[i \in 0 .. Len(b)] == IF i = 0 THEN 0 ELSE sum[i - 1] + b[i]
  IN  sum[Len(b)]
EncryptBlock(k, b) ==
  <<(Total(b) + Key(k, 1)) % 256>>
  \o [i \in 1 .. Len(b) - 1 |-> (b[i] + Key(k, i + 1) + i + 1) % 256]
DecryptBlock(k, c) ==
  LET n == Len(c)
      b == [i \in 1 .. n - 1 |-> (c[i + 1] + 512 - Key(k, i + 1) - (i + 1)) % 256]
  IN  Append(b, (c[1] + 256 * (n + 1) - Key(k, 1) - Total(b)) % 256)

Block(b, size, i) == SubSeq(b, (i - 1) * size + 1, i * size)
Plus(a, b) == [i \in DOMAIN a |-> (a[i] + b[i]) % 256]
Minus(a, b) == [i \in DOMAIN a |-> (a[i] + 256 - b[i]) % 256]

CbcEncrypt(E(_), iv, data, size) ==
  LET blocks[i \in 0 .. Len(data) \div size] ==
        IF i = 0 THEN << >>
        ELSE LET out == blocks[i - 1]
                 previous == IF i = 1 THEN iv ELSE Block(out, size, i - 1)
             IN  out \o E(Plus(Block(data, size, i), previous))
  IN  blocks[Len(data) \div size]
CbcDecrypt(D(_), iv, data, size) ==
  FlattenSeq([i \in 1 .. Len(data) \div size |->
    Minus(D(Block(data, size, i)), IF i = 1 THEN iv ELSE Block(data, size, i - 1))])

-----------------------------------------------------------------------------
\* des.rs: two-key Triple DES repeats the first key.
TripleDesKey(k) == IF Len(k) = 16 THEN k \o SubSeq(k, 1, 8) ELSE k
TdesEncrypt(k, b) ==
  LET t == TripleDesKey(k)
  IN  EncryptBlock(Block(t, 8, 3), DecryptBlock(Block(t, 8, 2), EncryptBlock(Block(t, 8, 1), b)))
TdesDecrypt(k, b) ==
  LET t == TripleDesKey(k)
  IN  DecryptBlock(Block(t, 8, 1), EncryptBlock(Block(t, 8, 2), DecryptBlock(Block(t, 8, 3), b)))

DesedeEncrypt(k, iv, data) ==
  Given(Len(data) % DesBlockSize = 0,
        CbcEncrypt(LAMBDA b : TdesEncrypt(k, b), iv, data, DesBlockSize))
DesedeDecrypt(k, iv, data) ==
  Given(Len(data) % DesBlockSize = 0,
        CbcDecrypt(LAMBDA b : TdesDecrypt(k, b), iv, data, DesBlockSize))

\* CBC with the first key, and the last block through the others.
MacAlg3(k, data) ==
  LET t == TripleDesKey(k)
      cbc == CbcEncrypt(LAMBDA b : EncryptBlock(Block(t, 8, 1), b), Zeros(8), data, DesBlockSize)
  IN  IF Len(k) \notin {16, 24} \/ Len(data) % DesBlockSize # 0 \/ data = << >> THEN {}
      ELSE {EncryptBlock(Block(t, 8, 3),
                         DecryptBlock(Block(t, 8, 2), From(cbc, Len(cbc) - 7)))}

-----------------------------------------------------------------------------
\* aes.rs: CBC needs an IV of one block, ECB none; keys of another size than
\* the cipher's are refused.
AesEncrypt(size, k, iv, mode, data) ==
  IF Len(k) # KeySize[size] \/ Len(data) % AesBlockSize # 0 THEN {}
  ELSE IF mode = "Ecb"
       THEN {FlattenSeq([i \in 1 .. Len(data) \div 16 |-> EncryptBlock(k, Block(data, 16, i))])}
       ELSE Given(Len(iv) = AesBlockSize, CbcEncrypt(LAMBDA b : EncryptBlock(k, b), iv, data, 16))
AesDecrypt(size, k, iv, data) ==
  Given(Len(k) = KeySize[size] /\ Len(data) % AesBlockSize = 0 /\ Len(iv) = AesBlockSize,
        CbcDecrypt(LAMBDA b : DecryptBlock(k, b), iv, data, 16))

\* CMAC itself is the library's; aes.rs cuts it to eight bytes.
Cmac(k, data) ==
  LET padded == IF data # << >> /\ Len(data) % 16 = 0 THEN data ELSE Pad(data, 16)
      cbc == CbcEncrypt(LAMBDA b : EncryptBlock(k, b), Zeros(16), padded, 16)
  IN  From(cbc, Len(cbc) - 15)
CalculateCmac(size, k, data) ==
  Given(Len(k) = KeySize[size], SubSeq(Cmac(k, data), 1, AesCmacOutputLen))

-----------------------------------------------------------------------------
\* ssc.rs: the counter as bytes of its width, zeros in front included.
SscBytes(ssc, bits) == BigEndian(ssc, bits \div 8)

\* des_smcipher.rs and aes_smcipher.rs.  s is a session: its cipher, the size
\* of its AES keys, its keys and the width of its counter.
BlockLen(s) == IF s.cipher = "Aes" THEN AesBlockSize ELSE DesBlockSize
ValidKeys(s) ==
  IF s.cipher = "Aes" THEN Len(s.enc) = KeySize[s.size] /\ Len(s.mac) = KeySize[s.size]
  ELSE Len(s.enc) \in {16, 24} /\ Len(s.mac) \in {16, 24}
IvFromSsc(s, ssc) ==
  IF s.bits # 128 THEN {} ELSE AesEncrypt(s.size, s.enc, << >>, "Ecb", SscBytes(ssc, s.bits))
SmEncrypt(s, ssc, data) ==
  IF s.cipher = "DeSede" THEN DesedeEncrypt(s.enc, Zeros(8), data)
  ELSE UNION {AesEncrypt(s.size, s.enc, iv, "Cbc", data) : iv \in IvFromSsc(s, ssc)}
SmDecrypt(s, ssc, data) ==
  IF s.cipher = "DeSede" THEN DesedeDecrypt(s.enc, Zeros(8), data)
  ELSE UNION {AesDecrypt(s.size, s.enc, iv, data) : iv \in IvFromSsc(s, ssc)}
SmMac(s, data) ==
  IF s.cipher = "DeSede" THEN MacAlg3(s.mac, data) ELSE CalculateCmac(s.size, s.mac, data)
===============================================================================
