------------------------------ MODULE PQKeyFormats -----------------------------
(***************************************************************************)
(* The texts a user copies and types: addresses (pqaddress.js), recovery   *)
(* phrases (pqmnemonic.js) and operator files (pqoperator.js).             *)
(*                                                                         *)
(* A text is what can be told apart in it: the part before the separator,  *)
(* the values of the characters after it, and the case it is written in.   *)
(* SHA-256, HMAC, BLAKE2b, XChaCha20 and ML-DSA are external.              *)
(***************************************************************************)
EXTENDS Integers, Sequences, FiniteSets, SequencesExt

CONSTANT Thrown   \* an exception

PQ_ID_SIZE == 32
Networks == {"testnet", "regtest"}

\* The characters of the prefixes, by their codes.
PQ_ADDRESS_HRP ==
  [testnet |-> <<111, 108, 99, 112, 113, 116, 101, 115, 116>>,
   regtest |-> <<111, 108, 99, 112, 113, 114, 101, 103, 116, 101, 115, 116>>]

-----------------------------------------------------------------------------
\* The checksum: 30 bits, as six groups of five, the highest first.

Bit(n, i) == (n \div 2^i) % 2
XorTable == [a \in 0 .. 31, b \in 0 .. 31 |->
  FoldLeft(LAMBDA acc, i : acc + ((Bit(a, i) + Bit(b, i)) % 2) * 2^i, 0, <<0, 1, 2, 3, 4>>)]
Xor(x, y) == [i \in 1 .. 6 |-> XorTable[x[i], y[i]]]
Groups(n) == [i \in 1 .. 6 |-> (n \div 2^(5 * (6 - i))) % 32]

BECH32M_CONST == Groups(734539939)
GENERATOR == <<Groups(996825010), Groups(642813549), Groups(513874426),
               Groups(1027748829), Groups(705979059)>>
GeneratorFor == [top \in 0 .. 31 |->
  FoldLeft(LAMBDA acc, i : IF Bit(top, i - 1) = 1 THEN Xor(acc, GENERATOR[i]) ELSE acc,
           Groups(0), <<1, 2, 3, 4, 5>>)]

Polymod(values) ==
  FoldLeft(LAMBDA chk, v : Xor(Append(Tail(chk), v), GeneratorFor[chk[1]]),
           Groups(1), values)

HrpExpand(hrp) ==
  [i \in 1 .. Len(hrp) |-> hrp[i] \div 32] \o <<0>> \o [i \in 1 .. Len(hrp) |-> hrp[i] % 32]

Checksum(hrp, data) == Xor(Polymod(HrpExpand(hrp) \o data \o Groups(0)), BECH32M_CONST)

VerifyChecksum(hrp, data) == Polymod(HrpExpand(hrp) \o data) = BECH32M_CONST

Length(text) == Len(text.hrp) + 1 + Len(text.data)

Bech32mEncode(hrp, data) ==
  LET text == [hrp |-> hrp, data |-> data \o Checksum(hrp, data), case |-> "lower"]
  IN  IF Length(text) > 90 THEN Thrown ELSE text

\* A character that has no value stands as 32.
Bech32mDecode(text) ==
  IF /\ Length(text) \in 8 .. 90 /\ text.case # "mixed"
     /\ Len(text.hrp) >= 1 /\ Len(text.data) >= 6
     /\ \A i \in 1 .. Len(text.data) : text.data[i] < 32
  THEN IF VerifyChecksum(text.hrp, text.data)
       THEN [hrp |-> text.hrp, data |-> SubSeq(text.data, 1, Len(text.data) - 6)]
       ELSE Thrown
  ELSE Thrown

-----------------------------------------------------------------------------
\* convertBits: the bits of data, in groups of another width.  The last
\* group is filled up, or must be less than a group of the first width, of
\* zeros.

Group(acc, value, from, to) ==
  LET bits == acc.bits + from
      all == acc.acc * 2^from + value
      n == bits \div to
      left == bits - n * to
  IN  [bits |-> left, acc |-> all % 2^left,
       out |-> acc.out \o [i \in 1 .. n |-> (all \div 2^(bits - i * to)) % 2^to]]

ConvertBits(data, from, to, pad) ==
  LET r == FoldLeft(LAMBDA acc, value : Group(acc, value, from, to),
                    [bits |-> 0, acc |-> 0, out |-> <<>>], data)
  IN  CASE pad /\ r.bits > 0 -> Append(r.out, r.acc * 2^(to - r.bits))
        [] ~pad /\ (r.bits >= from \/ r.acc # 0) -> Thrown
        [] OTHER -> r.out

-----------------------------------------------------------------------------
\* Addresses

AddressFromId(id, network) ==
  Bech32mEncode(PQ_ADDRESS_HRP[network], <<1>> \o ConvertBits(id, 8, 5, TRUE))

PqIdFromAddress(address, network) ==
  LET decoded == IF address.case = "lower" THEN Bech32mDecode(address) ELSE Thrown IN
  IF decoded = Thrown THEN Thrown
  ELSE IF decoded.hrp # PQ_ADDRESS_HRP[network] \/ Len(decoded.data) # 53
          \/ decoded.data[1] # 1 THEN Thrown
  ELSE LET id == ConvertBits(Tail(decoded.data), 5, 8, FALSE)
       IN  IF id = Thrown THEN Thrown
           ELSE IF Len(id) = PQ_ID_SIZE /\ AddressFromId(id, network) = address
           THEN id ELSE Thrown

IsValidPQAddress(address, network) == PqIdFromAddress(address, network) # Thrown

\* Scripts and addresses of an id.
PqScriptFromAddress(address, network) ==
  LET id == PqIdFromAddress(address, network)
  IN  IF id = Thrown THEN Thrown ELSE <<255, 81, 32>> \o id
PqAddressFromScript(script, network) ==
  IF Len(script) = 35 /\ SubSeq(script, 1, 3) = <<255, 81, 32>>
  THEN AddressFromId(SubSeq(script, 4, 35), network) ELSE Thrown

-----------------------------------------------------------------------------
\* Recovery phrases.  A word is its place in the list; one that is not in it
\* stands as 2048.  Case and spaces are normalised away first.

PQ_MNEMONIC_WORD_COUNT == 24
FirstHashByte(entropy) ==     \* external
  FoldLeft(LAMBDA acc, b : (acc * 3 + b + 1) % 256, 0, entropy)

EntropyToMnemonic(entropy) ==
  ConvertBits(Append(entropy, FirstHashByte(entropy)), 8, 11, FALSE)

NormalizePQMnemonic(typed) == typed.words
MnemonicToEntropy(typed) ==
  LET words == NormalizePQMnemonic(typed)
      bytes == ConvertBits(words, 11, 8, FALSE)
  IN  IF \/ Len(words) # PQ_MNEMONIC_WORD_COUNT
         \/ \E i \in 1 .. Len(words) : words[i] = 2048 THEN Thrown
      ELSE IF bytes[33] = FirstHashByte(SubSeq(bytes, 1, 32)) THEN SubSeq(bytes, 1, 32)
      ELSE Thrown

\* ML-DSA key generation (external): a key for each seed.
PqKeypairFromSeed(seed) == [publicKey |-> <<"public", seed>>, secretKey |-> <<"secret", seed>>]

-----------------------------------------------------------------------------
\* Operator files.  A ciphertext is opened by its key, its nonce and the data
\* it was bound to (external).

\* Mistake: the file is not bound to its network and chain.
AssociatedDataOfKey(network, publicKey, genesis) == <<publicKey>>
AssociatedData(network, publicKey, genesis) == <<network, 2, publicKey, genesis>>

CreateOperatorConfig(seed, wrappingKey, nonce, network, genesis) ==
  LET publicKey == PqKeypairFromSeed(seed).publicKey IN
  [version |-> 2, publicKey |-> publicKey, nonce |-> nonce, wrappingKey |-> wrappingKey,
   encryptedSeed |-> [plain |-> seed, key |-> wrappingKey, nonce |-> nonce,
                      bound |-> AssociatedData(network, publicKey, genesis)]]

DecryptOperatorConfig(config, network, genesis) ==
  LET box == config.encryptedSeed IN
  IF /\ config.version = 2
     /\ box.key = config.wrappingKey /\ box.nonce = config.nonce
     /\ box.bound = AssociatedData(network, config.publicKey, genesis)
     /\ PqKeypairFromSeed(box.plain).publicKey = config.publicKey
  THEN [seed |-> box.plain, publicKey |-> config.publicKey]
  ELSE Thrown

-----------------------------------------------------------------------------
\* Properties

\* A text that differs from an address in one character, in two neighbours
\* exchanged, in its prefix or in its case is no address of any network.
TypoIsRefused(typo) == \A n \in Networks : ~IsValidPQAddress(typo, n)

\* What was written down restores what it was made of: an address its id, and
\* the id its script and its address, on its network only; a phrase its
\* entropy, however it is typed.
Restores(id, network) ==
  LET address == AddressFromId(id, network) IN
  /\ \A n \in Networks : PqIdFromAddress(address, n) = (IF n = network THEN id ELSE Thrown)
  /\ PqAddressFromScript(PqScriptFromAddress(address, network), network) = address
  /\ \A case \in {"lower", "upper", "mixed"} :
       MnemonicToEntropy([words |-> EntropyToMnemonic(id), case |-> case]) = id

\* An operator file opens with its own key on its own network and chain only,
\* and to the seed it was made of.
OpensOnlyAtHome(config, network, genesis, seed, home) ==
  LET opened == DecryptOperatorConfig(config, network, genesis) IN
  opened # Thrown =>
    /\ <<network, genesis>> = home
    /\ opened = [seed |-> seed, publicKey |-> PqKeypairFromSeed(seed).publicKey]
=============================================================================
