---------------------------- MODULE Headers_proofs ----------------------------
(* Proofs about packet bits and header storage.                                *)
(*                                                                             *)
(* Extraction: a program that only extracts sends the packet it received, a    *)
(* stack filled through next is never overwritten, and a statement that raises *)
(* changes nothing.  The packet is one number; Prefix(c) is its first c bits.  *)
(* Reading n bits at the cursor and appending them to the first bits gives the *)
(* next prefix (PrefixGrows), and emitting the header read from n bits appends *)
(* those bits (HeaderRoundTrip), so the emitter's buffer is always the prefix  *)
(* up to the cursor (EmittedIsPrefix).                                         *)
(*                                                                             *)
(* Storage: objects mutated in place behave as values.  Every name refers to   *)
(* an object of its shape (Shaped) and no two places to the same one           *)
(* (Distinct), so a statement that mutates one object, or links a new one,     *)
(* changes the value of one place (WrittenOnce, LinkStores, MutatesValue) or   *)
(* of one stack (StackReplaced), and collection changes none (CollectionKeeps). *)
EXTENDS Extraction, Storage, Numbers_proofs, FiniteSetTheorems, SequenceTheorems

-----------------------------------------------------------------------------
(* The recursive functions of Extraction, as equations.                        *)

LEMMA PacketNumber ==
  ASSUME packet \in Seq(0 .. 255)
  PROVE  /\ Len(packet) \in Nat /\ \A k \in 1 .. Len(packet) : packet[k] \in 0 .. 255
         /\ \E value \in [0 .. Len(packet) -> Nat] :
              /\ PacketValue = value[Len(packet)] /\ value[0] = 0
              /\ \A k \in 1 .. Len(packet) : value[k] = 256 * value[k - 1] + packet[k]
<1> DEFINE n == Len(packet)
           step == [k \in 1 .. n |-> [x \in Nat |-> 256 * x + packet[k]]]
           Def(q) == [k \in 0 .. n |-> IF k = 0 THEN 0 ELSE 256 * q[k - 1] + packet[k]]
           value == CHOOSE q : q = Def(q)
<1>1. n \in Nat /\ \A k \in 1 .. n : packet[k] \in 0 .. 255
  BY ElementOfSeq, LenProperties
<1>a. \A k \in 1 .. n : packet[k] \in Nat
  <2>1. 0 .. 255 \subseteq Nat
    OBVIOUS
  <2> QED BY ONLY <1>1, <2>1
<1>2. PacketValue = value[n]
  BY DEF PacketValue
<1> HIDE DEF n
<1>3. step \in Steps(n, Nat)
  <2>1. ASSUME NEW k \in 1 .. n, NEW x \in Nat PROVE 256 * x + packet[k] \in Nat
    <3>1. PICK b \in Nat : packet[k] = b
      BY <1>a
    <3>2. 256 * x + b \in Nat
      OBVIOUS
    <3> QED BY <3>1, <3>2
  <2> QED BY <2>1 DEF Steps
<1>4. PICK q \in [0 .. n -> Nat] : q[0] = 0 /\ \A k \in 1 .. n : q[k] = step[k][q[k - 1]]
  <2> HIDE DEF step
  <2>1. Iterations(n, Nat, 0, step) # {}
    BY <1>1, <1>3, Iterates
  <2> QED BY <2>1 DEF Iterations
<1>5. \A k \in 1 .. n : q[k] = 256 * q[k - 1] + packet[k]
  <2> TAKE k \in 1 .. n
  <2>1. q[k - 1] \in Nat
    BY <1>1, <1>4
  <2> QED BY <1>4, <2>1
<1>6. q = Def(q)
  BY <1>1, <1>4, <1>5
<1>7. value = Def(value)
  <2> HIDE DEF Def
  <2> QED BY <1>6
<1> HIDE DEF value
<1>8. value[0] = 0 /\ \A k \in 1 .. n : value[k] = 256 * value[k - 1] + packet[k]
  BY <1>1, <1>7
<1> DEFINE G == {k \in 0 .. n : value[k] \in Nat}
<1>9. 0 \in G /\ \A k \in 1 .. n : k - 1 \in G => k \in G
  <2>1. ASSUME NEW k \in 1 .. n, value[k - 1] \in Nat PROVE 256 * value[k - 1] + packet[k] \in Nat
    <3>1. PICK b \in Nat : packet[k] = b
      BY <1>a
    <3>2. \A x \in Nat : 256 * x + b \in Nat
      OBVIOUS
    <3> QED BY <2>1, <3>1, <3>2
  <2> QED BY <1>1, <1>8, <2>1
<1>10. \A k \in 0 .. n : value[k] \in Nat
  <2>1. \A k \in 0 .. n : k \in G
    <3> HIDE DEF G
    <3> QED BY <1>1, <1>9, Upward
  <2> QED BY <2>1
<1>11. value \in [0 .. n -> Nat]
  <2>1. value = [k \in 0 .. n |-> value[k]]
    BY <1>7, <1>1
  <2> QED BY <1>10, <2>1
<1> QED BY <1>1, <1>2, <1>8, <1>11 DEF n

LEMMA FieldEnds ==
  /\ Len(Widths) \in Nat /\ DOMAIN Widths = 1 .. Len(Widths)
  /\ \A k \in 1 .. Len(Widths) : Widths[k] \in Nat
  /\ FieldEnd(0) = 0 /\ Width = FieldEnd(Len(Widths)) /\ Width \in Nat
  /\ \A k \in 1 .. Len(Widths) : FieldEnd(k) = FieldEnd(k - 1) + Widths[k]
  /\ \A k \in 0 .. Len(Widths) : FieldEnd(k) \in 0 .. Width /\ Below(k) = Width - FieldEnd(k)
<1> DEFINE n == Len(Widths)
           step == [k \in 1 .. n |-> [x \in Nat |-> x + Widths[k]]]
           Def(q) == [k \in 0 .. n |-> IF k = 0 THEN 0 ELSE q[k - 1] + Widths[k]]
           end == CHOOSE q : q = Def(q)
<1>1. n \in Nat /\ DOMAIN Widths = 1 .. n /\ \A k \in 1 .. n : Widths[k] \in Nat
  BY BitsAssumption
<1>2. \A i : FieldEnd(i) = end[i]
  BY DEF FieldEnd
<1> HIDE DEF n
<1>3. step \in Steps(n, Nat)
  BY <1>1 DEF Steps
<1>4. PICK q \in [0 .. n -> Nat] : q[0] = 0 /\ \A k \in 1 .. n : q[k] = step[k][q[k - 1]]
  <2> HIDE DEF step
  <2>1. Iterations(n, Nat, 0, step) # {}
    BY <1>1, <1>3, Iterates
  <2> QED BY <2>1 DEF Iterations
<1>5. \A k \in 1 .. n : q[k] = q[k - 1] + Widths[k]
  <2> TAKE k \in 1 .. n
  <2>1. q[k - 1] \in Nat
    BY <1>1, <1>4
  <2> QED BY <1>4, <2>1
<1>6. q = Def(q)
  BY <1>1, <1>4, <1>5
<1>7. end = Def(end)
  <2> HIDE DEF Def
  <2> QED BY <1>6
<1> HIDE DEF end
<1>8. end[0] = 0 /\ \A k \in 1 .. n : end[k] = end[k - 1] + Widths[k]
  BY <1>1, <1>7
<1> DEFINE G == {k \in 0 .. n : end[k] \in Nat /\ \A i \in 0 .. k : end[i] \in 0 .. end[k]}
<1>9. 0 \in G
  BY <1>1, <1>8
<1>10. ASSUME NEW k \in 1 .. n, k - 1 \in G PROVE k \in G
  <2>1. \A i \in 0 .. k : i = k \/ i \in 0 .. k - 1
    BY <1>1
  <2> QED BY <1>1, <1>8, <1>10, <2>1
<1>11. n \in G
  <2> HIDE DEF G
  <2>1. \A k \in 0 .. n : k \in G
    BY <1>1, <1>9, <1>10, Upward
  <2> QED BY <1>1, <2>1
<1>12. \A k \in 0 .. n : end[k] \in 0 .. end[n]
  BY <1>11
<1> QED BY <1>1, <1>2, <1>8, <1>11, <1>12 DEF n, Width, Below

(* Any record with numbers as fields is written as a number.                   *)
LEMMA WrittenFields ==
  ASSUME NEW header, \A i \in DOMAIN Widths : header.fields[i] \in Nat
  PROVE  \E bits \in [0 .. Len(Widths) -> Nat] :
           /\ HeaderToBits(header) = bits[Len(Widths)] /\ bits[0] = 0
           /\ \A k \in 1 .. Len(Widths) : bits[k] = bits[k - 1] * Pow2(Widths[k]) + header.fields[k]
<1> DEFINE n == Len(Widths)
           field == [k \in 1 .. n |-> header.fields[k]]
           size == [k \in 1 .. n |-> Pow2(Widths[k])]
           step == [k \in 1 .. n |-> [x \in Nat |-> x * size[k] + field[k]]]
           Def(q) == [k \in 0 .. n |-> IF k = 0 THEN 0 ELSE q[k - 1] * Pow2(Widths[k]) + header.fields[k]]
           bits == CHOOSE q : q = Def(q)
<1>1. n \in Nat /\ \A k \in 1 .. n : /\ size[k] \in Nat /\ size[k] = Pow2(Widths[k])
                                   /\ field[k] \in Nat /\ field[k] = header.fields[k]
  BY FieldEnds, PowPositive
<1>2. HeaderToBits(header) = bits[n]
  BY DEF HeaderToBits
<1> HIDE DEF n, field, size
<1>3. step \in Steps(n, Nat)
  <2>1. \A k \in 1 .. n : \A x \in Nat : x * size[k] + field[k] \in Nat
    BY <1>1
  <2> QED BY <2>1 DEF Steps
<1>4. PICK q \in [0 .. n -> Nat] : q[0] = 0 /\ \A k \in 1 .. n : q[k] = step[k][q[k - 1]]
  <2> HIDE DEF step
  <2>1. Iterations(n, Nat, 0, step) # {}
    BY <1>1, <1>3, Iterates
  <2> QED BY <2>1 DEF Iterations
<1>5. \A k \in 1 .. n : q[k] = q[k - 1] * Pow2(Widths[k]) + header.fields[k]
  <2> TAKE k \in 1 .. n
  <2>1. q[k - 1] \in Nat
    BY <1>1, <1>4
  <2>2. step[k][q[k - 1]] = q[k - 1] * size[k] + field[k]
    BY <2>1
  <2> HIDE DEF step
  <2> QED BY <1>1, <1>4, <2>2
<1>6. q = Def(q)
  BY <1>1, <1>4, <1>5
<1>7. bits = Def(bits)
  <2> HIDE DEF Def
  <2> QED BY <1>6
<1> HIDE DEF bits
<1>8. bits[0] = 0 /\ \A k \in 1 .. n : bits[k] = bits[k - 1] * Pow2(Widths[k]) + header.fields[k]
  <2>1. \A k \in 0 .. n : bits[k] = IF k = 0 THEN 0 ELSE bits[k - 1] * Pow2(Widths[k]) + header.fields[k]
    BY <1>7
  <2>2. 0 \in 0 .. n /\ \A k \in 1 .. n : k \in 0 .. n /\ k # 0
    BY <1>1
  <2> QED BY <2>1, <2>2
<1> DEFINE G == {k \in 0 .. n : bits[k] \in Nat}
<1>9. 0 \in G
  BY <1>1, <1>8
<1>10. ASSUME NEW k \in 1 .. n, k - 1 \in G PROVE k \in G
  <2>1. bits[k] = bits[k - 1] * size[k] + field[k] /\ bits[k - 1] \in Nat
    BY <1>1, <1>8, <1>10
  <2>2. \A x, y, z \in Nat : x * y + z \in Nat
    OBVIOUS
  <2>3. bits[k] \in Nat
    BY <1>1, <2>1, <2>2
  <2> QED BY <2>3
<1>11. \A k \in 0 .. n : bits[k] \in Nat
  <2>1. \A k \in 0 .. n : k \in G
    <3> HIDE DEF G
    <3> QED BY <1>1, <1>9, <1>10, Upward
  <2> QED BY <2>1
<1>12. bits \in [0 .. n -> Nat]
  <2>1. bits = [k \in 0 .. n |-> bits[k]]
    BY <1>7, <1>1
  <2> QED BY <1>11, <2>1
<1> QED BY <1>2, <1>8, <1>12 DEF n

-----------------------------------------------------------------------------
(* Prefixes of the packet                                                      *)

Prefix(c) == PacketValue \div Pow2(TotalBits - c)

LEMMA Pow8 == Pow2(8) = 256
<1>1. Pow2(0 + 1) = 2 /\ Pow2(1 + 1) = 2 * Pow2(1) /\ Pow2(2 + 1) = 2 * Pow2(2) /\ Pow2(3 + 1) = 2 * Pow2(3)
  BY PowZero, PowNext
<1>2. Pow2(4 + 1) = 2 * Pow2(4) /\ Pow2(5 + 1) = 2 * Pow2(5) /\ Pow2(6 + 1) = 2 * Pow2(6)
      /\ Pow2(7 + 1) = 2 * Pow2(7)
  BY PowNext
<1> QED BY <1>1, <1>2

(* Byte i of the packet, and what is left of it after all bytes.               *)
LEMMA TakeBytes ==
  ASSUME packet \in Seq(0 .. 255)
  PROVE  /\ Len(packet) \in Nat /\ TotalBits \in Nat /\ PacketValue \in Nat
         /\ PacketValue \div Pow2(TotalBits) = 0
         /\ \A i \in 1 .. Len(packet) :
              packet[i] \in Nat /\ (PacketValue \div Pow2(8 * (Len(packet) - i))) % 256 = packet[i]
<1> DEFINE n == Len(packet)
<1>1. PICK value \in [0 .. n -> Nat] :
        /\ PacketValue = value[n] /\ value[0] = 0
        /\ \A k \in 1 .. n : value[k] = 256 * value[k - 1] + packet[k]
  BY PacketNumber
<1>2. n \in Nat /\ \A k \in 1 .. n : packet[k] \in 0 .. 255
  BY PacketNumber
<1> HIDE DEF n
<1>3. ASSUME NEW k \in 1 .. n
      PROVE  value[k] \div 256 = value[k - 1] /\ value[k] % 256 = packet[k]
  <2>1. value[k - 1] \in Nat /\ packet[k] \in 0 .. 256 - 1 /\ value[k] = value[k - 1] * 256 + packet[k]
    BY <1>1, <1>2
  <2>2. value[k] \in Nat /\ 256 \in Nat \ {0}
    BY <1>1
  <2>3. \A v, q \in Nat, r \in 0 .. 256 - 1 : v = q * 256 + r => v \div 256 = q /\ v % 256 = r
    BY <2>2, QuotientIs
  <2>4. PICK v \in Nat, q \in Nat, r \in 0 .. 256 - 1 : v = value[k] /\ q = value[k - 1] /\ r = packet[k]
    BY <2>1, <2>2
  <2>5. v = q * 256 + r
    BY <2>1, <2>4
  <2>6. v \div 256 = q /\ v % 256 = r
    BY <2>3, <2>5
  <2> QED BY <2>4, <2>6
<1> DEFINE G == {j \in 0 .. n : PacketValue \div Pow2(8 * j) = value[n - j]}
<1>4. PacketValue \in Nat
  BY <1>1, <1>2
<1>5. 0 \in G
  <2>1. Pow2(8 * 0) = 1
    BY PowZero
  <2>2. PacketValue \div 1 = PacketValue
    BY <1>4
  <2> QED BY <1>1, <1>2, <2>1, <2>2
<1>6. ASSUME NEW j \in 1 .. n, j - 1 \in G PROVE j \in G
  <2>1. PacketValue \div Pow2(8 * (j - 1)) = value[n - (j - 1)]
    BY <1>6
  <2>2. (PacketValue \div Pow2(8 * (j - 1))) \div Pow2(8) = PacketValue \div Pow2(8 * (j - 1) + 8)
    BY <1>4, Split
  <2>3. 8 * (j - 1) + 8 = 8 * j
    OBVIOUS
  <2>4. n - (j - 1) \in 1 .. n /\ (n - (j - 1)) - 1 = n - j
    BY <1>2
  <2>5. value[n - (j - 1)] \div 256 = value[n - j]
    BY <1>3, <2>4
  <2> QED BY <2>1, <2>2, <2>3, <2>5, Pow8
<1>7. \A j \in 0 .. n : PacketValue \div Pow2(8 * j) = value[n - j]
  <2>1. \A j \in 0 .. n : j \in G
    <3> HIDE DEF G
    <3> QED BY <1>2, <1>5, <1>6, Upward
  <2> QED BY <2>1
<1>8. PacketValue \div Pow2(TotalBits) = 0
  <2>1. TotalBits = 8 * n
    BY DEF TotalBits, n
  <2>2. n \in 0 .. n /\ n - n = 0
    BY <1>2
  <2> QED BY <1>1, <1>7, <2>1, <2>2
<1>9. ASSUME NEW i \in 1 .. n
      PROVE  packet[i] \in Nat /\ (PacketValue \div Pow2(8 * (n - i))) % 256 = packet[i]
  <2>1. n - i \in 0 .. n /\ n - (n - i) = i
    BY <1>2
  <2>2. PacketValue \div Pow2(8 * (n - i)) = value[i]
    BY <1>7, <2>1
  <2>3. 0 .. 255 \subseteq Nat
    OBVIOUS
  <2> QED BY <1>2, <1>3, <2>2, <2>3
<1>10. TotalBits \in Nat
  BY <1>2 DEF TotalBits, n
<1> QED BY <1>2, <1>4, <1>8, <1>9, <1>10 DEF n

LEMMA PrefixEnds ==
  ASSUME packet \in Seq(0 .. 255)
  PROVE  Prefix(0) = 0
<1>1. TotalBits \in Nat /\ PacketValue \div Pow2(TotalBits) = 0
  BY TakeBytes
<1>2. TotalBits - 0 = TotalBits
  BY <1>1
<1> QED BY <1>1, <1>2 DEF Prefix

(* Packet.read appends its n bits to the bits read so far.                     *)
LEMMA PrefixGrows ==
  ASSUME packet \in Seq(0 .. 255), NEW at \in Nat, NEW n \in Nat, at + n <= TotalBits
  PROVE  /\ Prefix(at) \in Nat /\ PeekAt(at, n) \in 0 .. Pow2(n) - 1
         /\ Prefix(at + n) = Prefix(at) * Pow2(n) + PeekAt(at, n)
<1> DEFINE s == TotalBits - at - n
<1>1. TotalBits \in Nat /\ PacketValue \in Nat
  BY TakeBytes
<1>2. s \in Nat /\ s + n = TotalBits - at /\ s = TotalBits - (at + n)
  BY <1>1
<1>3. Prefix(at) = PacketValue \div Pow2(s + n) /\ Prefix(at + n) = PacketValue \div Pow2(s)
  BY <1>2 DEF Prefix
<1>4. PeekAt(at, n) = (PacketValue \div Pow2(s)) % Pow2(n)
  BY DEF PeekAt
<1> HIDE DEF s
<1>5. Pow2(s) \in Nat \ {0} /\ Pow2(n) \in Nat \ {0} /\ Pow2(s + n) \in Nat \ {0}
  BY <1>2, PowPositive
<1>6. PacketValue \div Pow2(s) = (PacketValue \div Pow2(s + n)) * Pow2(n) + ((PacketValue \div Pow2(s)) % Pow2(n))
  BY <1>1, <1>2, Split
<1>7. PacketValue \div Pow2(s) \in Nat /\ PacketValue \div Pow2(s + n) \in Nat
  BY <1>1, <1>5, DivMod
<1>8. (PacketValue \div Pow2(s)) % Pow2(n) \in 0 .. Pow2(n) - 1
  BY <1>5, <1>7, DivMod
<1> QED BY <1>3, <1>4, <1>6, <1>7, <1>8

-----------------------------------------------------------------------------
(* Headers as bits                                                             *)

LEMMA HeaderRead ==
  ASSUME NEW raw \in Nat
  PROVE  /\ HeaderFromBits(raw).valid = TRUE
         /\ DOMAIN HeaderFromBits(raw).fields = DOMAIN Widths
         /\ \A i \in DOMAIN Widths :
              /\ HeaderFromBits(raw).fields[i] = (raw \div Pow2(Below(i))) % Pow2(Widths[i])
              /\ HeaderFromBits(raw).fields[i] \in 0 .. Pow2(Widths[i]) - 1
         /\ HeaderFromBits(raw) \in Header
<1>1. \A i \in DOMAIN Widths :
        /\ HeaderFromBits(raw).fields[i] = (raw \div Pow2(Below(i))) % Pow2(Widths[i])
        /\ HeaderFromBits(raw).fields[i] \in 0 .. Pow2(Widths[i]) - 1
  <2> TAKE i \in DOMAIN Widths
  <2>1. Below(i) \in Nat /\ Widths[i] \in Nat
    BY FieldEnds
  <2>2. Pow2(Below(i)) \in Nat \ {0} /\ Pow2(Widths[i]) \in Nat \ {0}
    BY <2>1, PowPositive
  <2>3. raw \div Pow2(Below(i)) \in Nat
    BY <2>2, DivMod
  <2>4. (raw \div Pow2(Below(i))) % Pow2(Widths[i]) \in 0 .. Pow2(Widths[i]) - 1
    BY <2>2, <2>3, DivMod
  <2> QED BY <2>4 DEF HeaderFromBits
<1>2. \A i \in DOMAIN Widths : HeaderFromBits(raw).fields[i] \in Nat
  <2> TAKE i \in DOMAIN Widths
  <2>1. Pow2(Widths[i]) \in Nat
    BY FieldEnds, PowPositive
  <2> QED BY <1>1, <2>1
<1>3. HeaderFromBits(raw).fields \in [DOMAIN Widths -> Nat]
  <2>1. HeaderFromBits(raw).fields = [i \in DOMAIN Widths |-> HeaderFromBits(raw).fields[i]]
    BY DEF HeaderFromBits
  <2> QED BY <1>2, <2>1
<1>4. HeaderFromBits(raw) = [valid |-> TRUE, fields |-> HeaderFromBits(raw).fields]
      /\ HeaderFromBits(raw).valid = TRUE /\ DOMAIN HeaderFromBits(raw).fields = DOMAIN Widths
  BY DEF HeaderFromBits
<1>5. HeaderFromBits(raw) \in Header
  <2>1. \A i \in DOMAIN Widths : HeaderFromBits(raw).fields[i] < Pow2(Widths[i])
    <3> TAKE i \in DOMAIN Widths
    <3>1. Pow2(Widths[i]) \in Nat
      BY FieldEnds, PowPositive
    <3> QED BY <1>1, <3>1
  <2> QED BY <1>3, <1>4, <2>1 DEF Header
<1> QED BY <1>1, <1>4, <1>5

(* header_to_bits undoes header_from_bits.                                     *)
LEMMA HeaderRoundTrip ==
  ASSUME NEW raw \in 0 .. Pow2(Width) - 1
  PROVE  HeaderToBits(HeaderFromBits(raw)) = raw
<1> DEFINE header == HeaderFromBits(raw)
           n == Len(Widths)
<1>0. raw \in Nat /\ Pow2(Width) \in Nat \ {0} /\ raw < Pow2(Width)
  BY FieldEnds, PowPositive
<1>1. \A i \in DOMAIN Widths : /\ header.fields[i] = (raw \div Pow2(Below(i))) % Pow2(Widths[i])
                               /\ header.fields[i] \in 0 .. Pow2(Widths[i]) - 1
  BY <1>0, HeaderRead
<1>2. \A i \in DOMAIN Widths : header.fields[i] \in Nat
  BY <1>0, HeaderRead DEF Header
<1> HIDE DEF header
<1>3. PICK bits \in [0 .. n -> Nat] :
        /\ HeaderToBits(header) = bits[n] /\ bits[0] = 0
        /\ \A k \in 1 .. n : bits[k] = bits[k - 1] * Pow2(Widths[k]) + header.fields[k]
  BY <1>2, WrittenFields
<1>4. n \in Nat /\ DOMAIN Widths = 1 .. n /\ Width = FieldEnd(n) /\ FieldEnd(0) = 0
  BY FieldEnds
<1> DEFINE G == {k \in 0 .. n : bits[k] = raw \div Pow2(Below(k))}
<1>5. 0 \in G
  <2>1. Below(0) = Width
    BY FieldEnds DEF Below
  <2>2. raw \div Pow2(Width) = 0
    <3>1. raw = 0 * Pow2(Width) + raw
      BY <1>0
    <3> QED BY <1>0, <3>1, QuotientIs
  <2> QED BY <1>3, <1>4, <2>1, <2>2
<1>6. ASSUME NEW k \in 1 .. n, k - 1 \in G PROVE k \in G
  <2>1. /\ Below(k) \in Nat /\ Widths[k] \in Nat /\ Below(k - 1) = Below(k) + Widths[k]
    <3>1. k \in 0 .. Len(Widths) /\ k - 1 \in 0 .. Len(Widths) /\ k \in 1 .. Len(Widths)
      BY <1>4
    <3>2. Widths[k] \in Nat /\ FieldEnd(k) = FieldEnd(k - 1) + Widths[k] /\ Width \in Nat
      BY <3>1, FieldEnds
    <3>3. FieldEnd(k) \in 0 .. Width /\ Below(k) = Width - FieldEnd(k)
      BY <3>1, FieldEnds
    <3>4. FieldEnd(k - 1) \in 0 .. Width /\ Below(k - 1) = Width - FieldEnd(k - 1)
      BY <3>1, FieldEnds
    <3> HIDE DEF n
    <3> QED BY <3>2, <3>3, <3>4
  <2>2. raw \div Pow2(Below(k)) =
          (raw \div Pow2(Below(k) + Widths[k])) * Pow2(Widths[k])
            + ((raw \div Pow2(Below(k))) % Pow2(Widths[k]))
    BY <1>0, <2>1, Split
  <2>3. bits[k - 1] = raw \div Pow2(Below(k) + Widths[k])
    BY <1>6, <2>1
  <2>4. bits[k] = bits[k - 1] * Pow2(Widths[k]) + header.fields[k]
    BY <1>3
  <2>5. header.fields[k] = (raw \div Pow2(Below(k))) % Pow2(Widths[k])
    BY <1>1, <1>4
  <2> QED BY <2>2, <2>3, <2>4, <2>5, <1>4
<1>7. n \in G
  <2>1. \A k \in 0 .. n : k \in G
    <3> HIDE DEF G, n
    <3> QED BY <1>4, <1>5, <1>6, Upward
  <2> QED BY <1>4, <2>1
<1>8. Below(n) = 0
  BY FieldEnds DEF Below
<1>9. raw \div Pow2(0) = raw
  <2>1. raw \div 1 = raw
    BY <1>0
  <2> QED BY <2>1, PowZero
<1> QED BY <1>3, <1>7, <1>8, <1>9 DEF header

-----------------------------------------------------------------------------
(* The emitter                                                                 *)

Buffers == [width : Nat, value : Nat]

LEMMA EmitTyped ==
  ASSUME NEW buffer \in Buffers, NEW header \in Header
  PROVE  EmitHeader(buffer, header) \in Buffers
<1>1. \A i \in DOMAIN Widths : header.fields[i] \in Nat
  BY DEF Header
<1>2. HeaderToBits(header) \in Nat
  <2>1. Len(Widths) \in Nat
    BY FieldEnds
  <2> QED BY <1>1, <2>1, WrittenFields
<1>3. Width \in Nat /\ Pow2(Width) \in Nat
  BY FieldEnds, PowPositive
<1>4. buffer.width \in Nat /\ buffer.value \in Nat
  BY DEF Buffers
<1>5. buffer.width + Width \in Nat /\ buffer.value * Pow2(Width) + HeaderToBits(header) \in Nat
  <2>1. \A x, y, z \in Nat : x * y + z \in Nat
    OBVIOUS
  <2> QED BY <1>2, <1>3, <1>4, <2>1
<1> QED BY <1>5 DEF EmitHeader, Write, Buffers

LEMMA EmittedBuffers ==
  ASSUME \A k \in 1 .. StackSize : hs.elements[k] \in Header, h \in Header
  PROVE  /\ Emitted \in Buffers
         /\ \E buffer \in [0 .. StackSize -> Buffers] :
              /\ Emitted = EmitHeader(buffer[StackSize], h) /\ buffer[0] = EmptyBuffer
              /\ \A k \in 1 .. StackSize : buffer[k] = EmitHeader(buffer[k - 1], hs.elements[k])
<1> DEFINE n == StackSize
           step == [k \in 1 .. n |-> [b \in Buffers |-> EmitHeader(b, hs.elements[k])]]
           Def(q) == [k \in 0 .. n |-> IF k = 0 THEN EmptyBuffer ELSE EmitHeader(q[k - 1], hs.elements[k])]
           buffer == CHOOSE q : q = Def(q)
<1>1. n \in Nat /\ EmptyBuffer \in Buffers
  BY BitsAssumption DEF EmptyBuffer, Buffers
<1>2. Emitted = EmitHeader(buffer[n], h)
  BY DEF Emitted
<1>3. step \in Steps(n, Buffers)
  <2>1. \A k \in 1 .. n : \A b \in Buffers : EmitHeader(b, hs.elements[k]) \in Buffers
    BY EmitTyped
  <2> QED BY <2>1 DEF Steps
<1> HIDE DEF n
<1>4. PICK q \in [0 .. n -> Buffers] : q[0] = EmptyBuffer /\ \A k \in 1 .. n : q[k] = step[k][q[k - 1]]
  <2> HIDE DEF step
  <2>1. Iterations(n, Buffers, EmptyBuffer, step) # {}
    BY <1>1, <1>3, Iterates
  <2> QED BY <2>1 DEF Iterations
<1>5. \A k \in 1 .. n : q[k] = EmitHeader(q[k - 1], hs.elements[k])
  <2> TAKE k \in 1 .. n
  <2>1. q[k - 1] \in Buffers
    BY <1>1, <1>4
  <2>2. step[k][q[k - 1]] = EmitHeader(q[k - 1], hs.elements[k])
    BY <2>1
  <2> HIDE DEF step
  <2> QED BY <1>4, <2>2
<1>6. q = Def(q)
  BY <1>1, <1>4, <1>5
<1>7. buffer = Def(buffer)
  <2> HIDE DEF Def
  <2> QED BY <1>6
<1> HIDE DEF buffer
<1>8. buffer[0] = EmptyBuffer /\ \A k \in 1 .. n : buffer[k] = EmitHeader(buffer[k - 1], hs.elements[k])
  <2>1. \A k \in 0 .. n : buffer[k] = IF k = 0 THEN EmptyBuffer ELSE EmitHeader(buffer[k - 1], hs.elements[k])
    BY <1>7
  <2>2. 0 \in 0 .. n /\ \A k \in 1 .. n : k \in 0 .. n /\ k # 0
    BY <1>1
  <2> QED BY <2>1, <2>2
<1> DEFINE G == {k \in 0 .. n : buffer[k] \in Buffers}
<1>9. 0 \in G /\ \A k \in 1 .. n : k - 1 \in G => k \in G
  <2>1. \A k \in 1 .. n : hs.elements[k] \in Header
    BY DEF n
  <2> QED BY <1>1, <1>8, <2>1, EmitTyped
<1>10. \A k \in 0 .. n : buffer[k] \in Buffers
  <2>1. \A k \in 0 .. n : k \in G
    <3> HIDE DEF G
    <3> QED BY <1>1, <1>9, Upward
  <2> QED BY <2>1
<1>11. buffer \in [0 .. n -> Buffers]
  <2>1. buffer = [k \in 0 .. n |-> buffer[k]]
    BY <1>7, <1>1
  <2> QED BY <1>10, <2>1
<1>12. Emitted \in Buffers
  BY <1>1, <1>2, <1>10, EmitTyped
<1> QED BY <1>2, <1>8, <1>11, <1>12 DEF n

(* Emitting the header read at the end of a prefix gives the next prefix.      *)
LEMMA EmitGrows ==
  ASSUME packet \in Seq(0 .. 255), NEW at \in Nat, at + Width <= TotalBits
  PROVE  EmitHeader([width |-> at, value |-> Prefix(at)], HeaderFromBits(PeekAt(at, Width)))
           = [width |-> at + Width, value |-> Prefix(at + Width)]
<1>1. Width \in Nat
  BY FieldEnds
<1>2. /\ PeekAt(at, Width) \in 0 .. Pow2(Width) - 1
      /\ Prefix(at + Width) = Prefix(at) * Pow2(Width) + PeekAt(at, Width)
  BY <1>1, PrefixGrows
<1>3. HeaderToBits(HeaderFromBits(PeekAt(at, Width))) = PeekAt(at, Width)
  BY <1>2, HeaderRoundTrip
<1>4. HeaderFromBits(PeekAt(at, Width)).valid = TRUE
  BY DEF HeaderFromBits
<1> QED BY <1>2, <1>3, <1>4 DEF EmitHeader, Write

(* While headers are extracted in the order they are emitted: the elements     *)
(* below nextIndex hold the first headers of the packet and the others are     *)
(* invalid, h holds the one after them, and the cursor is after them all.      *)
StoredInOrder ==
  /\ \A i \in 1 .. StackSize :
       /\ i <= hs.next_index => hs.elements[i] = HeaderFromBits(PeekAt((i - 1) * Width, Width))
       /\ i > hs.next_index => ~hs.elements[i].valid
  /\ h.valid => h = HeaderFromBits(PeekAt(hs.next_index * Width, Width))
  /\ cursor = hs.next_index * Width + IF h.valid THEN Width ELSE 0

LEMMA EmittedIsPrefix ==
  ASSUME packet \in Seq(0 .. 255), cursor \in 0 .. TotalBits, hs.next_index \in 0 .. StackSize,
         \A k \in 1 .. StackSize : hs.elements[k] \in Header, h \in Header, StoredInOrder
  PROVE  Emitted = [width |-> cursor, value |-> Prefix(cursor)]
<1> DEFINE x == hs.next_index
           n == StackSize
           Up(c) == [width |-> c, value |-> Prefix(c)]
<1>1. PICK buffer \in [0 .. n -> Buffers] :
        /\ Emitted = EmitHeader(buffer[n], h) /\ buffer[0] = EmptyBuffer
        /\ \A k \in 1 .. n : buffer[k] = EmitHeader(buffer[k - 1], hs.elements[k])
  BY EmittedBuffers
<1>2. n \in Nat /\ x \in 0 .. n /\ Width \in Nat /\ TotalBits \in Nat
  BY BitsAssumption, FieldEnds, TakeBytes
<1>3. cursor = x * Width + (IF h.valid THEN Width ELSE 0) /\ cursor <= TotalBits /\ x * Width \in Nat
  <2>1. x * Width \in Nat
    BY <1>2
  <2> QED BY <2>1 DEF StoredInOrder
<1> DEFINE G == {k \in 0 .. n : IF k <= x THEN buffer[k] = Up(k * Width) ELSE buffer[k] = Up(x * Width)}
<1>4. 0 \in G
  <2>1. 0 * Width = 0
    BY <1>2
  <2> QED BY <1>1, <1>2, <2>1, PrefixEnds DEF EmptyBuffer
<1>5. ASSUME NEW k \in 1 .. n, k - 1 \in G PROVE k \in G
  <2>1. buffer[k] = EmitHeader(buffer[k - 1], hs.elements[k])
    BY <1>1
  <2>2. CASE k <= x
    <3>1. buffer[k - 1] = Up((k - 1) * Width)
      BY <1>2, <1>5, <2>2
    <3>2. hs.elements[k] = HeaderFromBits(PeekAt((k - 1) * Width, Width))
      BY <2>2 DEF StoredInOrder
    <3>3. (k - 1) * Width \in Nat /\ (k - 1) * Width + Width = k * Width
      BY <1>2
    <3>4. k * Width <= x * Width
      <4>1. PICK d \in Nat : x = k + d
        <5>1. x - k \in Nat /\ x = k + (x - k)
          BY <1>2, <2>2
        <5> QED BY <5>1
      <4>2. \A a, b, w \in Nat : (a + b) * w = a * w + b * w /\ a * w \in Nat /\ b * w \in Nat
        OBVIOUS
      <4>3. x * Width = k * Width + d * Width /\ k * Width \in Nat /\ d * Width \in Nat
        BY <1>2, <4>1, <4>2
      <4> HIDE DEF x
      <4> QED BY <4>3
    <3>5. (k - 1) * Width + Width <= TotalBits
      <4>1. x * Width <= cursor /\ k * Width \in Nat
        BY <1>2, <1>3
      <4> QED BY <1>2, <1>3, <3>3, <3>4, <4>1
    <3>6. EmitHeader(Up((k - 1) * Width), hs.elements[k]) = Up((k - 1) * Width + Width)
      BY <3>2, <3>3, <3>5, EmitGrows
    <3> QED BY <2>1, <2>2, <3>1, <3>3, <3>6
  <2>3. CASE k > x
    <3>1. ~hs.elements[k].valid
      BY <2>3 DEF StoredInOrder
    <3>2. buffer[k] = buffer[k - 1]
      BY <2>1, <3>1 DEF EmitHeader
    <3>3. buffer[k - 1] = Up(x * Width)
      <4>1. k - 1 <= x => k - 1 = x
        BY <1>2, <2>3
      <4> QED BY <1>5, <4>1
    <3>4. ~(k <= x)
      BY <1>2, <2>3
    <3> QED BY <3>2, <3>3, <3>4
  <2> QED BY <1>2, <2>2, <2>3
<1>6. buffer[n] = Up(x * Width)
  <2>1. n \in G
    <3>1. \A k \in 0 .. n : k \in G
      <4> HIDE DEF G, n
      <4> QED BY <1>2, <1>4, <1>5, Upward
    <3> QED BY <1>2, <3>1
  <2>2. n <= x => n = x
    BY <1>2
  <2> QED BY <2>1, <2>2
<1>7. CASE ~h.valid
  <2>1. Emitted = buffer[n]
    BY <1>1, <1>7 DEF EmitHeader
  <2> QED BY <1>3, <1>6, <1>7, <2>1
<1>8. CASE h.valid
  <2>1. h = HeaderFromBits(PeekAt(x * Width, Width))
    BY <1>8 DEF StoredInOrder
  <2>2. cursor = x * Width + Width
    BY <1>3, <1>8
  <2>3. EmitHeader(Up(x * Width), h) = Up(x * Width + Width)
    BY <1>3, <2>1, <2>2, EmitGrows
  <2> QED BY <1>1, <1>6, <2>2, <2>3
<1> QED BY <1>7, <1>8

LEMMA Rejoined ==
  ASSUME NEW S, NEW s \in Seq(S), NEW m \in 0 .. Len(s)
  PROVE  [i \in 1 .. m |-> s[i]] \o SubSeq(s, m + 1, Len(s)) = s
<1> DEFINE l == Len(s)
           p == SubSeq(s, m + 1, l)
           b == [i \in 1 .. m |-> s[i]]
           c == b \o p
<1>1. l \in Nat /\ m \in 0 .. l /\ \A i \in 1 .. l : s[i] \in S
  BY ElementOfSeq, LenProperties
<1> HIDE DEF l
<1>2. /\ p \in Seq(S) /\ Len(p) = IF m + 1 <= l THEN l - (m + 1) + 1 ELSE 0
      /\ \A i \in 1 .. l - (m + 1) + 1 : p[i] = s[m + 1 + i - 1]
  <2>1. m + 1 \in Int /\ l \in Int /\ \A i \in m + 1 .. l : s[i] \in S
    BY <1>1
  <2> QED BY <2>1, SubSeqProperties
<1> HIDE DEF p
<1>3. Len(p) = l - m /\ \A j \in 1 .. l - m : p[j] = s[m + j]
  <2>1. l - (m + 1) + 1 = l - m /\ \A j \in 1 .. l - m : m + 1 + j - 1 = m + j
    BY <1>1
  <2>2. (IF m + 1 <= l THEN l - (m + 1) + 1 ELSE 0) = l - m
    BY <1>1
  <2> QED BY <1>2, <2>1, <2>2
<1>4. b \in Seq(S) /\ Len(b) = m /\ \A i \in 1 .. m : b[i] = s[i]
  BY <1>1
<1> HIDE DEF b
<1>5. /\ c \in Seq(S) /\ Len(c) = Len(b) + Len(p)
      /\ \A i \in 1 .. Len(b) + Len(p) : c[i] = IF i <= Len(b) THEN b[i] ELSE p[i - Len(b)]
  BY <1>2, <1>4, ConcatProperties
<1> HIDE DEF c
<1>6. Len(b) + Len(p) = l
  BY <1>1, <1>3, <1>4
<1>7. ASSUME NEW i \in 1 .. l PROVE c[i] = s[i]
  <2>1. c[i] = IF i <= m THEN b[i] ELSE p[i - m]
    BY <1>4, <1>5, <1>6
  <2>2. CASE i <= m
    <3>1. i \in 1 .. m
      BY <1>1, <2>2
    <3> QED BY <1>4, <2>1, <2>2, <3>1
  <2>3. CASE i > m
    <3>1. i - m \in 1 .. l - m /\ m + (i - m) = i /\ ~(i <= m)
      BY <1>1, <2>3
    <3> QED BY <1>3, <2>1, <3>1
  <2> QED BY <1>1, <2>2, <2>3
<1>8. c = s
  BY <1>5, <1>6, <1>7, SeqEqual DEF l
<1> QED BY <1>8 DEF c, b, p, l

(* to_bytes and the payload put the packet together again.                     *)
LEMMA BytesArePacket ==
  ASSUME packet \in Seq(0 .. 255), cursor \in 0 .. TotalBits, cursor % 8 = 0
  PROVE  Bytes([width |-> cursor, value |-> Prefix(cursor)]) \o Payload = packet
<1> DEFINE m == cursor \div 8
           l == Len(packet)
           b == Bytes([width |-> cursor, value |-> Prefix(cursor)])
<1>1. /\ l \in Nat /\ TotalBits = 8 * l /\ PacketValue \in Nat
      /\ \A i \in 1 .. l : packet[i] \in Nat /\ (PacketValue \div Pow2(8 * (l - i))) % 256 = packet[i]
  BY TakeBytes DEF TotalBits
<1>2. cursor = 8 * m /\ m \in 0 .. l /\ (cursor + 0) \div 8 = m /\ cursor + 0 = cursor
  <2>1. cursor \in Nat /\ cursor <= 8 * l
    BY <1>1
  <2> QED BY <1>1, <2>1
<1>3. Padding(cursor) = 0
  BY DEF Padding
<1>4. b = [i \in 1 .. m |-> ((Prefix(cursor) * Pow2(0)) \div Pow2(8 * (m - i))) % 256]
  BY <1>2, <1>3 DEF Bytes
<1> HIDE DEF m, l, b
<1>5. ASSUME NEW i \in 1 .. m PROVE ((Prefix(cursor) * Pow2(0)) \div Pow2(8 * (m - i))) % 256 = packet[i]
  <2>1. TotalBits - cursor \in Nat /\ 8 * (m - i) \in Nat
        /\ (TotalBits - cursor) + 8 * (m - i) = 8 * (l - i) /\ i \in 1 .. l
    BY <1>1, <1>2
  <2>2. Prefix(cursor) \in Nat
    <3>1. Pow2(TotalBits - cursor) \in Nat \ {0}
      BY <2>1, PowPositive
    <3> QED BY <1>1, <3>1, DivMod DEF Prefix
  <2>3. Prefix(cursor) * Pow2(0) = Prefix(cursor)
    BY <2>2, PowZero
  <2>4. Prefix(cursor) \div Pow2(8 * (m - i)) = PacketValue \div Pow2(8 * (l - i))
    BY <1>1, <2>1, Split DEF Prefix
  <2> QED BY <1>1, <2>1, <2>3, <2>4
<1>6. b = [i \in 1 .. m |-> packet[i]]
  BY <1>4, <1>5
<1>7. Len(b) = m /\ b \in Seq(0 .. 255)
  <2>1. \A i \in 1 .. m : packet[i] \in 0 .. 255
    BY <1>1, <1>2, PacketNumber DEF l
  <2> QED BY <1>2, <1>6, <2>1
<1>8. Payload = SubSeq(packet, m + 1, Len(packet)) /\ m \in 0 .. Len(packet)
  BY <1>2 DEF Payload, m, l
<1> QED BY <1>6, <1>8, Rejoined DEF b

-----------------------------------------------------------------------------
(* Header stacks                                                               *)

LEMMA ZeroTyped == ZeroHeader \in Header
<1>1. \A i \in DOMAIN Widths : 0 < Pow2(Widths[i])
  <2> TAKE i \in DOMAIN Widths
  <2>1. Pow2(Widths[i]) \in Nat \ {0}
    BY FieldEnds, PowPositive
  <2> QED BY <2>1
<1> QED BY <1>1 DEF ZeroHeader, Header

LEMMA Zeroes ==
  ASSUME NEW n \in Nat
  PROVE  /\ ZeroHeaders(n) \in Seq(Header) /\ Len(ZeroHeaders(n)) = n
         /\ \A i \in 1 .. n : ZeroHeaders(n)[i] = ZeroHeader
  BY ZeroTyped DEF ZeroHeaders

LEMMA Part ==
  ASSUME NEW s \in Seq(Header), NEW m \in Nat, NEW k \in Nat, m + k <= Len(s)
  PROVE  /\ SubSeq(s, m + 1, m + k) \in Seq(Header) /\ Len(SubSeq(s, m + 1, m + k)) = k
         /\ \A i \in 1 .. k : SubSeq(s, m + 1, m + k)[i] = s[m + i]
<1> DEFINE p == SubSeq(s, m + 1, m + k)
<1>1. Len(s) \in Nat /\ \A i \in 1 .. Len(s) : s[i] \in Header
  BY ElementOfSeq, LenProperties
<1>2. m + 1 \in Int /\ m + k \in Int /\ \A i \in m + 1 .. m + k : s[i] \in Header
  BY <1>1
<1>3. /\ p \in Seq(Header) /\ Len(p) = IF m + 1 <= m + k THEN (m + k) - (m + 1) + 1 ELSE 0
      /\ \A i \in 1 .. (m + k) - (m + 1) + 1 : p[i] = s[m + 1 + i - 1]
  BY <1>2, SubSeqProperties
<1> HIDE DEF p
<1>4. (m + k) - (m + 1) + 1 = k /\ \A i \in 1 .. k : m + 1 + i - 1 = m + i
  OBVIOUS
<1>5. (IF m + 1 <= m + k THEN (m + k) - (m + 1) + 1 ELSE 0) = k
  OBVIOUS
<1>6. p \in Seq(Header) /\ Len(p) = k /\ \A i \in 1 .. k : p[i] = s[m + i]
  BY <1>3, <1>4, <1>5
<1> QED BY <1>6 DEF p

LEMMA PushedElements ==
  ASSUME NEW s \in Seq(Header), Len(s) = StackSize, NEW n \in 0 .. StackSize,
         NEW r, r = ZeroHeaders(n) \o SubSeq(s, 1, StackSize - n)
  PROVE  /\ r \in Seq(Header) /\ Len(r) = StackSize
         /\ \A i \in 1 .. StackSize : r[i] = IF i <= n THEN ZeroHeader ELSE s[i - n]
<1> DEFINE z == ZeroHeaders(n)
           p == SubSeq(s, 1, StackSize - n)
           k == StackSize - n
<1>1. n \in Nat /\ k \in Nat /\ n + k = StackSize /\ 0 + k <= Len(s) /\ 0 + 1 = 1 /\ 0 + k = StackSize - n
      /\ \A i \in 1 .. k : 0 + i = i
  BY BitsAssumption
<1>2. z \in Seq(Header) /\ Len(z) = n /\ \A i \in 1 .. n : z[i] = ZeroHeader
  BY <1>1, Zeroes
<1>3. p \in Seq(Header) /\ Len(p) = k /\ \A i \in 1 .. k : p[i] = s[i]
  <2>1. /\ SubSeq(s, 0 + 1, 0 + k) \in Seq(Header) /\ Len(SubSeq(s, 0 + 1, 0 + k)) = k
        /\ \A i \in 1 .. k : SubSeq(s, 0 + 1, 0 + k)[i] = s[0 + i]
    <3> HIDE DEF k
    <3> QED BY <1>1, Part
  <2> QED BY <1>1, <2>1
<1> HIDE DEF z, p, k
<1>4. /\ z \o p \in Seq(Header) /\ Len(z \o p) = n + k
      /\ \A i \in 1 .. n + k : (z \o p)[i] = IF i <= n THEN z[i] ELSE p[i - n]
  <2>1. /\ z \o p \in Seq(Header) /\ Len(z \o p) = Len(z) + Len(p)
        /\ \A i \in 1 .. Len(z) + Len(p) :
             (z \o p)[i] = IF i <= Len(z) THEN z[i] ELSE p[i - Len(z)]
    BY <1>2, <1>3, ConcatProperties
  <2> QED BY <1>2, <1>3, <2>1
<1>5. r = z \o p
  BY DEF z, p
<1>6. ASSUME NEW i \in 1 .. StackSize PROVE r[i] = IF i <= n THEN ZeroHeader ELSE s[i - n]
  <2>1. r[i] = IF i <= n THEN z[i] ELSE p[i - n]
    BY <1>1, <1>4, <1>5
  <2>2. i <= n => i \in 1 .. n
    BY <1>1
  <2>3. ~(i <= n) => i - n \in 1 .. k
    BY <1>1
  <2> QED BY <1>2, <1>3, <2>1, <2>2, <2>3
<1> QED BY <1>1, <1>4, <1>5, <1>6

LEMMA PoppedElements ==
  ASSUME NEW s \in Seq(Header), Len(s) = StackSize, NEW n \in 0 .. StackSize,
         NEW r, r = SubSeq(s, n + 1, StackSize) \o ZeroHeaders(n)
  PROVE  /\ r \in Seq(Header) /\ Len(r) = StackSize
         /\ \A i \in 1 .. StackSize : r[i] = IF i <= StackSize - n THEN s[n + i] ELSE ZeroHeader
<1> DEFINE z == ZeroHeaders(n)
           p == SubSeq(s, n + 1, StackSize)
           k == StackSize - n
<1>1. n \in Nat /\ k \in Nat /\ k + n = StackSize /\ n + k <= Len(s) /\ n + k = StackSize
  BY BitsAssumption
<1>2. z \in Seq(Header) /\ Len(z) = n /\ \A i \in 1 .. n : z[i] = ZeroHeader
  BY <1>1, Zeroes
<1>3. p \in Seq(Header) /\ Len(p) = k /\ \A i \in 1 .. k : p[i] = s[n + i]
  <2>1. /\ SubSeq(s, n + 1, n + k) \in Seq(Header) /\ Len(SubSeq(s, n + 1, n + k)) = k
        /\ \A i \in 1 .. k : SubSeq(s, n + 1, n + k)[i] = s[n + i]
    <3> HIDE DEF k
    <3> QED BY <1>1, Part
  <2> QED BY <1>1, <2>1
<1>7. \A i : i <= StackSize - n <=> i <= k
  OBVIOUS
<1> HIDE DEF z, p, k
<1>4. /\ p \o z \in Seq(Header) /\ Len(p \o z) = k + n
      /\ \A i \in 1 .. k + n : (p \o z)[i] = IF i <= k THEN p[i] ELSE z[i - k]
  <2>1. /\ p \o z \in Seq(Header) /\ Len(p \o z) = Len(p) + Len(z)
        /\ \A i \in 1 .. Len(p) + Len(z) :
             (p \o z)[i] = IF i <= Len(p) THEN p[i] ELSE z[i - Len(p)]
    BY <1>2, <1>3, ConcatProperties
  <2> QED BY <1>2, <1>3, <2>1
<1>5. r = p \o z
  BY DEF z, p
<1>6. ASSUME NEW i \in 1 .. StackSize PROVE r[i] = IF i <= k THEN s[n + i] ELSE ZeroHeader
  <2>1. r[i] = IF i <= k THEN p[i] ELSE z[i - k]
    BY <1>1, <1>4, <1>5
  <2>2. i <= k => i \in 1 .. k
    BY <1>1
  <2>3. ~(i <= k) => i - k \in 1 .. n
    BY <1>1
  <2> QED BY <1>2, <1>3, <2>1, <2>2, <2>3
<1> QED BY <1>1, <1>4, <1>5, <1>6, <1>7

-----------------------------------------------------------------------------
(* Types                                                                       *)

LEMMA SamePacket ==
  ASSUME packet' = packet
  PROVE  /\ TotalBits' = TotalBits /\ PacketValue' = PacketValue
         /\ \A at, n : PeekAt(at, n)' = PeekAt(at, n)
<1>1. TotalBits' = TotalBits
  BY DEF TotalBits
<1>2. PacketValue' = PacketValue
  BY DEF PacketValue
<1> QED BY <1>1, <1>2 DEF PeekAt

LEMMA InRange ==
  ASSUME BitsTypeOK
  PROVE  /\ packet \in Seq(0 .. 255) /\ TotalBits \in Nat /\ cursor \in 0 .. TotalBits
         /\ StackSize \in Nat /\ Width \in Nat /\ hs.next_index \in 0 .. StackSize
         /\ hs.elements \in Seq(Header) /\ Len(hs.elements) = StackSize
         /\ \A i \in 1 .. StackSize : hs.elements[i] \in Header
         /\ hs = [elements |-> hs.elements, next_index |-> hs.next_index] /\ h \in Header
<1>1. packet \in Seq(0 .. 255)
  BY BitsAssumption DEF BitsTypeOK
<1>2. TotalBits \in Nat
  BY <1>1, TakeBytes
<1>3. hs.elements \in Seq(Header) /\ Len(hs.elements) = StackSize
  BY DEF BitsTypeOK
<1>4. \A i \in 1 .. StackSize : hs.elements[i] \in Header
  BY <1>3, ElementOfSeq
<1> QED BY <1>1, <1>2, <1>3, <1>4, BitsAssumption, FieldEnds DEF BitsTypeOK

LEMMA Peeked ==
  ASSUME packet \in Seq(0 .. 255), NEW at \in Nat, NEW n \in Nat, at + n <= TotalBits
  PROVE  PeekAt(at, n) \in Nat /\ HeaderFromBits(PeekAt(at, n)) \in Header
<1>1. PeekAt(at, n) \in 0 .. Pow2(n) - 1 /\ Pow2(n) \in Nat
  BY PrefixGrows, PowPositive
<1>2. PeekAt(at, n) \in Nat
  BY <1>1
<1> QED BY <1>2, HeaderRead

(* The storage of headers and the cursor are all that a statement types anew.  *)
Placed(s, c) ==
  /\ s \in [elements : Seq(Header), next_index : 0 .. StackSize] /\ Len(s.elements) = StackSize
  /\ c \in 0 .. TotalBits

LEMMA StoreTyped ==
  ASSUME NEW s \in [elements : Seq(Header), next_index : 0 .. StackSize], Len(s.elements) = StackSize,
         NEW i \in 1 .. StackSize, NEW x \in Header, NEW m \in 0 .. StackSize
  PROVE  /\ [elements |-> [s.elements EXCEPT ![i] = x], next_index |-> m]
              \in [elements : Seq(Header), next_index : 0 .. StackSize]
         /\ Len([s.elements EXCEPT ![i] = x]) = StackSize
  BY ExceptSeq

LEMMA StartTyped == BitsInit => BitsTypeOK
<1> SUFFICES ASSUME BitsInit PROVE BitsTypeOK
  OBVIOUS
<1>1. packet \in Seq(0 .. 255)
  BY BitsAssumption DEF BitsInit
<1>2. TotalBits \in Nat
  BY <1>1, TakeBytes
<1>3. StackSize \in Nat /\ MaxStatements \in Nat
  BY BitsAssumption
<1>4. /\ ZeroHeaders(StackSize) \in Seq(Header) /\ Len(ZeroHeaders(StackSize)) = StackSize
  BY <1>3, Zeroes
<1>5. hs = [elements |-> ZeroHeaders(StackSize), next_index |-> 0]
  BY DEF BitsInit, ZeroHeaders
<1>6. hs \in [elements : Seq(Header), next_index : 0 .. StackSize] /\ Len(hs.elements) = StackSize
  BY <1>3, <1>4, <1>5
<1>7. <<>> \in Seq(0 .. 255) /\ 0 \in 0 .. TotalBits /\ 0 \in 0 .. MaxStatements
  BY <1>2, <1>3
<1> QED BY <1>6, <1>7, ZeroTyped DEF BitsInit, BitsTypeOK

LEMMA StaysTyped == ASSUME BitsTypeOK, [BitsNext]_bitVars PROVE BitsTypeOK'
<1>1. /\ packet \in Seq(0 .. 255) /\ TotalBits \in Nat /\ cursor \in 0 .. TotalBits
      /\ StackSize \in Nat /\ Width \in Nat /\ hs.next_index \in 0 .. StackSize
      /\ hs.elements \in Seq(Header) /\ Len(hs.elements) = StackSize
      /\ \A i \in 1 .. StackSize : hs.elements[i] \in Header
      /\ hs \in [elements : Seq(Header), next_index : 0 .. StackSize] /\ h \in Header
  BY InRange DEF BitsTypeOK
<1>2. packet' = packet
  BY DEF BitsNext, ExtractNext, ExtractHeader, ExtractIndexed, Advance, PushFront, PopFront, SetValidity,
     Accept, Deparse, Step, bitVars
<1>3. TotalBits' = TotalBits
  BY <1>2, SamePacket
<1> DEFINE Kept == /\ hs' \in [elements : Seq(Header), next_index : 0 .. StackSize]
                   /\ Len(hs'.elements) = StackSize /\ h' \in Header /\ cursor' \in 0 .. TotalBits
           Stopped == /\ stage' \in {"parse", "accepted", "rejected", "sent", "dropped"}
                      /\ error' \in {NoError, "PacketTooShort", "StackOutOfBounds"}
           Flags == inOrder' \in BOOLEAN /\ indexed' \in BOOLEAN
<1>4. ASSUME Step, Kept, Stopped, Flags PROVE BitsTypeOK'
  <2>1. executed' \in 0 .. MaxStatements /\ out' = out
    BY <1>4, BitsAssumption DEF Step, BitsTypeOK
  <2> QED BY <1>2, <1>3, <1>4, <2>1 DEF BitsTypeOK
<1>5. CASE ExtractNext
  <2>1. ASSUME /\ hs.next_index < StackSize /\ Width <= Remaining
               /\ hs' = [elements |-> [hs.elements EXCEPT ![hs.next_index + 1] =
                                         HeaderFromBits(PeekAt(cursor, Width))],
                         next_index |-> hs.next_index + 1]
               /\ cursor' = cursor + Width /\ h' = h
        PROVE  Kept
    <3>1. cursor \in Nat /\ cursor + Width <= TotalBits
      BY <1>1, <2>1 DEF Remaining
    <3>2. HeaderFromBits(PeekAt(cursor, Width)) \in Header
      BY <1>1, <3>1, Peeked
    <3>3. hs.next_index + 1 \in 1 .. StackSize /\ hs.next_index + 1 \in 0 .. StackSize
      BY <1>1, <2>1
    <3>4. hs' \in [elements : Seq(Header), next_index : 0 .. StackSize] /\ Len(hs'.elements) = StackSize
      BY <1>1, <2>1, <3>2, <3>3, StoreTyped
    <3> QED BY <1>1, <2>1, <3>1, <3>4
  <2>2. Kept
    BY <1>1, <1>5, <2>1 DEF ExtractNext, Raise, Continue
  <2>3. Stopped /\ Flags /\ Step
    BY <1>5 DEF ExtractNext, Raise, Continue, BitsTypeOK
  <2> HIDE DEF Kept, Stopped, Flags
  <2> QED BY <1>4, <2>2, <2>3
<1>6. CASE ExtractHeader
  <2>1. ASSUME /\ Width <= Remaining /\ h' = HeaderFromBits(PeekAt(cursor, Width))
               /\ cursor' = cursor + Width /\ hs' = hs
        PROVE  Kept
    <3>1. cursor \in Nat /\ cursor + Width <= TotalBits
      BY <1>1, <2>1 DEF Remaining
    <3>2. HeaderFromBits(PeekAt(cursor, Width)) \in Header
      BY <1>1, <3>1, Peeked
    <3> QED BY <1>1, <2>1, <3>1, <3>2
  <2>2. Kept
    BY <1>1, <1>6, <2>1 DEF ExtractHeader, Raise, Continue
  <2>3. Stopped /\ Flags /\ Step
    BY <1>6 DEF ExtractHeader, Raise, Continue, BitsTypeOK
  <2> HIDE DEF Kept, Stopped, Flags
  <2> QED BY <1>4, <2>2, <2>3
<1>7. ASSUME NEW index \in IndexForms, ExtractIndexed(index) PROVE BitsTypeOK'
  <2> DEFINE end == cursor + Width
             short == Raises(index, cursor) \/ Width > Remaining
  <2>1. ~short => end \in Nat /\ cursor \in Nat /\ cursor + Width <= TotalBits
    BY <1>1 DEF Remaining
  <2>2. ASSUME /\ ~short /\ ~Raises(index, end)
               /\ StoreElement(ValueOf(index, end), HeaderFromBits(PeekAt(cursor, Width)))
               /\ cursor' = end /\ h' = h
        PROVE  Kept
    <3>1. HeaderFromBits(PeekAt(cursor, Width)) \in Header
      BY <1>1, <2>1, <2>2, Peeked
    <3>2. ValueOf(index, end) \in Nat
      <4>1. CASE index.op = "value"
        BY <1>1, <1>7, <4>1 DEF IndexForms, ValueOf
      <4>2. CASE index.op = "lookahead"
        <5>1. index.n \in Nat /\ index.n <= TotalBits - end
          <6>1. index.n \in Nat
            BY <1>7, <4>2, BitsAssumption DEF IndexForms
          <6>2. ~(index.n > TotalBits - end) /\ end \in Nat
            BY <2>1, <2>2, <4>2 DEF Raises
          <6> HIDE DEF end
          <6> QED BY <1>1, <6>1, <6>2
        <5>2. end \in Nat /\ end + index.n <= TotalBits
          BY <1>1, <2>1, <2>2, <5>1
        <5> HIDE DEF end
        <5> QED BY <1>1, <4>2, <5>1, <5>2, Peeked DEF ValueOf
      <4> QED BY <1>7, <4>1, <4>2 DEF IndexForms
    <3>3. ASSUME NEW i \in Nat, NEW x \in Header, StoreElement(i, x)
          PROVE  hs' \in [elements : Seq(Header), next_index : 0 .. StackSize] /\ Len(hs'.elements) = StackSize
      <4>1. CASE i < StackSize
        <5>1. hs' = [elements |-> [hs.elements EXCEPT ![i + 1] = x], next_index |-> hs.next_index]
          BY <1>1, <3>3, <4>1 DEF StoreElement
        <5>2. i + 1 \in 1 .. StackSize
          BY <1>1, <4>1
        <5> QED BY <1>1, <5>1, <5>2, StoreTyped
      <4>2. CASE ~(i < StackSize)
        BY <1>1, <3>3, <4>2 DEF StoreElement
      <4> QED BY <4>1, <4>2
    <3> QED BY <1>1, <2>1, <2>2, <3>1, <3>2, <3>3
  <2>3. Kept
    BY <1>1, <1>7, <2>1, <2>2 DEF ExtractIndexed, Raise, Continue
  <2>4. Stopped /\ Flags /\ Step
    BY <1>7 DEF ExtractIndexed, Raise, Continue, BitsTypeOK
  <2> HIDE DEF Kept, Stopped, Flags
  <2> QED BY <1>4, <2>3, <2>4
<1>8. ASSUME NEW n \in Counts, Advance(n) PROVE BitsTypeOK'
  <2>1. n \in Nat
    BY BitsAssumption
  <2>2. Kept
    BY <1>1, <1>8, <2>1 DEF Advance, Raise, Continue, Remaining
  <2>3. Stopped /\ Flags /\ Step
    BY <1>8 DEF Advance, Raise, Continue, BitsTypeOK
  <2> HIDE DEF Kept, Stopped, Flags
  <2> QED BY <1>4, <2>2, <2>3
<1>9. ASSUME NEW count \in Counts, PushFront(count) PROVE BitsTypeOK'
  <2> DEFINE n == Least(count, StackSize)
             r == ZeroHeaders(n) \o SubSeq(hs.elements, 1, StackSize - n)
             m == Least(hs.next_index + n, StackSize)
  <2>1. n \in 0 .. StackSize
    BY <1>1, BitsAssumption DEF Least
  <2>2. m \in 0 .. StackSize
    <3> HIDE DEF n
    <3> QED BY <1>1, <2>1 DEF Least
  <2>3. r \in Seq(Header) /\ Len(r) = StackSize
    <3> HIDE DEF n
    <3> QED BY <1>1, <2>1, PushedElements
  <2>4. hs' = [elements |-> r, next_index |-> m] /\ h' = h /\ cursor' = cursor
    BY <1>9 DEF PushFront
  <2>5. Kept
    <3> HIDE DEF r, m, n
    <3> QED BY <1>1, <2>2, <2>3, <2>4
  <2>6. Stopped /\ Flags /\ Step
    BY <1>9 DEF PushFront, Continue, BitsTypeOK
  <2> HIDE DEF Kept, Stopped, Flags
  <2> QED BY <1>4, <2>5, <2>6
<1>10. ASSUME NEW count \in Counts, PopFront(count) PROVE BitsTypeOK'
  <2> DEFINE n == Least(count, StackSize)
             r == SubSeq(hs.elements, n + 1, StackSize) \o ZeroHeaders(n)
             m == IF n > hs.next_index THEN 0 ELSE hs.next_index - n
  <2>1. n \in 0 .. StackSize
    BY <1>1, BitsAssumption DEF Least
  <2>2. m \in 0 .. StackSize
    <3> HIDE DEF n
    <3> QED BY <1>1, <2>1
  <2>3. r \in Seq(Header) /\ Len(r) = StackSize
    <3> HIDE DEF n
    <3> QED BY <1>1, <2>1, PoppedElements
  <2>4. hs' = [elements |-> r, next_index |-> m] /\ h' = h /\ cursor' = cursor
    BY <1>10 DEF PopFront
  <2>5. Kept
    <3> HIDE DEF r, m, n
    <3> QED BY <1>1, <2>2, <2>3, <2>4
  <2>6. Stopped /\ Flags /\ Step
    BY <1>10 DEF PopFront, Continue, BitsTypeOK
  <2> HIDE DEF Kept, Stopped, Flags
  <2> QED BY <1>4, <2>5, <2>6
<1>11. ASSUME NEW i \in 0 .. StackSize, NEW valid \in BOOLEAN, SetValidity(i, valid) PROVE BitsTypeOK'
  <2>1. ASSUME i < StackSize PROVE Kept
    <3> DEFINE x == [hs.elements[i + 1] EXCEPT !.valid = valid]
    <3>1. hs' = [elements |-> [hs.elements EXCEPT ![i + 1] = x], next_index |-> hs.next_index]
      BY <1>1, <1>11, <2>1 DEF SetValidity
    <3>2. i + 1 \in 1 .. StackSize
      BY <1>1, <2>1
    <3>3. x \in Header
      BY <1>1, <3>2 DEF Header
    <3> HIDE DEF x
    <3>4. h' = h /\ cursor' = cursor
      BY <1>11 DEF SetValidity
    <3> QED BY <1>1, <3>1, <3>2, <3>3, <3>4, StoreTyped
  <2>2. Kept
    BY <1>1, <1>11, <2>1 DEF SetValidity
  <2>3. Stopped /\ Flags /\ Step
    BY <1>11 DEF SetValidity, Continue, BitsTypeOK
  <2> HIDE DEF Kept, Stopped, Flags
  <2> QED BY <1>4, <2>2, <2>3
<1>12. CASE Accept
  BY <1>2, <1>3, <1>12 DEF Accept, BitsTypeOK
<1>13. CASE Deparse
  <2>1. out' \in Seq(0 .. 255)
    <3>1. Bytes(Emitted) \in Seq(0 .. 255)
      <4>1. Emitted \in Buffers
        BY <1>1, EmittedBuffers
      <4> DEFINE pad == Padding(Emitted.width)
                 n == (Emitted.width + pad) \div 8
                 byte == [i \in 1 .. n |-> ((Emitted.value * Pow2(pad)) \div Pow2(8 * (n - i))) % 256]
      <4>2. Emitted.width \in Nat /\ Emitted.value \in Nat
        BY <4>1 DEF Buffers
      <4>3. pad \in Nat
        BY <4>2 DEF Padding
      <4>4. n \in Nat
        <5> HIDE DEF pad
        <5> QED BY <4>2, <4>3
      <4>5. Bytes(Emitted) = byte
        BY DEF Bytes
      <4> HIDE DEF pad, n
      <4>6. \A i \in 1 .. n : byte[i] \in 0 .. 255
        <5> TAKE i \in 1 .. n
        <5>1. 8 * (n - i) \in Nat
          BY <4>4
        <5>2. Pow2(pad) \in Nat \ {0} /\ Pow2(8 * (n - i)) \in Nat \ {0}
          BY <4>3, <5>1, PowPositive
        <5>3. Emitted.value * Pow2(pad) \in Nat
          <6>1. \A x, y \in Nat : x * y \in Nat
            OBVIOUS
          <6> QED BY <4>2, <5>2, <6>1
        <5>4. (Emitted.value * Pow2(pad)) \div Pow2(8 * (n - i)) \in Nat
          BY <5>2, <5>3, DivMod
        <5>5. \A v \in Nat : v % 256 \in 0 .. 255
          OBVIOUS
        <5>6. ((Emitted.value * Pow2(pad)) \div Pow2(8 * (n - i))) % 256 \in 0 .. 255
          BY <5>4, <5>5
        <5> QED BY <5>6
      <4>7. byte \in Seq(0 .. 255)
        <5>1. byte \in [1 .. n -> 0 .. 255]
          BY <4>6
        <5> HIDE DEF byte
        <5> QED BY <4>4, <5>1
      <4> QED BY <4>5, <4>7
    <3>2. Payload \in Seq(0 .. 255)
      <4>1. cursor \div 8 + 1 \in Int /\ Len(packet) \in Int
            /\ \A i \in cursor \div 8 + 1 .. Len(packet) : packet[i] \in 0 .. 255
        <5>1. Len(packet) \in Nat /\ \A i \in 1 .. Len(packet) : packet[i] \in 0 .. 255
          BY <1>1, PacketNumber
        <5>2. cursor \div 8 \in Nat
          BY <1>1
        <5>3. \A i \in cursor \div 8 + 1 .. Len(packet) : i \in 1 .. Len(packet)
          BY <5>1, <5>2
        <5> QED BY <5>1, <5>2, <5>3
      <4> QED BY <4>1, SubSeqProperties DEF Payload
    <3>3. Bytes(Emitted) \o Payload \in Seq(0 .. 255)
      BY <3>1, <3>2, ConcatProperties
    <3> QED BY <1>13, <3>3 DEF Deparse, BitsTypeOK
  <2> QED BY <1>2, <1>3, <1>13, <2>1 DEF Deparse, BitsTypeOK
<1>14. CASE UNCHANGED bitVars
  BY <1>2, <1>3, <1>14 DEF bitVars, BitsTypeOK
<1> QED BY <1>5, <1>6, <1>7, <1>8, <1>9, <1>10, <1>11, <1>12, <1>13, <1>14 DEF BitsNext

(* BitsTypeOK is an invariant (packet.py, stmt.py, the storage of headers).    *)
THEOREM BitsTypeCorrect == BitsSpec => []BitsTypeOK
<1> QED BY StartTyped, StaysTyped, PTL DEF BitsSpec

-----------------------------------------------------------------------------
(* Next never overwrites                                                       *)

LEMMA InvalidKept ==
  ASSUME BitsTypeOK, NextNeverOverwrites, [BitsNext]_bitVars
  PROVE  NextNeverOverwrites'
<1>1. /\ StackSize \in Nat /\ hs.next_index \in 0 .. StackSize
      /\ hs.elements \in Seq(Header) /\ Len(hs.elements) = StackSize
  BY InRange
<1>2. ASSUME UNCHANGED <<hs, indexed>> PROVE NextNeverOverwrites'
  BY <1>2 DEF NextNeverOverwrites
<1>3. ASSUME indexed' = TRUE PROVE NextNeverOverwrites'
  BY <1>3 DEF NextNeverOverwrites
<1>4. CASE ExtractNext
  <2>1. ASSUME hs.next_index < StackSize, indexed' = indexed,
               NEW x, hs' = [elements |-> [hs.elements EXCEPT ![hs.next_index + 1] = x],
                             next_index |-> hs.next_index + 1]
        PROVE  NextNeverOverwrites'
    <3>1. SUFFICES ASSUME ~indexed, NEW i \in 1 .. StackSize, i > hs.next_index + 1
                   PROVE  ~hs'.elements[i].valid
      BY <2>1 DEF NextNeverOverwrites
    <3>2. i > hs.next_index /\ i # hs.next_index + 1
      BY <1>1, <3>1
    <3>3. hs'.elements[i] = hs.elements[i]
      BY <1>1, <2>1, <3>2
    <3> QED BY <3>1, <3>2, <3>3 DEF NextNeverOverwrites
  <2> QED BY <1>2, <1>4, <2>1 DEF ExtractNext, Raise
<1>5. CASE ExtractHeader
  <2>1. UNCHANGED <<hs, indexed>>
    BY <1>5 DEF ExtractHeader, Raise
  <2> QED BY <1>2, <2>1
<1>6. ASSUME NEW index \in IndexForms, ExtractIndexed(index) PROVE NextNeverOverwrites'
  BY <1>3, <1>6 DEF ExtractIndexed
<1>7. ASSUME NEW n \in Counts, Advance(n) PROVE NextNeverOverwrites'
  <2>1. UNCHANGED <<hs, indexed>>
    BY <1>7 DEF Advance, Raise
  <2> QED BY <1>2, <2>1
<1>8. ASSUME NEW count \in Counts, PushFront(count) PROVE NextNeverOverwrites'
  <2> DEFINE n == Least(count, StackSize)
             r == ZeroHeaders(n) \o SubSeq(hs.elements, 1, StackSize - n)
             m == Least(hs.next_index + n, StackSize)
  <2>1. n \in 0 .. StackSize
    BY <1>1, BitsAssumption DEF Least
  <2>2. hs' = [elements |-> r, next_index |-> m] /\ indexed' = indexed
    BY <1>8 DEF PushFront
  <2> HIDE DEF n
  <2>3. \A i \in 1 .. StackSize : r[i] = IF i <= n THEN ZeroHeader ELSE hs.elements[i - n]
    <3>1. r = ZeroHeaders(n) \o SubSeq(hs.elements, 1, StackSize - n)
      OBVIOUS
    <3> HIDE DEF r, m
    <3>2. /\ r \in Seq(Header) /\ Len(r) = StackSize
          /\ \A i \in 1 .. StackSize : r[i] = IF i <= n THEN ZeroHeader ELSE hs.elements[i - n]
      BY <1>1, <2>1, <3>1, PushedElements, Zenon
    <3> QED BY <3>2
  <2> HIDE DEF r
  <2>4. SUFFICES ASSUME ~indexed, NEW i \in 1 .. StackSize, i > m PROVE ~r[i].valid
    BY <2>2 DEF NextNeverOverwrites
  <2>5. i > hs.next_index + n
    BY <1>1, <2>1, <2>4 DEF Least
  <2>6. i - n \in 1 .. StackSize /\ i - n > hs.next_index /\ ~(i <= n)
    BY <1>1, <2>1, <2>5
  <2> QED BY <2>3, <2>4, <2>6 DEF NextNeverOverwrites
<1>9. ASSUME NEW count \in Counts, PopFront(count) PROVE NextNeverOverwrites'
  <2> DEFINE n == Least(count, StackSize)
             r == SubSeq(hs.elements, n + 1, StackSize) \o ZeroHeaders(n)
             m == IF n > hs.next_index THEN 0 ELSE hs.next_index - n
  <2>1. n \in 0 .. StackSize
    BY <1>1, BitsAssumption DEF Least
  <2>2. hs' = [elements |-> r, next_index |-> m] /\ indexed' = indexed
    BY <1>9 DEF PopFront
  <2> HIDE DEF n
  <2>3. \A i \in 1 .. StackSize : r[i] = IF i <= StackSize - n THEN hs.elements[n + i] ELSE ZeroHeader
    BY <1>1, <2>1, PoppedElements
  <2> HIDE DEF r
  <2>4. SUFFICES ASSUME ~indexed, NEW i \in 1 .. StackSize, i > m PROVE ~r[i].valid
    BY <2>2 DEF NextNeverOverwrites
  <2>5. CASE i <= StackSize - n
    <3>1. n + i \in 1 .. StackSize /\ n + i > hs.next_index
      BY <1>1, <2>1, <2>4, <2>5
    <3> QED BY <2>3, <2>4, <2>5, <3>1 DEF NextNeverOverwrites
  <2>6. CASE ~(i <= StackSize - n)
    BY <2>3, <2>4, <2>6 DEF ZeroHeader
  <2> QED BY <2>5, <2>6
<1>10. ASSUME NEW i \in 0 .. StackSize, NEW valid \in BOOLEAN, SetValidity(i, valid) PROVE NextNeverOverwrites'
  BY <1>3, <1>10 DEF SetValidity
<1>11. CASE Accept \/ Deparse \/ UNCHANGED bitVars
  <2>1. UNCHANGED <<hs, indexed>>
    BY <1>11 DEF Accept, Deparse, bitVars
  <2> QED BY <1>2, <2>1
<1> QED BY <1>4, <1>5, <1>6, <1>7, <1>8, <1>9, <1>10, <1>11 DEF BitsNext

-----------------------------------------------------------------------------
(* Pass-through                                                                *)

LEMMA OrderKept ==
  ASSUME BitsTypeOK, inOrder => StoredInOrder, NextNeverOverwrites, [BitsNext]_bitVars, inOrder'
  PROVE  inOrder /\ StoredInOrder'
<1>1. /\ packet \in Seq(0 .. 255) /\ TotalBits \in Nat /\ cursor \in 0 .. TotalBits
      /\ StackSize \in Nat /\ Width \in Nat /\ hs.next_index \in 0 .. StackSize
      /\ hs.elements \in Seq(Header) /\ Len(hs.elements) = StackSize
  BY InRange
<1>2. packet' = packet
  BY DEF BitsNext, ExtractNext, ExtractHeader, ExtractIndexed, Advance, PushFront, PopFront, SetValidity,
     Accept, Deparse, Step, bitVars
<1>3. \A at, n : PeekAt(at, n)' = PeekAt(at, n)
  BY <1>2, SamePacket
<1> DEFINE Read(at) == HeaderFromBits(PeekAt(at, Width))
           x == hs.next_index
<1>4. SUFFICES ASSUME inOrder, StoredInOrder PROVE StoredInOrder'
  <2>1. inOrder
    BY DEF BitsNext, ExtractNext, ExtractHeader, ExtractIndexed, Advance, PushFront, PopFront, SetValidity,
       Accept, Deparse, Step, bitVars, BitsTypeOK
  <2> QED BY <2>1
<1>5. /\ \A i \in 1 .. StackSize : /\ i <= x => hs.elements[i] = Read((i - 1) * Width)
                                   /\ i > x => ~hs.elements[i].valid
      /\ h.valid => h = Read(x * Width)
      /\ cursor = x * Width + IF h.valid THEN Width ELSE 0
  BY <1>4 DEF StoredInOrder
<1>6. ASSUME /\ \A i \in 1 .. StackSize : /\ i <= hs'.next_index => hs'.elements[i] = Read((i - 1) * Width)
                                          /\ i > hs'.next_index => ~hs'.elements[i].valid
             /\ h'.valid => h' = Read(hs'.next_index * Width)
             /\ cursor' = hs'.next_index * Width + IF h'.valid THEN Width ELSE 0
      PROVE  StoredInOrder'
  BY <1>3, <1>6 DEF StoredInOrder
<1>7. ASSUME UNCHANGED <<hs, h, cursor>> PROVE StoredInOrder'
  BY <1>5, <1>6, <1>7
<1>8. CASE ExtractNext
  <2>1. ~h.valid
    BY <1>8 DEF ExtractNext
  <2>2. ASSUME x < StackSize, h' = h, cursor' = cursor + Width,
               hs' = [elements |-> [hs.elements EXCEPT ![x + 1] = Read(cursor)], next_index |-> x + 1]
        PROVE  StoredInOrder'
    <3>1. cursor = x * Width /\ x * Width \in Nat
      BY <1>1, <1>5, <2>1
    <3>2. cursor' = (x + 1) * Width
      BY <1>1, <2>2, <3>1
    <3>3. cursor' = hs'.next_index * Width + IF h'.valid THEN Width ELSE 0
      <4>1. (x + 1) * Width \in Nat
        BY <1>1
      <4> HIDE DEF x
      <4> QED BY <2>1, <2>2, <3>2, <4>1
    <3>4. ASSUME NEW i \in 1 .. StackSize
          PROVE  /\ i <= hs'.next_index => hs'.elements[i] = Read((i - 1) * Width)
                 /\ i > hs'.next_index => ~hs'.elements[i].valid
      <4>1. CASE i = x + 1
        <5>1. hs'.elements[i] = Read(x * Width) /\ i - 1 = x /\ hs'.next_index = x + 1
          BY <1>1, <2>2, <3>1, <4>1
        <5>2. ~(i > x + 1)
          BY <1>1, <4>1
        <5> HIDE DEF x, Read
        <5> QED BY <5>1, <5>2
      <4>2. CASE i # x + 1
        <5>1. hs'.elements[i] = hs.elements[i] /\ hs'.next_index = x + 1
          BY <1>1, <2>2, <4>2
        <5>2. (i <= x + 1 => i <= x) /\ (i > x + 1 => i > x)
          BY <1>1, <4>2
        <5> HIDE DEF x, Read
        <5> QED BY <1>5, <5>1, <5>2
      <4> QED BY <4>1, <4>2
    <3> HIDE DEF x, Read
    <3> QED BY <1>6, <2>1, <2>2, <3>3, <3>4
  <2> QED BY <1>7, <1>8, <2>2 DEF ExtractNext, Raise
<1>9. CASE ExtractHeader
  <2>1. ~h.valid
    BY <1>9 DEF ExtractHeader
  <2>2. ASSUME hs' = hs, h' = Read(cursor), cursor' = cursor + Width
        PROVE  StoredInOrder'
    <3>1. cursor = x * Width
      BY <1>1, <1>5, <2>1
    <3>2. h'.valid
      BY <2>2 DEF HeaderFromBits
    <3> HIDE DEF Read
    <3> QED BY <1>5, <1>6, <2>2, <3>1, <3>2
  <2> QED BY <1>7, <1>9, <2>2 DEF ExtractHeader, Raise
<1>10. CASE Accept \/ Deparse \/ UNCHANGED bitVars
  <2>1. UNCHANGED <<hs, h, cursor>>
    BY <1>10 DEF Accept, Deparse, bitVars
  <2> QED BY <1>7, <2>1
<1> QED BY <1>8, <1>9, <1>10 DEF BitsNext, ExtractIndexed, Advance, PushFront, PopFront, SetValidity

(* The inductive invariant of packet bits.                                     *)
BitsInv ==
  /\ BitsTypeOK /\ NextNeverOverwrites
  /\ inOrder => StoredInOrder
  /\ PassThrough

LEMMA BitsStart == BitsInit => BitsInv
<1> SUFFICES ASSUME BitsInit PROVE BitsInv
  OBVIOUS
<1>1. BitsTypeOK
  BY StartTyped
<1>2. StackSize \in Nat /\ Width \in Nat
  BY BitsAssumption, FieldEnds
<1>3. /\ hs.next_index = 0 /\ cursor = 0 /\ ~h.valid /\ stage = "parse"
      /\ \A i \in 1 .. StackSize : ~hs.elements[i].valid
  BY DEF BitsInit, ZeroHeader
<1>4. StoredInOrder
  <2>1. 0 * Width = 0
    BY <1>2
  <2>2. \A i \in 1 .. StackSize : ~(i <= 0)
    OBVIOUS
  <2> QED BY <1>3, <2>1, <2>2 DEF StoredInOrder
<1> QED BY <1>1, <1>3, <1>4 DEF BitsInv, NextNeverOverwrites, PassThrough

LEMMA BitsStays == BitsInv /\ [BitsNext]_bitVars => BitsInv'
<1> SUFFICES ASSUME BitsInv, [BitsNext]_bitVars PROVE BitsInv'
  OBVIOUS
<1>1. BitsTypeOK' /\ NextNeverOverwrites'
  BY StaysTyped, InvalidKept DEF BitsInv
<1>2. inOrder' => inOrder /\ StoredInOrder'
  BY OrderKept DEF BitsInv
<1>3. PassThrough'
  <2>1. SUFFICES ASSUME stage' = "sent", inOrder' PROVE out' = packet'
    BY DEF PassThrough
  <2>2. inOrder /\ StoredInOrder
    BY <1>2, <2>1 DEF BitsInv
  <2>3. CASE Deparse
    <3>1. /\ packet \in Seq(0 .. 255) /\ cursor \in 0 .. TotalBits /\ hs.next_index \in 0 .. StackSize
          /\ \A i \in 1 .. StackSize : hs.elements[i] \in Header
          /\ h \in Header
      BY InRange DEF BitsInv
    <3>2. Emitted = [width |-> cursor, value |-> Prefix(cursor)]
      BY <2>2, <3>1, EmittedIsPrefix
    <3>3. cursor % 8 = 0 /\ out' = Bytes(Emitted) \o Payload /\ packet' = packet
      BY <2>1, <2>3 DEF Deparse
    <3> QED BY <3>1, <3>2, <3>3, BytesArePacket
  <2>4. CASE ~Deparse
    <3>1. UNCHANGED <<stage, out, packet>>
      BY <2>1, <2>4 DEF BitsNext, ExtractNext, ExtractHeader, ExtractIndexed, Advance, PushFront, PopFront,
         SetValidity, Accept, Step, Continue, Raise, bitVars
    <3> QED BY <2>1, <2>2, <3>1 DEF BitsInv, PassThrough
  <2> QED BY <2>3, <2>4
<1> QED BY <1>1, <1>2, <1>3 DEF BitsInv

THEOREM BitsInvariant == BitsSpec => []BitsInv
<1> QED BY BitsStart, BitsStays, PTL DEF BitsSpec

(* Headers extracted in the order they are emitted give back the packet, and   *)
(* a stack filled through next is invalid from nextIndex on (Packet.read,      *)
(* header_from_bits, header_to_bits, Emitter.write, to_bytes, push, pop).      *)
THEOREM PacketsAreKept == BitsSpec => []PacketsKept
<1>1. BitsInv => PacketsKept
  BY DEF BitsInv, PacketsKept
<1> QED BY <1>1, BitsInvariant, PTL

(* A statement that raises has read and written nothing (stmt.extract,         *)
(* Packet.read, Packet.advance), an extract whose index looks ahead apart.     *)
THEOREM RaisesChangeNothing == BitsSpec => RaiseChangesNothing
<1> DEFINE Raised == error # error' =>
             /\ UNCHANGED <<hs, h>>
             /\ UNCHANGED cursor \/ \E n \in LookaheadBits : ExtractIndexed([op |-> "lookahead", n |-> n])
<1>1. ASSUME [BitsNext]_bitVars, error # error' PROVE Raised
  <2>1. CASE ExtractNext
    BY <1>1, <2>1 DEF ExtractNext, Raise, Continue
  <2>2. CASE ExtractHeader
    BY <1>1, <2>2 DEF ExtractHeader, Raise, Continue
  <2>3. ASSUME NEW index \in IndexForms, ExtractIndexed(index) PROVE Raised
    <3>1. UNCHANGED <<hs, h>>
      BY <1>1, <2>3 DEF ExtractIndexed, Raise, Continue
    <3>2. UNCHANGED cursor \/ Raises(index, cursor + Width)
      BY <1>1, <2>3 DEF ExtractIndexed, Raise, Continue
    <3>3. CASE Raises(index, cursor + Width)
      <4>1. index.n \in LookaheadBits /\ index = [op |-> "lookahead", n |-> index.n]
        BY <2>3, <3>3 DEF Raises, IndexForms
      <4> QED BY <2>3, <3>1, <4>1
    <3> QED BY <3>1, <3>2, <3>3
  <2>4. ASSUME NEW n \in Counts, Advance(n) PROVE Raised
    BY <1>1, <2>4 DEF Advance, Raise, Continue
  <2>5. error' = error \/ ExtractNext \/ ExtractHeader \/ (\E index \in IndexForms : ExtractIndexed(index))
        \/ \E n \in Counts : Advance(n)
    BY <1>1 DEF BitsNext, PushFront, PopFront, SetValidity, Continue, Accept, Deparse, bitVars
  <2> QED BY <1>1, <2>1, <2>2, <2>3, <2>4, <2>5
<1>2. [BitsNext]_bitVars => [Raised]_bitVars
  BY <1>1
<1> QED BY <1>2, PTL DEF BitsSpec, RaiseChangesNothing

-----------------------------------------------------------------------------
(* Objects of the heap.                                                        *)

HeapOK(hp) ==
  /\ hp = [n \in DOMAIN hp |-> hp[n]]
  /\ IsFiniteSet(DOMAIN hp) /\ DOMAIN hp \subseteq Nat \ {0}

FreshFor(hp, n, refs) ==
  /\ refs \in [1 .. n -> Nat \ {0}]
  /\ \A i \in 1 .. n : refs[i] \notin DOMAIN hp
  /\ \A i, j \in 1 .. n : refs[i] = refs[j] => i = j

(* There are always enough unused references.                                  *)
LEMMA RefsAreFresh ==
  ASSUME NEW hp, HeapOK(hp), NEW n \in Nat
  PROVE  FreshFor(hp, n, FreshRefs(hp, n))
<1> DEFINE D == DOMAIN hp
           c == Cardinality(D)
           I == 1 .. c + n
           T == I \ D
           F == [1 .. n -> I]
           P(refs) == /\ \A i \in 1 .. n : refs[i] \notin D
                      /\ \A i, j \in 1 .. n : refs[i] = refs[j] => i = j
<1>1. IsFiniteSet(D)
  BY DEF HeapOK
<1>2. c \in Nat
  BY <1>1, FS_CardinalityType
<1> HIDE DEF D, c
<1>3. IsFiniteSet(I) /\ Cardinality(I) = c + n
  <2>1. c + n \in Int /\ 1 \in Int /\ (1 > c + n => c + n = 0) /\ (c + n) - 1 + 1 = c + n
    BY <1>2
  <2> HIDE DEF I
  <2>2. IsFiniteSet(I) /\ Cardinality(I) = IF 1 > c + n THEN 0 ELSE (c + n) - 1 + 1
    BY <2>1, FS_Interval DEF I
  <2> QED BY <2>1, <2>2
<1>4. IsFiniteSet(T) /\ Cardinality(T) \in Nat /\ Cardinality(T) >= n
  <2> HIDE DEF I
  <2>1. IsFiniteSet(T) /\ Cardinality(T) = Cardinality(I) - Cardinality(I \cap D)
    BY <1>3, FS_Difference
  <2>2. IsFiniteSet(D \cap I) /\ Cardinality(D \cap I) <= c
    BY <1>1, FS_Intersection DEF c
  <2>3. D \cap I = I \cap D
    OBVIOUS
  <2> DEFINE d == Cardinality(I \cap D)
             t == Cardinality(T)
  <2>4. d \in Nat /\ d <= c
    BY <2>2, <2>3, FS_CardinalityType
  <2>5. t \in Nat /\ t = (c + n) - d
    BY <1>3, <2>1, FS_CardinalityType
  <2> HIDE DEF T, d, t
  <2>6. t >= n
    BY <1>2, <2>4, <2>5
  <2> QED BY <2>1, <2>5, <2>6 DEF t
<1>5. PICK b : b \in Bijection(1 .. Cardinality(T), T)
  <2> HIDE DEF T
  <2> QED BY <1>4, FS_CardinalityType DEF ExistsBijection
<1> DEFINE f == [i \in 1 .. n |-> b[i]]
<1>6. \A i \in 1 .. n : i \in 1 .. Cardinality(T)
  <2> HIDE DEF T
  <2> QED BY <1>4
<1>7. /\ \A i \in 1 .. Cardinality(T) : b[i] \in T
      /\ \A i, j \in 1 .. Cardinality(T) : b[i] = b[j] => i = j
  <2> DEFINE z == Cardinality(T)
  <2> HIDE DEF T, z
  <2>1. b \in Bijection(1 .. z, T)
    BY <1>5 DEF z
  <2>2. b \in Injection(1 .. z, T)
    BY <2>1 DEF Bijection
  <2>3. /\ \A i \in 1 .. z : b[i] \in T
        /\ \A i, j \in 1 .. z : b[i] = b[j] => i = j
    BY <2>2 DEF Injection, IsInjective
  <2> QED BY <2>3 DEF z
<1>8. f \in F /\ P(f)
  BY <1>6, <1>7
<1>9. FreshRefs(hp, n) \in F /\ P(FreshRefs(hp, n))
  <2>1. FreshRefs(hp, n) = CHOOSE refs \in F : P(refs)
    BY DEF FreshRefs, D, c
  <2> HIDE DEF F, P, f
  <2> QED BY <1>8, <2>1
<1>10. I \subseteq Nat \ {0}
  BY <1>2
<1> QED BY <1>9, <1>10 DEF FreshFor, D

(* PlaceAll adds its objects and changes nothing else.                         *)
Added(hp, new, n, list) ==
  /\ FreshFor(hp, n, new.refs) /\ HeapOK(new.heap)
  /\ DOMAIN new.heap = DOMAIN hp \cup {new.refs[i] : i \in 1 .. n}
  /\ \A x \in DOMAIN hp : new.heap[x] = hp[x]
  /\ \A i \in 1 .. n : new.heap[new.refs[i]] = list[i]

LEMMA AllPlaced ==
  ASSUME NEW hp, HeapOK(hp), NEW n \in Nat, NEW list, Len(list) = n
  PROVE  Added(hp, PlaceAll(hp, list), n, list)
<1> DEFINE refs == FreshRefs(hp, n)
           taken == {refs[i] : i \in 1 .. n}
           D == DOMAIN hp
           Of(x) == CHOOSE i \in 1 .. n : refs[i] = x
           new == PlaceAll(hp, list)
<1>1. FreshFor(hp, n, refs)
  BY RefsAreFresh
<1>2. new = [heap |-> [x \in D \cup taken |-> IF x \in D THEN hp[x] ELSE list[Of(x)]], refs |-> refs]
  BY DEF PlaceAll
<1>3. \A i \in 1 .. n : Of(refs[i]) = i
  BY <1>1 DEF FreshFor
<1>4. IsFiniteSet(taken)
  <2> DEFINE s == [i \in 1 .. n |-> refs[i]]
  <2>1. s \in Surjection(1 .. n, taken)
    BY DEF Surjection
  <2>2. ExistsSurjection(1 .. n, taken)
    <3> HIDE DEF s, taken
    <3> QED BY <2>1 DEF ExistsSurjection
  <2> HIDE DEF taken
  <2> QED BY <2>2, FS_NatSurjection
<1>5. IsFiniteSet(D \cup taken) /\ D \cup taken \subseteq Nat \ {0}
  <2>1. IsFiniteSet(D \cup taken)
    <3> HIDE DEF taken
    <3> QED BY <1>4, FS_Union DEF HeapOK
  <2> QED BY <1>1, <2>1 DEF HeapOK, FreshFor
<1> HIDE DEF refs, Of, new
<1>6. HeapOK(new.heap) /\ DOMAIN new.heap = D \cup taken /\ new.refs = refs
  <2> HIDE DEF taken
  <2> QED BY <1>2, <1>5 DEF HeapOK
<1>7. \A x \in D : new.heap[x] = hp[x]
  BY <1>2
<1>8. \A i \in 1 .. n : new.heap[refs[i]] = list[i]
  BY <1>1, <1>2, <1>3 DEF FreshFor
<1> QED BY <1>1, <1>6, <1>7, <1>8 DEF Added, new

LEMMA OnePlaced ==
  ASSUME NEW hp, HeapOK(hp), NEW object
  PROVE  LET new == Place(hp, object) IN
         /\ new.ref \in Nat \ {0} /\ new.ref \notin DOMAIN hp /\ HeapOK(new.heap)
         /\ DOMAIN new.heap = DOMAIN hp \cup {new.ref}
         /\ \A x \in DOMAIN hp : new.heap[x] = hp[x]
         /\ new.heap[new.ref] = object
<1> DEFINE one == PlaceAll(hp, <<object>>)
<1>1. Added(hp, one, 1, <<object>>)
  BY AllPlaced
<1>2. Place(hp, object) = [heap |-> one.heap, ref |-> one.refs[1]]
  BY DEF Place
<1> HIDE DEF one
<1>3. 1 .. 1 = {1} /\ <<object>>[1] = object
  OBVIOUS
<1> QED BY <1>1, <1>2, <1>3 DEF Added, FreshFor

-----------------------------------------------------------------------------
(* What the memory of a block looks like.                                      *)

AnyLValue ==
  [var : {"h", "s", "p"}, index : {NoSelector}]
    \cup [var : StackVars, index : (0 .. Elements) \cup {AtVariable}]
HeaderObjects == [is : {"header"}, valid : BOOLEAN, f : Bit]
Structs(refs) == [is : {"struct"}, field : refs]
Stacks(refs) == [is : {"stack"}, elems : [1 .. Elements -> refs], next : 0 .. Elements]
Envs(refs) == [h : refs, s : refs, t : refs, u : refs, i : 0 .. Elements]
Calls(refs) == [kind : {"call"}, dir : {"in", "out", "inout"}, arg : {lv \in AnyLValue : lv.var # "p"}, p : refs]
Applies == [kind : {"apply"}, lv : {lv \in AnyLValue : lv.var # "p"}, hit : Bit]

Shaped(m) ==
  /\ m = [heap |-> m.heap, env |-> m.env, frame |-> m.frame]
  /\ HeapOK(m.heap)
  /\ m.env \in Envs(DOMAIN m.heap)
  /\ m.frame \in {NoFrame} \cup Calls(DOMAIN m.heap) \cup Applies
  /\ m.heap[m.env.s] \in Structs(DOMAIN m.heap)
  /\ \A x \in StackVars : m.heap[m.env[x]] \in Stacks(DOMAIN m.heap)

(* Every header that can be named is an object of its own.                     *)
Distinct(m) ==
  /\ m.env.t # m.env.u
  /\ \A x \in Places(m) : RefIn(m, x) \in DOMAIN m.heap /\ m.heap[RefIn(m, x)] \in HeaderObjects
  /\ \A x, y \in Places(m) : RefIn(m, x) = RefIn(m, y) => x = y
Good(m) == Shaped(m) /\ Distinct(m)

Named(m, lv) == lv \in AnyLValue /\ (lv.var = "p" => m.frame.kind = "call")

(* What the shapes say of one memory, one fact at a time.                      *)
LEMMA ShapeFacts ==
  ASSUME NEW m, Shaped(m)
  PROVE  /\ m.env.h \in DOMAIN m.heap /\ m.env.s \in DOMAIN m.heap
         /\ m.env.t \in DOMAIN m.heap /\ m.env.u \in DOMAIN m.heap
         /\ m.env.i \in 0 .. Elements
         /\ m.heap[m.env.s].is = "struct" /\ m.heap[m.env.s].field \in DOMAIN m.heap
         /\ \A x \in StackVars :
              /\ m.env[x] \in DOMAIN m.heap /\ m.heap[m.env[x]].is = "stack"
              /\ m.heap[m.env[x]].elems \in [1 .. Elements -> DOMAIN m.heap]
              /\ m.heap[m.env[x]].next \in 0 .. Elements
         /\ m.frame.kind = "call" => m.frame \in Calls(DOMAIN m.heap) /\ m.frame.p \in DOMAIN m.heap
         /\ NoRef \notin DOMAIN m.heap
<1>1. m.env \in Envs(DOMAIN m.heap) /\ m.env.i \in 0 .. Elements
  BY DEF Shaped, Envs
<1>2. m.heap[m.env.s] \in Structs(DOMAIN m.heap)
  BY DEF Shaped
<1>3. \A x \in StackVars : m.heap[m.env[x]] \in Stacks(DOMAIN m.heap)
  BY DEF Shaped
<1>4. m.frame.kind = "call" => m.frame \in Calls(DOMAIN m.heap)
  BY DEF Shaped, NoFrame, Applies
<1>5. NoRef \notin DOMAIN m.heap
  BY DEF Shaped, HeapOK, NoRef
<1>6. \A x \in StackVars : m.env[x] \in DOMAIN m.heap
  BY <1>1 DEF Envs, StackVars
<1>7. m.heap[m.env.s].is = "struct" /\ m.heap[m.env.s].field \in DOMAIN m.heap
  BY <1>2 DEF Structs
<1>8. \A x \in StackVars :
        /\ m.heap[m.env[x]].is = "stack"
        /\ m.heap[m.env[x]].elems \in [1 .. Elements -> DOMAIN m.heap]
        /\ m.heap[m.env[x]].next \in 0 .. Elements
  BY <1>3 DEF Stacks
<1>9. m.frame.kind = "call" => m.frame.p \in DOMAIN m.heap
  BY <1>4 DEF Calls
<1> QED BY <1>1, <1>4, <1>5, <1>6, <1>7, <1>8, <1>9 DEF Envs

(* The places of a memory, and what each refers to.                            *)
LEMMA PlaceCases ==
  ASSUME NEW m, NEW x
  PROVE  x \in Places(m) <=>
           \/ x = [var |-> "h", index |-> NoSelector] \/ x = [var |-> "s", index |-> NoSelector]
           \/ x = Param /\ m.frame.kind = "call"
           \/ \E v \in StackVars, k \in 0 .. Elements - 1 : x = [var |-> v, index |-> k]
  BY DEF Places, Param

LEMMA PlaceRefs ==
  ASSUME NEW m
  PROVE  /\ RefIn(m, [var |-> "h", index |-> NoSelector]) = m.env.h
         /\ RefIn(m, [var |-> "s", index |-> NoSelector]) = m.heap[m.env.s].field
         /\ RefIn(m, Param) = m.frame.p
         /\ \A v \in StackVars, k \in 0 .. Elements - 1 :
              RefIn(m, [var |-> v, index |-> k]) = m.heap[m.env[v]].elems[k + 1]
<1>1. \A v \in StackVars, k \in 0 .. Elements - 1 :
        RefIn(m, [var |-> v, index |-> k]) = m.heap[m.env[v]].elems[k + 1]
  <2> TAKE v \in StackVars, k \in 0 .. Elements - 1
  <2> DEFINE x == [var |-> v, index |-> k]
  <2>1. v # "p" /\ v # "h" /\ v # "s" /\ k # AtVariable /\ k < Elements
    BY StorageAssumption DEF StackVars, AtVariable
  <2>2. IndexIn(m.env, x) = k
    BY <2>1 DEF IndexIn
  <2> QED BY <2>1, <2>2 DEF RefIn
<1> QED BY <1>1 DEF RefIn, Param

(* A name that can be used denotes a place, or an element past the end.        *)
LEMMA Denotes ==
  ASSUME NEW m, Shaped(m), Distinct(m), NEW lv, Named(m, lv)
  PROVE  LET x == Resolved(m.env, lv) IN
         /\ x \in AnyLValue /\ x.var = lv.var /\ x.index = IndexIn(m.env, lv) /\ x.index # AtVariable
         /\ RefIn(m, x) = RefIn(m, lv)
         /\ x \notin Places(m) =>
              /\ lv.var \in StackVars /\ IndexIn(m.env, lv) = Elements /\ RefIn(m, lv) = NoRef
         /\ x \in Places(m) =>
              /\ RefIn(m, lv) \in DOMAIN m.heap /\ RefIn(m, lv) # NoRef
              /\ m.heap[RefIn(m, lv)] \in HeaderObjects
              /\ lv.var \in StackVars => IndexIn(m.env, lv) \in 0 .. Elements - 1
<1> DEFINE x == Resolved(m.env, lv)
           k == IndexIn(m.env, lv)
<1>1. lv = [var |-> lv.var, index |-> lv.index]
  BY DEF Named, AnyLValue
<1>2. x = [var |-> lv.var, index |-> k]
  BY <1>1 DEF Resolved
<1>3. m.env.i \in 0 .. Elements
  BY ShapeFacts
<1>4. CASE lv.var \in {"h", "s", "p"}
  <2>1. lv.index = NoSelector
    BY <1>4 DEF Named, AnyLValue, StackVars
  <2>2. k = NoSelector /\ x = lv
    BY <1>1, <1>2, <2>1 DEF IndexIn, NoSelector, AtVariable
  <2>3. lv \in Places(m)
    BY <1>1, <1>4, <2>1 DEF Places, Param, Named
  <2>4. RefIn(m, lv) \in DOMAIN m.heap /\ m.heap[RefIn(m, lv)] \in HeaderObjects
    BY <2>3 DEF Distinct
  <2>5. lv \in AnyLValue /\ NoSelector # AtVariable /\ lv.var \notin StackVars
    BY <1>4 DEF Named, NoSelector, AtVariable, StackVars
  <2> QED BY <1>2, <2>2, <2>3, <2>4, <2>5, ShapeFacts
<1>5. CASE lv.var \in StackVars
  <2>1. lv.index \in (0 .. Elements) \cup {AtVariable}
    BY <1>5 DEF Named, AnyLValue, StackVars
  <2>2. k \in 0 .. Elements /\ k # AtVariable
    BY <1>3, <2>1, StorageAssumption DEF IndexIn, AtVariable
  <2>3. x \in AnyLValue
    BY <1>2, <1>5, <2>2 DEF AnyLValue
  <2>4. IndexIn(m.env, x) = k
    BY <1>2, <2>2 DEF IndexIn
  <2>5. RefIn(m, lv) = IF k < Elements THEN m.heap[m.env[lv.var]].elems[k + 1] ELSE NoRef
    BY <1>5 DEF RefIn, StackVars
  <2>6. RefIn(m, x) = RefIn(m, lv)
    BY <1>2, <1>5, <2>4, <2>5 DEF RefIn, StackVars
  <2>7. CASE k < Elements
    <3>1. x \in Places(m) /\ k \in 0 .. Elements - 1
      BY <1>2, <1>5, <2>2, <2>7, StorageAssumption DEF Places
    <3> QED BY <1>2, <1>5, <2>2, <2>3, <2>6, <3>1, ShapeFacts DEF Distinct
  <2>8. CASE ~(k < Elements)
    <3>1. k = Elements /\ RefIn(m, lv) = NoRef
      BY <2>2, <2>5, <2>8, StorageAssumption
    <3>2. x \notin Places(m)
      BY <1>2, <1>5, <3>1, StorageAssumption DEF Places, Param, StackVars
    <3> QED BY <1>2, <1>5, <2>2, <2>3, <2>6, <3>1, <3>2
  <2> QED BY <2>7, <2>8
<1> QED BY <1>4, <1>5 DEF Named, AnyLValue
-----------------------------------------------------------------------------
(* Values, place by place.                                                     *)

Value(m, x) == HeaderIn(m.heap, RefIn(m, x))
HeaderOf(object) == [valid |-> object.valid, f |-> object.f]
PlaceH == [var |-> "h", index |-> NoSelector]
PlaceS == [var |-> "s", index |-> NoSelector]
PlaceAt(x, k) == [var |-> x, index |-> k]
ElementsOf(m, x) == [elems |-> [k \in 0 .. Elements - 1 |-> Value(m, PlaceAt(x, k))],
                     next |-> m.heap[m.env[x]].next]

LEMMA StoreByPlaces ==
  ASSUME NEW m
  PROVE  /\ StoreOf(m) = [h |-> Value(m, PlaceH), s |-> Value(m, PlaceS), i |-> m.env.i,
                          t |-> ElementsOf(m, "t"), u |-> ElementsOf(m, "u")]
         /\ FrameOf(m) = IF m.frame.kind = "call"
                         THEN [kind |-> "call", dir |-> m.frame.dir, p |-> Value(m, Param), arg |-> m.frame.arg]
                         ELSE m.frame
<1>1. \A x \in StackVars : StackIn(m.heap, m.env[x]) = ElementsOf(m, x)
  <2> TAKE x \in StackVars
  <2>1. \A k \in 0 .. Elements - 1 : HeaderIn(m.heap, m.heap[m.env[x]].elems[k + 1]) = Value(m, PlaceAt(x, k))
    BY PlaceRefs DEF Value, PlaceAt
  <2> QED BY <2>1 DEF StackIn, ElementsOf
<1>2. StackIn(m.heap, m.env.t) = ElementsOf(m, "t") /\ StackIn(m.heap, m.env.u) = ElementsOf(m, "u")
  <2>1. "t" \in StackVars /\ "u" \in StackVars
    BY DEF StackVars
  <2> QED BY <1>1, <2>1
<1> QED BY <1>2, PlaceRefs DEF StoreOf, FrameOf, Value, PlaceH, PlaceS

(* Two memories that agree on all but the headers.                             *)
SameOutline(m, l) ==
  /\ l.env.i = m.env.i
  /\ \A x \in StackVars : l.heap[l.env[x]].next = m.heap[m.env[x]].next
  /\ l.frame.kind = m.frame.kind
  /\ IF m.frame.kind = "call" THEN l.frame.dir = m.frame.dir /\ l.frame.arg = m.frame.arg
     ELSE l.frame = m.frame

SameValues(m, l) == StoreOf(l) = StoreOf(m) /\ FrameOf(l) = FrameOf(m)

LEMMA EqualValues ==
  ASSUME NEW m, NEW l, SameOutline(m, l), \A x \in Places(m) : Value(l, x) = Value(m, x)
  PROVE  SameValues(m, l)
<1>1. Value(l, PlaceH) = Value(m, PlaceH) /\ Value(l, PlaceS) = Value(m, PlaceS)
  BY PlaceCases DEF PlaceH, PlaceS
<1>2. \A x \in StackVars : ElementsOf(l, x) = ElementsOf(m, x)
  <2> TAKE x \in StackVars
  <2>1. \A k \in 0 .. Elements - 1 : Value(l, PlaceAt(x, k)) = Value(m, PlaceAt(x, k))
    BY PlaceCases DEF PlaceAt
  <2> QED BY <2>1 DEF ElementsOf, SameOutline
<1>3. ElementsOf(l, "t") = ElementsOf(m, "t") /\ ElementsOf(l, "u") = ElementsOf(m, "u")
  BY <1>2 DEF StackVars
<1>4. m.frame.kind = "call" => Value(l, Param) = Value(m, Param)
  BY PlaceCases
<1>5. StoreOf(l) = StoreOf(m)
  BY <1>1, <1>3, StoreByPlaces DEF SameOutline
<1>6. FrameOf(l) = FrameOf(m)
  BY <1>4, StoreByPlaces DEF SameOutline
<1> QED BY <1>5, <1>6 DEF SameValues

(* l is m with the header v where lv points.                                   *)
Written(m, l, lv, v) ==
  /\ StoreOf(l) = AsValues!Stored(StoreOf(m), lv, v)
  /\ FrameOf(l) = IF lv.var = "p" THEN [FrameOf(m) EXCEPT !.p = v] ELSE FrameOf(m)

LEMMA WrittenOnce ==
  ASSUME NEW m, NEW l, Shaped(m), Distinct(m), SameOutline(m, l), NEW lv, Named(m, lv), NEW v,
         \A x \in Places(m) : Value(l, x) = IF x = Resolved(m.env, lv) THEN v ELSE Value(m, x)
  PROVE  Written(m, l, lv, v)
<1> DEFINE x0 == Resolved(m.env, lv)
           k == IndexIn(m.env, lv)
<1>1. /\ x0 \in AnyLValue /\ x0.var = lv.var /\ x0.index = k
      /\ x0 \notin Places(m) => lv.var \in StackVars /\ k = Elements
      /\ x0 \in Places(m) => (lv.var \in StackVars => k \in 0 .. Elements - 1)
  BY Denotes
<1>2. x0 = PlaceAt(lv.var, k)
  BY <1>1 DEF PlaceAt, AnyLValue
<1>3. PlaceH \in Places(m) /\ PlaceS \in Places(m)
      /\ \A x \in StackVars, j \in 0 .. Elements - 1 : PlaceAt(x, j) \in Places(m)
  BY PlaceCases DEF PlaceAt, PlaceH, PlaceS
<1>4. m.frame.kind = "call" => Param \in Places(m)
  BY PlaceCases
<1> HIDE DEF x0, k
<1>5. ASSUME NEW x \in StackVars, lv.var # x \/ x0 \notin Places(m)
      PROVE  ElementsOf(l, x) = ElementsOf(m, x)
  <2>1. \A j \in 0 .. Elements - 1 : Value(l, PlaceAt(x, j)) = Value(m, PlaceAt(x, j))
    BY <1>2, <1>3, <1>5 DEF PlaceAt, x0
  <2> QED BY <2>1 DEF ElementsOf, SameOutline
<1>6. ASSUME NEW x \in StackVars, lv.var = x, x0 \in Places(m)
      PROVE  ElementsOf(l, x) = [ElementsOf(m, x) EXCEPT !.elems[k] = v]
  <2>1. \A j \in 0 .. Elements - 1 : Value(l, PlaceAt(x, j)) = IF j = k THEN v ELSE Value(m, PlaceAt(x, j))
    BY <1>2, <1>3, <1>6 DEF PlaceAt, x0
  <2>2. k \in 0 .. Elements - 1
    BY <1>1, <1>6
  <2> DEFINE F == [j \in 0 .. Elements - 1 |-> Value(m, PlaceAt(x, j))]
             G == [j \in 0 .. Elements - 1 |-> Value(l, PlaceAt(x, j))]
             n == m.heap[m.env[x]].next
  <2>3. ElementsOf(m, x) = [elems |-> F, next |-> n] /\ ElementsOf(l, x) = [elems |-> G, next |-> n]
    BY DEF ElementsOf, SameOutline
  <2>4. G = [F EXCEPT ![k] = v]
    BY <2>1
  <2> HIDE DEF F, G, n
  <2> QED BY <2>3, <2>4
<1>7. "t" \in StackVars /\ "u" \in StackVars /\ StackVars = {"t", "u"} /\ {"h", "s", "p"} \cap StackVars = {}
  BY DEF StackVars
<1>8. AsValues!StackVars = StackVars /\ AsValues!At(lv.index, m.env.i) = k
  BY DEF AsValues!StackVars, StackVars, AsValues!At, AsValues!AtI, IndexIn, AtVariable, k
<1> DEFINE st == StoreOf(m)
<1>9. st.i = m.env.i
  BY DEF StoreOf
<1>14. l.env.i = m.env.i
  BY DEF SameOutline
<1>15. st = [h |-> Value(m, PlaceH), s |-> Value(m, PlaceS), i |-> m.env.i,
             t |-> ElementsOf(m, "t"), u |-> ElementsOf(m, "u")]
  BY StoreByPlaces
<1>16. StoreOf(l) = [h |-> Value(l, PlaceH), s |-> Value(l, PlaceS), i |-> m.env.i,
                     t |-> ElementsOf(l, "t"), u |-> ElementsOf(l, "u")]
  BY <1>14, StoreByPlaces
<1> HIDE DEF st
<1>10. CASE lv.var = "h"
  <2>1. x0 = PlaceH
    BY <1>1, <1>2, <1>10 DEF AnyLValue, PlaceH, PlaceAt, StackVars
  <2>2. Value(l, PlaceH) = v /\ Value(l, PlaceS) = Value(m, PlaceS)
    BY <1>3, <2>1 DEF PlaceH, PlaceS, x0
  <2>3. m.frame.kind = "call" => Value(l, Param) = Value(m, Param)
    BY <1>4, <2>1 DEF PlaceH, Param, x0
  <2>4. ElementsOf(l, "t") = ElementsOf(m, "t") /\ ElementsOf(l, "u") = ElementsOf(m, "u")
    BY <1>5, <1>7, <1>10
  <2>5. StoreOf(l) = [st EXCEPT !.h = v]
    BY <2>2, <2>4, <1>15, <1>16
  <2>6. FrameOf(l) = FrameOf(m)
    BY <2>3, StoreByPlaces DEF SameOutline
  <2>7. AsValues!Stored(st, lv, v) = [st EXCEPT ![lv.var] = v]
    BY <1>7, <1>8, <1>10 DEF AsValues!Stored
  <2> QED BY <1>10, <2>5, <2>6, <2>7 DEF Written, st
<1>11. CASE lv.var = "s"
  <2>1. x0 = PlaceS
    BY <1>1, <1>2, <1>11 DEF AnyLValue, PlaceS, PlaceAt, StackVars
  <2>2. Value(l, PlaceS) = v /\ Value(l, PlaceH) = Value(m, PlaceH)
    BY <1>3, <2>1 DEF PlaceH, PlaceS, x0
  <2>3. m.frame.kind = "call" => Value(l, Param) = Value(m, Param)
    BY <1>4, <2>1 DEF PlaceS, Param, x0
  <2>4. ElementsOf(l, "t") = ElementsOf(m, "t") /\ ElementsOf(l, "u") = ElementsOf(m, "u")
    BY <1>5, <1>7, <1>11
  <2>5. StoreOf(l) = [st EXCEPT !.s = v]
    BY <2>2, <2>4, <1>15, <1>16
  <2>6. FrameOf(l) = FrameOf(m)
    BY <2>3, StoreByPlaces DEF SameOutline
  <2>7. AsValues!Stored(st, lv, v) = [st EXCEPT ![lv.var] = v]
    BY <1>7, <1>8, <1>11 DEF AsValues!Stored
  <2> QED BY <1>11, <2>5, <2>6, <2>7 DEF Written, st
<1>12. CASE lv.var = "p"
  <2>1. x0 = Param /\ m.frame.kind = "call"
    BY <1>1, <1>2, <1>12 DEF AnyLValue, Param, PlaceAt, StackVars, Named
  <2>2. Value(l, PlaceS) = Value(m, PlaceS) /\ Value(l, PlaceH) = Value(m, PlaceH) /\ Value(l, Param) = v
    BY <1>3, <1>4, <2>1 DEF PlaceH, PlaceS, Param, x0
  <2>4. ElementsOf(l, "t") = ElementsOf(m, "t") /\ ElementsOf(l, "u") = ElementsOf(m, "u")
    BY <1>5, <1>7, <1>12
  <2>5. StoreOf(l) = st
    BY <2>2, <2>4, <1>15, <1>16
  <2>6. FrameOf(l) = [FrameOf(m) EXCEPT !.p = v]
    <3>1. FrameOf(m) = [kind |-> "call", dir |-> m.frame.dir, p |-> Value(m, Param), arg |-> m.frame.arg]
      BY <2>1, StoreByPlaces
    <3>2. FrameOf(l) = [kind |-> "call", dir |-> m.frame.dir, p |-> v, arg |-> m.frame.arg]
      BY <2>1, <2>2, StoreByPlaces DEF SameOutline
    <3> QED BY <3>1, <3>2
  <2> QED BY <1>7, <1>8, <1>12, <2>5, <2>6 DEF Written, AsValues!Stored, st
<1>13. CASE lv.var \in StackVars
  <2>1. x0 # PlaceH /\ x0 # PlaceS /\ x0 # Param
    BY <1>2, <1>7, <1>13 DEF PlaceH, PlaceS, Param, PlaceAt
  <2>2. Value(l, PlaceS) = Value(m, PlaceS) /\ Value(l, PlaceH) = Value(m, PlaceH)
        /\ (m.frame.kind = "call" => Value(l, Param) = Value(m, Param))
    BY <1>3, <1>4, <2>1 DEF x0
  <2>3. FrameOf(l) = FrameOf(m)
    BY <2>2, StoreByPlaces DEF SameOutline
  <2>4. CASE x0 \notin Places(m)
    <3>1. ElementsOf(l, "t") = ElementsOf(m, "t") /\ ElementsOf(l, "u") = ElementsOf(m, "u")
      BY <1>5, <1>7, <2>4
    <3>2. StoreOf(l) = st
      BY <2>2, <3>1, <1>15, <1>16
    <3>3. AsValues!Stored(st, lv, v) = st
      BY <1>1, <1>7, <1>8, <1>9, <1>13, <2>4, StorageAssumption DEF AsValues!Stored
    <3> QED BY <1>7, <1>13, <2>3, <3>2, <3>3 DEF Written, st
  <2>5. CASE x0 \in Places(m)
    <3>1. k < Elements
      BY <1>1, <1>13, <2>5, StorageAssumption
    <3>2. AsValues!Stored(st, lv, v) = [st EXCEPT ![lv.var].elems[k] = v]
      BY <1>7, <1>8, <1>9, <1>13, <3>1 DEF AsValues!Stored
    <3>3. CASE lv.var = "t"
      <4>1. ElementsOf(l, "t") = [ElementsOf(m, "t") EXCEPT !.elems[k] = v] /\ ElementsOf(l, "u") = ElementsOf(m, "u")
        BY <1>5, <1>6, <1>7, <2>5, <3>3
      <4>3. StoreOf(l) = [st EXCEPT !.t = [ElementsOf(m, "t") EXCEPT !.elems[k] = v]]
        BY <2>2, <4>1, <1>15, <1>16
      <4>4. st.t = ElementsOf(m, "t")
        BY <1>15
      <4>2. StoreOf(l) = [st EXCEPT !.t.elems[k] = v]
        BY <4>3, <4>4
      <4> QED BY <2>3, <3>2, <3>3, <4>2 DEF Written, st
    <3>4. CASE lv.var = "u"
      <4>1. ElementsOf(l, "u") = [ElementsOf(m, "u") EXCEPT !.elems[k] = v] /\ ElementsOf(l, "t") = ElementsOf(m, "t")
        BY <1>5, <1>6, <1>7, <2>5, <3>4
      <4>3. StoreOf(l) = [st EXCEPT !.u = [ElementsOf(m, "u") EXCEPT !.elems[k] = v]]
        BY <2>2, <4>1, <1>15, <1>16
      <4>4. st.u = ElementsOf(m, "u")
        BY <1>15
      <4>2. StoreOf(l) = [st EXCEPT !.u.elems[k] = v]
        BY <4>3, <4>4
      <4> QED BY <2>3, <3>2, <3>4, <4>2 DEF Written, st
    <3> QED BY <1>7, <1>13, <3>3, <3>4
  <2> QED BY <2>4, <2>5
<1> QED BY <1>1, <1>10, <1>11, <1>12, <1>13 DEF Named, AnyLValue
-----------------------------------------------------------------------------
(* What statements do to a memory.                                             *)

LEMMA HeaderShape ==
  ASSUME NEW o \in HeaderObjects
  PROVE  /\ o.is = "header" /\ o.valid \in BOOLEAN /\ o.f \in Bit
         /\ \A b \in BOOLEAN : [o EXCEPT !.valid = b] \in HeaderObjects
                               /\ HeaderOf([o EXCEPT !.valid = b]) = [HeaderOf(o) EXCEPT !.valid = b]
         /\ \A b \in Bit : [o EXCEPT !.f = b] \in HeaderObjects
                           /\ HeaderOf([o EXCEPT !.f = b]) = [HeaderOf(o) EXCEPT !.f = b]
<1>1. ASSUME NEW b \in BOOLEAN
      PROVE  [o EXCEPT !.valid = b] \in HeaderObjects
             /\ HeaderOf([o EXCEPT !.valid = b]) = [HeaderOf(o) EXCEPT !.valid = b]
  BY DEF HeaderObjects, HeaderOf
<1>2. ASSUME NEW b \in Bit
      PROVE  [o EXCEPT !.f = b] \in HeaderObjects
             /\ HeaderOf([o EXCEPT !.f = b]) = [HeaderOf(o) EXCEPT !.f = b]
  BY DEF HeaderObjects, HeaderOf
<1> QED BY <1>1, <1>2 DEF HeaderObjects

LEMMA ZeroShape == ZeroObject \in HeaderObjects /\ HeaderOf(ZeroObject) = AsValues!ZeroHeader
BY StorageAssumption DEF ZeroObject, HeaderObjects, HeaderOf, AsValues!ZeroHeader

LEMMA HeapUpdate ==
  ASSUME NEW hp, HeapOK(hp), NEW r \in DOMAIN hp, NEW o
  PROVE  LET new == [hp EXCEPT ![r] = o] IN
         /\ HeapOK(new) /\ DOMAIN new = DOMAIN hp /\ new[r] = o
         /\ \A n \in DOMAIN hp \ {r} : new[n] = hp[n]
<1> DEFINE new == [hp EXCEPT ![r] = o]
<1>1. new = [n \in DOMAIN hp |-> IF n = r THEN o ELSE hp[n]]
  BY DEF HeapOK
<1> QED BY <1>1 DEF HeapOK

(* Another object for a stack, or the object's elements replaced.              *)
OneStack(m, l, x, r) ==
  /\ l = [heap |-> l.heap, env |-> l.env, frame |-> l.frame] /\ l.frame = m.frame
  /\ HeapOK(l.heap) /\ DOMAIN m.heap \subseteq DOMAIN l.heap
  /\ \A n \in DOMAIN m.heap \ {m.env[x]} : l.heap[n] = m.heap[n]
  /\ l.env = [m.env EXCEPT ![x] = r]
  /\ r \in DOMAIN l.heap /\ (r = m.env[x] \/ r \notin DOMAIN m.heap)
  /\ l.heap[r] \in Stacks(DOMAIN l.heap)
  /\ \A k \in 1 .. Elements :
       /\ l.heap[l.heap[r].elems[k]] \in HeaderObjects
       /\ \A y \in Places(m) : RefIn(m, y) = l.heap[r].elems[k] => y.var = x
  /\ \A j, k \in 1 .. Elements : l.heap[r].elems[j] = l.heap[r].elems[k] => j = k

StackDiffers(m, l, x, r) ==
  /\ l.env.i = m.env.i /\ l.env[x] = r /\ FrameOf(l) = FrameOf(m)
  /\ \A y \in StackVars : y # x => l.heap[l.env[y]] = m.heap[m.env[y]]
  /\ \A y \in Places(m) : y.var # x => RefIn(l, y) = RefIn(m, y) /\ Value(l, y) = Value(m, y)
  /\ StoreOf(l) = [StoreOf(m) EXCEPT ![x] = StackIn(l.heap, r)]

LEMMA StackReplaced ==
  ASSUME NEW m, Shaped(m), Distinct(m), NEW l, NEW x \in StackVars, NEW r, OneStack(m, l, x, r)
  PROVE  Shaped(l) /\ Distinct(l) /\ StackDiffers(m, l, x, r)
<1> DEFINE D == DOMAIN m.heap
           C == DOMAIN l.heap
<1>1. /\ m.env.h \in D /\ m.env.s \in D /\ m.env.t \in D /\ m.env.u \in D /\ m.env.i \in 0 .. Elements
      /\ m.heap[m.env.s].is = "struct" /\ m.heap[m.env.s].field \in D
      /\ \A y \in StackVars : m.env[y] \in D /\ m.heap[m.env[y]].is = "stack"
                              /\ m.heap[m.env[y]] \in Stacks(D)
      /\ m.env \in Envs(D)
  BY ShapeFacts DEF Shaped
<1>2. D \subseteq C /\ r \in C /\ l.env = [m.env EXCEPT ![x] = r] /\ l.heap[r] \in Stacks(C)
      /\ \A n \in D \ {m.env[x]} : l.heap[n] = m.heap[n]
      /\ (r = m.env[x] \/ r \notin D) /\ l.frame = m.frame
  BY DEF OneStack
<1>22. l.frame = m.frame
  BY DEF OneStack
<1>3. /\ l.env \in Envs(C) /\ l.env[x] = r /\ l.env.h = m.env.h /\ l.env.s = m.env.s /\ l.env.i = m.env.i
      /\ \A y \in StackVars : y # x => l.env[y] = m.env[y]
  <2>1. m.env \in Envs(C)
    BY <1>1, <1>2 DEF Envs
  <2>2. x = "t" \/ x = "u"
    BY DEF StackVars
  <2>3. [m.env EXCEPT ![x] = r] \in Envs(C) /\ [m.env EXCEPT ![x] = r][x] = r
    BY <1>2, <2>1, <2>2 DEF Envs
  <2> QED BY <1>2, <2>1, <2>2, <2>3 DEF Envs, StackVars
<1>4. \A n \in D : m.heap[n] \in HeaderObjects => l.heap[n] = m.heap[n]
  <2>1. \A n \in D : m.heap[n] \in HeaderObjects => n # m.env[x]
    BY <1>1, HeaderShape
  <2> QED BY <1>2, <2>1
<1>5. l.heap[m.env.s] = m.heap[m.env.s] /\ m.env.s # m.env[x]
  BY <1>1, <1>2
<1>6. \A y \in StackVars : y # x => m.env[y] # m.env[x] /\ l.heap[l.env[y]] = m.heap[m.env[y]]
  <2>1. \A y \in StackVars : y # x => m.env[y] # m.env[x]
    BY DEF Distinct, StackVars
  <2> QED BY <1>1, <1>2, <1>3, <2>1
<1>7. \A y \in StackVars : y # x => m.env[y] # r
  BY <1>1, <1>2, <1>6
<1>8. Shaped(l)
  <2>1. l.heap[l.env.s] \in Structs(C)
    BY <1>1, <1>2, <1>3, <1>5 DEF Shaped, Structs
  <2>2. \A y \in StackVars : l.heap[l.env[y]] \in Stacks(C)
    <3> TAKE y \in StackVars
    <3>1. CASE y = x
      BY <1>2, <1>3, <3>1
    <3>2. CASE y # x
      BY <1>1, <1>2, <1>6, <3>2 DEF Stacks
    <3> QED BY <3>1, <3>2
  <2>3. l.frame \in {NoFrame} \cup Calls(C) \cup Applies
    <3>1. Calls(D) \subseteq Calls(C)
      BY <1>2 DEF Calls
    <3> HIDE DEF D, C
    <3> QED BY <1>22, <3>1 DEF Shaped, D
  <2> QED BY <1>3, <2>1, <2>2, <2>3 DEF Shaped, OneStack
<1>9. Places(l) = Places(m)
  BY <1>22 DEF Places
<1>10. \A y \in Places(m) : y.var # x => RefIn(l, y) = RefIn(m, y)
  <2> TAKE y \in Places(m)
  <2> HAVE y.var # x
  <2>1. CASE y = PlaceH
    BY <1>3, <2>1, PlaceRefs DEF PlaceH
  <2>2. CASE y = PlaceS
    BY <1>3, <1>5, <2>2, PlaceRefs DEF PlaceS
  <2>3. CASE y = Param
    BY <1>22, <2>3, PlaceRefs
  <2>4. ASSUME NEW v \in StackVars, NEW k \in 0 .. Elements - 1, y = [var |-> v, index |-> k], v # x
        PROVE  RefIn(l, y) = RefIn(m, y)
    <3>1. RefIn(l, y) = l.heap[l.env[v]].elems[k + 1] /\ RefIn(m, y) = m.heap[m.env[v]].elems[k + 1]
      BY <2>4, PlaceRefs
    <3> QED BY <1>6, <2>4, <3>1
  <2> QED BY <2>1, <2>2, <2>3, <2>4, PlaceCases DEF PlaceH, PlaceS
<1>11. \A y \in Places(m) : y.var # x =>
         /\ RefIn(l, y) \in D /\ l.heap[RefIn(l, y)] = m.heap[RefIn(m, y)]
         /\ m.heap[RefIn(m, y)] \in HeaderObjects
  BY <1>4, <1>10 DEF Distinct
<1>12. \A y \in Places(m) : y.var = x =>
         /\ y.index + 1 \in 1 .. Elements /\ y = [var |-> x, index |-> y.index]
         /\ RefIn(l, y) = l.heap[r].elems[y.index + 1]
  <2> TAKE y \in Places(m)
  <2> HAVE y.var = x
  <2>1. PICK v \in StackVars, k \in 0 .. Elements - 1 : y = [var |-> v, index |-> k]
    BY PlaceCases DEF StackVars, Param
  <2> QED BY <1>3, <2>1, PlaceRefs, StorageAssumption
<1>13. Distinct(l)
  <2>1. l.env.t # l.env.u
    <3>1. CASE x = "t"
      BY <1>3, <1>7, <3>1 DEF StackVars
    <3>2. CASE x = "u"
      BY <1>3, <1>7, <3>2 DEF StackVars
    <3> QED BY <3>1, <3>2 DEF StackVars
  <2>2. \A k \in 1 .. Elements : l.heap[r].elems[k] \in C /\ l.heap[l.heap[r].elems[k]] \in HeaderObjects
    BY <1>2 DEF OneStack, Stacks
  <2>3. \A y \in Places(l) : RefIn(l, y) \in C /\ l.heap[RefIn(l, y)] \in HeaderObjects
    BY <1>2, <1>9, <1>11, <1>12, <2>2
  <2>4. ASSUME NEW y \in Places(l), NEW z \in Places(l), RefIn(l, y) = RefIn(l, z)
        PROVE  y = z
    <3>1. CASE y.var # x /\ z.var # x
      BY <1>9, <1>10, <2>4, <3>1 DEF Distinct
    <3>2. CASE y.var = x /\ z.var = x
      <4> DEFINE j == y.index
                 k == z.index
      <4>1. j + 1 \in 1 .. Elements /\ k + 1 \in 1 .. Elements /\ y = [var |-> x, index |-> j]
            /\ z = [var |-> x, index |-> k] /\ l.heap[r].elems[j + 1] = l.heap[r].elems[k + 1]
        BY <1>9, <1>12, <2>4, <3>2
      <4> HIDE DEF j, k
      <4>2. j + 1 = k + 1
        BY <4>1 DEF OneStack
      <4>3. j \in Int /\ k \in Int
        BY <1>9, <3>2, PlaceCases DEF j, k, Param, StackVars
      <4> QED BY <4>1, <4>2, <4>3
    <3>3. CASE y.var = x /\ z.var # x
      BY <1>9, <1>10, <1>12, <2>4, <3>3 DEF OneStack
    <3>4. CASE y.var # x /\ z.var = x
      BY <1>9, <1>10, <1>12, <2>4, <3>4 DEF OneStack
    <3> QED BY <3>1, <3>2, <3>3, <3>4
  <2> QED BY <2>1, <2>3, <2>4 DEF Distinct
<1>14. \A y \in Places(m) : y.var # x => Value(l, y) = Value(m, y)
  BY <1>11 DEF Value, HeaderIn
<1>15. PlaceH \in Places(m) /\ PlaceS \in Places(m) /\ PlaceH.var # x /\ PlaceS.var # x
  BY PlaceCases DEF PlaceH, PlaceS, StackVars
<1>16. FrameOf(l) = FrameOf(m)
  <2>1. m.frame.kind = "call" => Value(l, Param) = Value(m, Param)
    BY <1>14, PlaceCases DEF Param, StackVars
  <2> QED BY <1>22, <2>1, StoreByPlaces
<1>17. \A y \in StackVars : y # x => ElementsOf(l, y) = ElementsOf(m, y)
  <2> TAKE y \in StackVars
  <2> HAVE y # x
  <2>1. \A k \in 0 .. Elements - 1 : Value(l, PlaceAt(y, k)) = Value(m, PlaceAt(y, k))
    BY <1>14, PlaceCases DEF PlaceAt
  <2> QED BY <1>6, <2>1 DEF ElementsOf
<1>18. ElementsOf(l, x) = StackIn(l.heap, r)
  <2>1. \A k \in 0 .. Elements - 1 : Value(l, PlaceAt(x, k)) = HeaderIn(l.heap, l.heap[r].elems[k + 1])
    BY <1>3, PlaceRefs DEF Value, PlaceAt
  <2> QED BY <1>3, <2>1 DEF ElementsOf, StackIn
<1> DEFINE st == StoreOf(m)
<1>19. st = [h |-> Value(m, PlaceH), s |-> Value(m, PlaceS), i |-> m.env.i,
             t |-> ElementsOf(m, "t"), u |-> ElementsOf(m, "u")]
  BY StoreByPlaces
<1>20. StoreOf(l) = [h |-> Value(m, PlaceH), s |-> Value(m, PlaceS), i |-> m.env.i,
                     t |-> ElementsOf(l, "t"), u |-> ElementsOf(l, "u")]
  BY <1>3, <1>14, <1>15, StoreByPlaces
<1> HIDE DEF st
<1>21. StoreOf(l) = [st EXCEPT ![x] = StackIn(l.heap, r)]
  <2>1. CASE x = "t"
    BY <1>17, <1>18, <1>19, <1>20, <2>1 DEF StackVars
  <2>2. CASE x = "u"
    BY <1>17, <1>18, <1>19, <1>20, <2>2 DEF StackVars
  <2> QED BY <2>1, <2>2 DEF StackVars
<1> QED BY <1>3, <1>6, <1>8, <1>10, <1>13, <1>14, <1>16, <1>21 DEF st, StackDiffers
(* Values are read through references.                                         *)
ValueIn(st, fr, lv) ==
  CASE lv.var = "p" -> fr.p
    [] lv.var \in {"h", "s"} -> st[lv.var]
    [] OTHER -> IF AsValues!At(lv.index, st.i) < Elements THEN st[lv.var].elems[AsValues!At(lv.index, st.i)]
                ELSE AsValues!ZeroHeader

LEMMA ReadsValue ==
  ASSUME NEW m, Shaped(m), Distinct(m), NEW lv, Named(m, lv)
  PROVE  /\ ObjectAt(m, lv) \in HeaderObjects
         /\ HeaderOf(ObjectAt(m, lv)) = ValueIn(StoreOf(m), FrameOf(m), lv)
<1> DEFINE x == Resolved(m.env, lv)
           k == IndexIn(m.env, lv)
<1>1. /\ x \in AnyLValue /\ x.var = lv.var /\ x.index = k /\ RefIn(m, x) = RefIn(m, lv)
      /\ x \notin Places(m) => lv.var \in StackVars /\ k = Elements /\ RefIn(m, lv) = NoRef
      /\ x \in Places(m) =>
           /\ RefIn(m, lv) # NoRef /\ m.heap[RefIn(m, lv)] \in HeaderObjects
           /\ lv.var \in StackVars => k \in 0 .. Elements - 1
  BY Denotes
<1>2. x = PlaceAt(lv.var, k)
  BY <1>1 DEF PlaceAt, AnyLValue
<1>3. AsValues!At(lv.index, m.env.i) = k
  BY DEF AsValues!At, AsValues!AtI, IndexIn, AtVariable
<1> HIDE DEF x, k
<1>4. ObjectAt(m, lv) \in HeaderObjects
  BY <1>1, ZeroShape DEF ObjectAt
<1>5. x \in Places(m) => HeaderOf(ObjectAt(m, lv)) = Value(m, x)
  BY <1>1 DEF ObjectAt, HeaderOf, Value, HeaderIn
<1>6. StoreOf(m).i = m.env.i
  BY DEF StoreOf
<1>7. CASE lv.var \in StackVars
  <2>1. lv.var \notin {"h", "s", "p"}
    BY <1>7 DEF StackVars
  <2>2. ValueIn(StoreOf(m), FrameOf(m), lv)
        = IF k < Elements THEN StoreOf(m)[lv.var].elems[k] ELSE AsValues!ZeroHeader
    BY <1>3, <1>6, <2>1 DEF ValueIn
  <2>3. CASE x \notin Places(m)
    <3>1. ~(k < Elements) /\ ObjectAt(m, lv) = ZeroObject
      BY <1>1, <2>3, StorageAssumption DEF ObjectAt
    <3> QED BY <2>2, <3>1, ZeroShape
  <2>4. CASE x \in Places(m)
    <3>1. k \in 0 .. Elements - 1 /\ k < Elements
      BY <1>1, <1>7, <2>4, StorageAssumption
    <3>2. StoreOf(m)[lv.var] = ElementsOf(m, lv.var)
      BY <1>7, StoreByPlaces DEF StackVars
    <3>3. StoreOf(m)[lv.var].elems[k] = Value(m, x)
      BY <1>2, <3>1, <3>2 DEF ElementsOf
    <3> QED BY <1>4, <1>5, <2>2, <2>4, <3>1, <3>3
  <2> QED BY <1>4, <2>3, <2>4
<1>8. CASE lv.var = "h"
  <2>1. x \in Places(m) /\ x = PlaceH
    BY <1>1, <1>2, <1>8 DEF StackVars, PlaceH, PlaceAt, AnyLValue
  <2>2. ValueIn(StoreOf(m), FrameOf(m), lv) = Value(m, PlaceH)
    BY <1>8, StoreByPlaces DEF ValueIn
  <2> QED BY <1>4, <1>5, <2>1, <2>2
<1>9. CASE lv.var = "s"
  <2>1. x \in Places(m) /\ x = PlaceS
    BY <1>1, <1>2, <1>9 DEF StackVars, PlaceS, PlaceAt, AnyLValue
  <2>2. ValueIn(StoreOf(m), FrameOf(m), lv) = Value(m, PlaceS)
    BY <1>9, StoreByPlaces DEF ValueIn
  <2> QED BY <1>4, <1>5, <2>1, <2>2
<1>10. CASE lv.var = "p"
  <2>1. x \in Places(m) /\ x = Param /\ m.frame.kind = "call"
    BY <1>1, <1>2, <1>10 DEF StackVars, Param, PlaceAt, AnyLValue, Named
  <2>2. FrameOf(m).p = Value(m, Param)
    BY <2>1, StoreByPlaces
  <2>3. ValueIn(StoreOf(m), FrameOf(m), lv) = Value(m, Param)
    BY <1>10, <2>2 DEF ValueIn
  <2> QED BY <1>4, <1>5, <2>1, <2>3
<1> QED BY <1>7, <1>8, <1>9, <1>10 DEF Named, AnyLValue

(* Another object where one header is named.                                   *)
LEMMA Rereferred ==
  ASSUME NEW m, Shaped(m), Distinct(m), NEW lv, Named(m, lv), NEW v,
         NEW l, Shaped(l), SameOutline(m, l), l.env.t = m.env.t, l.env.u = m.env.u,
         NEW ref \in DOMAIN l.heap, l.heap[ref] \in HeaderObjects, v = HeaderIn(l.heap, ref),
         \A x \in Places(m) : x # Resolved(m.env, lv) =>
           RefIn(m, x) # ref /\ RefIn(m, x) \in DOMAIN l.heap /\ l.heap[RefIn(m, x)] = m.heap[RefIn(m, x)],
         \A x \in Places(m) : RefIn(l, x) = IF x = Resolved(m.env, lv) THEN ref ELSE RefIn(m, x)
  PROVE  Distinct(l) /\ Written(m, l, lv, v)
<1>1. Places(l) = Places(m)
  BY DEF Places, SameOutline
<1>2. l.env.t # l.env.u
  BY DEF Distinct
<1>3. \A x \in Places(m) : RefIn(l, x) \in DOMAIN l.heap /\ l.heap[RefIn(l, x)] \in HeaderObjects
  BY DEF Distinct
<1>4. \A x, y \in Places(m) : RefIn(l, x) = RefIn(l, y) => x = y
  BY DEF Distinct
<1>5. Distinct(l)
  BY <1>1, <1>2, <1>3, <1>4 DEF Distinct
<1>6. \A x \in Places(m) : Value(l, x) = IF x = Resolved(m.env, lv) THEN v ELSE Value(m, x)
  BY DEF Value, HeaderIn
<1> QED BY <1>5, <1>6, WrittenOnce
(* A new object's reference is stored where lv points.                         *)
LEMMA LinkStores ==
  ASSUME NEW m, Shaped(m), Distinct(m), NEW lv, Named(m, lv),
         NEW ref \in DOMAIN m.heap, m.heap[ref] \in HeaderObjects,
         \A x \in Places(m) : RefIn(m, x) # ref
  PROVE  LET l == Link(m, lv, ref) IN
         Shaped(l) /\ Distinct(l) /\ Written(m, l, lv, HeaderIn(m.heap, ref))
<1> DEFINE l == Link(m, lv, ref)
           D == DOMAIN m.heap
           x0 == Resolved(m.env, lv)
           k == IndexIn(m.env, lv)
<1>1. /\ x0 \in AnyLValue /\ x0.var = lv.var /\ x0.index = k /\ RefIn(m, x0) = RefIn(m, lv)
      /\ x0 \notin Places(m) => lv.var \in StackVars /\ k = Elements /\ RefIn(m, lv) = NoRef
      /\ x0 \in Places(m) =>
           /\ RefIn(m, lv) \in D /\ RefIn(m, lv) # NoRef /\ m.heap[RefIn(m, lv)] \in HeaderObjects
           /\ lv.var \in StackVars => k \in 0 .. Elements - 1
  BY Denotes
<1>2. x0 = PlaceAt(lv.var, k)
  BY <1>1 DEF PlaceAt, AnyLValue
<1>3. /\ m.env.h \in D /\ m.env.s \in D /\ m.env.t \in D /\ m.env.u \in D
      /\ m.env \in Envs(D) /\ m.heap[m.env.s].field \in D /\ m.heap[m.env.s] \in Structs(D)
      /\ \A x \in StackVars : m.env[x] \in D /\ m.heap[m.env[x]].is = "stack"
                              /\ m.heap[m.env[x]] \in Stacks(D)
      /\ m.heap[m.env.s].is = "struct" /\ HeapOK(m.heap)
      /\ m.frame \in {NoFrame} \cup Calls(D) \cup Applies
      /\ m = [heap |-> m.heap, env |-> m.env, frame |-> m.frame]
  BY ShapeFacts DEF Shaped
<1>4. PlaceH \in Places(m) /\ PlaceS \in Places(m) /\ (m.frame.kind = "call" => Param \in Places(m))
  BY PlaceCases DEF PlaceH, PlaceS
<1>5. \A x \in Places(m) : \/ x = PlaceH \/ x = PlaceS \/ x = Param
                           \/ \E y \in StackVars, j \in 0 .. Elements - 1 : x = PlaceAt(y, j)
  BY PlaceCases DEF PlaceH, PlaceS, PlaceAt
<1>6. \A x \in Places(m) : RefIn(m, x) \in D /\ m.heap[RefIn(m, x)] \in HeaderObjects
  BY DEF Distinct
<1> HIDE DEF x0, k
<1>7. CASE lv.var = "h"
  <2> DEFINE e == [m.env EXCEPT !.h = ref]
  <2>1. l = [heap |-> m.heap, env |-> e, frame |-> m.frame]
    BY <1>7 DEF Link, WithEnv
  <2>2. e \in Envs(D) /\ e.h = ref /\ e.s = m.env.s /\ e.t = m.env.t /\ e.u = m.env.u /\ e.i = m.env.i
        /\ \A x \in StackVars : e[x] = m.env[x]
    BY <1>3 DEF Envs, StackVars
  <2> HIDE DEF e
  <2>3. Shaped(l)
    BY <1>3, <2>1, <2>2 DEF Shaped
  <2>4. SameOutline(m, l)
    BY <2>1, <2>2 DEF SameOutline
  <2>5. x0 = PlaceH
    BY <1>1, <1>2, <1>7 DEF AnyLValue, PlaceH, PlaceAt, StackVars
  <2>6. \A x \in Places(m) : RefIn(l, x) = IF x = x0 THEN ref ELSE RefIn(m, x)
    <3> TAKE x \in Places(m)
    <3>1. CASE x = PlaceH
      BY <2>1, <2>2, <2>5, <3>1, PlaceRefs DEF PlaceH
    <3>2. CASE x = PlaceS
      BY <2>1, <2>2, <2>5, <3>2, PlaceRefs DEF PlaceH, PlaceS
    <3>3. CASE x = Param
      BY <2>1, <2>5, <3>3, PlaceRefs DEF PlaceH, Param
    <3>4. ASSUME NEW y \in StackVars, NEW j \in 0 .. Elements - 1, x = PlaceAt(y, j)
          PROVE  RefIn(l, x) = IF x = x0 THEN ref ELSE RefIn(m, x)
      <4>1. x # x0
        BY <2>5, <3>4 DEF PlaceAt, PlaceH, StackVars
      <4>2. RefIn(l, x) = l.heap[l.env[y]].elems[j + 1] /\ RefIn(m, x) = m.heap[m.env[y]].elems[j + 1]
        BY <3>4, PlaceRefs DEF PlaceAt
      <4> QED BY <2>1, <2>2, <4>1, <4>2
    <3> QED BY <1>5, <3>1, <3>2, <3>3, <3>4
  <2>7. \A x \in Places(m) : x # x0 =>
          RefIn(m, x) # ref /\ RefIn(m, x) \in DOMAIN l.heap /\ l.heap[RefIn(m, x)] = m.heap[RefIn(m, x)]
    BY <1>6, <2>1
  <2> HIDE DEF l
  <2>8. l.heap = m.heap /\ l.env.t = m.env.t /\ l.env.u = m.env.u
    BY <2>1, <2>2
  <2>9. Distinct(l) /\ Written(m, l, lv, HeaderIn(l.heap, ref))
    BY <2>3, <2>4, <2>6, <2>7, <2>8, Rereferred DEF x0
  <2> QED BY <2>3, <2>8, <2>9 DEF l
<1>8. CASE lv.var = "p"
  <2> DEFINE fr == [m.frame EXCEPT !.p = ref]
  <2>1. l = [heap |-> m.heap, env |-> m.env, frame |-> fr]
    BY <1>8 DEF Link, WithFrame
  <2>2. m.frame \in Calls(D) /\ m.frame.kind = "call"
    BY <1>3, <1>8 DEF Named, NoFrame, Applies
  <2>10. fr \in Calls(D) /\ fr.p = ref /\ fr.kind = m.frame.kind /\ fr.dir = m.frame.dir /\ fr.arg = m.frame.arg
    BY <2>2 DEF Calls
  <2> HIDE DEF fr
  <2>3. Shaped(l)
    BY <1>3, <2>1, <2>10 DEF Shaped
  <2>4. SameOutline(m, l)
    BY <2>1, <2>2, <2>10 DEF SameOutline
  <2>5. x0 = Param
    BY <1>1, <1>2, <1>8 DEF AnyLValue, Param, PlaceAt, StackVars
  <2>6. \A x \in Places(m) : RefIn(l, x) = IF x = x0 THEN ref ELSE RefIn(m, x)
    <3> TAKE x \in Places(m)
    <3>1. CASE x = PlaceH
      BY <2>1, <2>5, <3>1, PlaceRefs DEF PlaceH, Param
    <3>2. CASE x = PlaceS
      BY <2>1, <2>5, <3>2, PlaceRefs DEF Param, PlaceS
    <3>3. CASE x = Param
      BY <2>1, <2>10, <2>5, <3>3, PlaceRefs
    <3>4. ASSUME NEW y \in StackVars, NEW j \in 0 .. Elements - 1, x = PlaceAt(y, j)
          PROVE  RefIn(l, x) = IF x = x0 THEN ref ELSE RefIn(m, x)
      <4>1. x # x0
        BY <2>5, <3>4 DEF PlaceAt, Param, StackVars
      <4>2. RefIn(l, x) = l.heap[l.env[y]].elems[j + 1] /\ RefIn(m, x) = m.heap[m.env[y]].elems[j + 1]
        BY <3>4, PlaceRefs DEF PlaceAt
      <4> QED BY <2>1, <4>1, <4>2
    <3> QED BY <1>5, <3>1, <3>2, <3>3, <3>4
  <2>7. \A x \in Places(m) : x # x0 =>
          RefIn(m, x) # ref /\ RefIn(m, x) \in DOMAIN l.heap /\ l.heap[RefIn(m, x)] = m.heap[RefIn(m, x)]
    BY <1>6, <2>1
  <2> HIDE DEF l
  <2>8. l.heap = m.heap /\ l.env.t = m.env.t /\ l.env.u = m.env.u
    BY <2>1
  <2>9. Distinct(l) /\ Written(m, l, lv, HeaderIn(l.heap, ref))
    BY <2>3, <2>4, <2>6, <2>7, <2>8, Rereferred DEF x0
  <2> QED BY <2>3, <2>8, <2>9 DEF l
<1>9. CASE lv.var = "s"
  <2> DEFINE o == [m.heap[m.env.s] EXCEPT !.field = ref]
             hp == [m.heap EXCEPT ![m.env.s] = o]
  <2>1. l = [heap |-> hp, env |-> m.env, frame |-> m.frame]
    BY <1>9 DEF Link, WithHeap
  <2>2. o \in Structs(D) /\ o.field = ref
    BY <1>3 DEF Structs
  <2> HIDE DEF o
  <2>10. HeapOK(hp) /\ DOMAIN hp = D /\ hp[m.env.s] = o /\ \A n \in D \ {m.env.s} : hp[n] = m.heap[n]
    BY <1>3, HeapUpdate
  <2> HIDE DEF hp
  <2>11. \A x \in StackVars : m.env[x] # m.env.s
    BY <1>3
  <2>12. \A x \in Places(m) : RefIn(m, x) # m.env.s
    BY <1>3, <1>6, HeaderShape
  <2>3. Shaped(l)
    BY <1>3, <2>1, <2>2, <2>10, <2>11 DEF Shaped
  <2>4. SameOutline(m, l)
    BY <1>3, <2>1, <2>10, <2>11 DEF SameOutline
  <2>5. x0 = PlaceS
    BY <1>1, <1>2, <1>9 DEF AnyLValue, PlaceS, PlaceAt, StackVars
  <2>6. \A x \in Places(m) : RefIn(l, x) = IF x = x0 THEN ref ELSE RefIn(m, x)
    <3> TAKE x \in Places(m)
    <3>1. CASE x = PlaceH
      BY <2>1, <2>5, <3>1, PlaceRefs DEF PlaceH, PlaceS
    <3>2. CASE x = PlaceS
      BY <2>1, <2>2, <2>5, <2>10, <3>2, PlaceRefs DEF PlaceS
    <3>3. CASE x = Param
      BY <2>1, <2>5, <3>3, PlaceRefs DEF PlaceS, Param
    <3>4. ASSUME NEW y \in StackVars, NEW j \in 0 .. Elements - 1, x = PlaceAt(y, j)
          PROVE  RefIn(l, x) = IF x = x0 THEN ref ELSE RefIn(m, x)
      <4>1. x # x0
        BY <2>5, <3>4 DEF PlaceAt, PlaceS, StackVars
      <4>2. RefIn(l, x) = l.heap[l.env[y]].elems[j + 1] /\ RefIn(m, x) = m.heap[m.env[y]].elems[j + 1]
        BY <3>4, PlaceRefs DEF PlaceAt
      <4> QED BY <1>3, <2>1, <2>10, <2>11, <4>1, <4>2
    <3> QED BY <1>5, <3>1, <3>2, <3>3, <3>4
  <2>7. \A x \in Places(m) : x # x0 =>
          RefIn(m, x) # ref /\ RefIn(m, x) \in DOMAIN l.heap /\ l.heap[RefIn(m, x)] = m.heap[RefIn(m, x)]
    BY <1>6, <2>1, <2>10, <2>12
  <2> HIDE DEF l
  <2>8. l.heap = hp /\ l.env.t = m.env.t /\ l.env.u = m.env.u
    BY <2>1
  <2>13. hp[ref] = m.heap[ref]
    BY <1>3, <2>10, HeaderShape
  <2>9. Distinct(l) /\ Written(m, l, lv, HeaderIn(l.heap, ref))
    BY <2>3, <2>4, <2>6, <2>7, <2>8, <2>10, <2>13, Rereferred DEF x0
  <2> QED BY <2>3, <2>8, <2>9, <2>13 DEF l, HeaderIn
<1>10. CASE lv.var \in StackVars /\ x0 \notin Places(m)
  <2>1. lv.var \notin {"h", "s", "p"} /\ ~(k < Elements)
    BY <1>1, <1>10, StorageAssumption DEF StackVars
  <2>2. l = m
    BY <2>1 DEF Link, k
  <2>3. SameOutline(m, m)
    BY DEF SameOutline
  <2>4. \A x \in Places(m) : Value(m, x) = IF x = x0 THEN HeaderIn(m.heap, ref) ELSE Value(m, x)
    BY <1>10
  <2>5. Written(m, m, lv, HeaderIn(m.heap, ref))
    BY <2>3, <2>4, WrittenOnce DEF x0
  <2> QED BY <2>2, <2>5
<1>11. CASE lv.var \in StackVars /\ x0 \in Places(m)
  <2> DEFINE x == lv.var
             r == m.env[x]
             old == m.heap[r]
             o == [old EXCEPT !.elems[k + 1] = ref]
             hp == [m.heap EXCEPT ![r] = o]
  <2>1. k \in 0 .. Elements - 1 /\ k < Elements /\ k + 1 \in 1 .. Elements
    BY <1>1, <1>11, StorageAssumption
  <2>2. lv.var \notin {"h", "s", "p"}
    BY <1>11 DEF StackVars
  <2>3. l = [heap |-> hp, env |-> m.env, frame |-> m.frame]
    BY <2>1, <2>2 DEF Link, WithHeap, k
  <2>4. r \in D /\ old \in Stacks(D)
    BY <1>3, <1>11
  <2> HIDE DEF old
  <2>5. o \in Stacks(D) /\ o.next = old.next
        /\ \A j \in 1 .. Elements : o.elems[j] = IF j = k + 1 THEN ref ELSE old.elems[j]
    BY <2>1, <2>4 DEF Stacks
  <2> HIDE DEF o
  <2>6. HeapOK(hp) /\ DOMAIN hp = D /\ hp[r] = o /\ \A n \in D \ {r} : hp[n] = m.heap[n]
    BY <1>3, <2>4, HeapUpdate
  <2> HIDE DEF hp
  <2>7. m.env = [m.env EXCEPT ![x] = r]
    BY <1>3, <1>11 DEF Envs, StackVars
  <2>8. \A j \in 0 .. Elements - 1 : PlaceAt(x, j) \in Places(m) /\ RefIn(m, PlaceAt(x, j)) = old.elems[j + 1]
    BY <1>11, PlaceCases, PlaceRefs DEF PlaceAt, old
  <2>9. \A j \in 1 .. Elements : j - 1 \in 0 .. Elements - 1 /\ (j - 1) + 1 = j
    BY StorageAssumption
  <2>10. \A j \in 1 .. Elements : PlaceAt(x, j - 1) \in Places(m) /\ RefIn(m, PlaceAt(x, j - 1)) = old.elems[j]
    <3> TAKE j \in 1 .. Elements
    <3>1. j - 1 \in 0 .. Elements - 1 /\ (j - 1) + 1 = j
      BY <2>9
    <3> QED BY <2>8, <3>1
  <2>11. \A i, j \in 1 .. Elements : old.elems[i] = old.elems[j] => i = j
    <3> TAKE i, j \in 1 .. Elements
    <3> HAVE old.elems[i] = old.elems[j]
    <3>1. PlaceAt(x, i - 1) = PlaceAt(x, j - 1)
      BY <2>10 DEF Distinct
    <3> QED BY <3>1 DEF PlaceAt
  <2>12. \A n \in D : m.heap[n] \in HeaderObjects => hp[n] = m.heap[n]
    BY <1>3, <1>11, <2>6, HeaderShape
  <2>13. \A j \in 1 .. Elements :
           /\ hp[o.elems[j]] \in HeaderObjects
           /\ \A y \in Places(m) : RefIn(m, y) = o.elems[j] => y.var = x
    <3> TAKE j \in 1 .. Elements
    <3>1. CASE j = k + 1
      BY <2>5, <2>12, <3>1
    <3>2. CASE j # k + 1
      <4>1. o.elems[j] = RefIn(m, PlaceAt(x, j - 1)) /\ PlaceAt(x, j - 1) \in Places(m) /\ PlaceAt(x, j - 1).var = x
        BY <2>5, <2>10, <3>2 DEF PlaceAt
      <4> QED BY <1>6, <2>12, <4>1 DEF Distinct
    <3> QED BY <3>1, <3>2
  <2>14. \A i, j \in 1 .. Elements : o.elems[i] = o.elems[j] => i = j
    <3>1. \A j \in 1 .. Elements : old.elems[j] # ref
      BY <2>10
    <3> QED BY <2>5, <2>11, <3>1
  <2>15. OneStack(m, l, x, r)
    BY <2>3, <2>4, <2>5, <2>6, <2>7, <2>13, <2>14 DEF OneStack
  <2>16. /\ Shaped(l) /\ Distinct(l) /\ l.env.i = m.env.i
         /\ \A y \in StackVars : y # x => l.heap[l.env[y]] = m.heap[m.env[y]]
         /\ \A y \in Places(m) : y.var # x => RefIn(l, y) = RefIn(m, y) /\ Value(l, y) = Value(m, y)
    <3>1. x \in StackVars
      BY <1>11
    <3> HIDE DEF l, x, r
    <3>2. Shaped(l) /\ Distinct(l) /\ StackDiffers(m, l, x, r)
      BY <2>15, <3>1, StackReplaced
    <3> QED BY <3>2 DEF StackDiffers
  <2>17. SameOutline(m, l)
    <3>1. \A y \in StackVars : l.heap[l.env[y]].next = m.heap[m.env[y]].next
      BY <2>3, <2>5, <2>6, <2>16 DEF old
    <3> QED BY <2>3, <3>1 DEF SameOutline
  <2>18. \A y \in Places(m) : y.var = x =>
           Value(l, y) = IF y = x0 THEN HeaderIn(m.heap, ref) ELSE Value(m, y)
    <3> TAKE y \in Places(m)
    <3> HAVE y.var = x
    <3>1. PICK j \in 0 .. Elements - 1 : y = PlaceAt(x, j)
      BY <1>5, <1>11 DEF StackVars, PlaceH, PlaceS, PlaceAt, Param
    <3>2. j + 1 \in 1 .. Elements
      BY StorageAssumption
    <3>3. RefIn(l, y) = l.heap[r].elems[j + 1]
      BY <1>11, <2>3, <3>1, PlaceRefs DEF PlaceAt
    <3>4. RefIn(l, y) = o.elems[j + 1] /\ l.heap = hp
      BY <2>3, <2>6, <3>3
    <3>5. CASE j = k
      <4>1. y = x0 /\ RefIn(l, y) = ref
        BY <1>2, <2>5, <3>1, <3>2, <3>4, <3>5
      <4> QED BY <2>12, <3>4, <4>1 DEF Value, HeaderIn
    <3>6. CASE j # k
      <4>1. y # x0
        BY <1>2, <3>1, <3>6 DEF PlaceAt
      <4>2. RefIn(l, y) = RefIn(m, y)
        BY <2>1, <2>5, <2>8, <3>1, <3>2, <3>4, <3>6
      <4> QED BY <1>6, <2>12, <3>4, <4>1, <4>2 DEF Value, HeaderIn
    <3> QED BY <3>5, <3>6
  <2>19. \A y \in Places(m) : Value(l, y) = IF y = x0 THEN HeaderIn(m.heap, ref) ELSE Value(m, y)
    BY <1>1, <2>16, <2>18
  <2>20. Written(m, l, lv, HeaderIn(m.heap, ref))
    <3> HIDE DEF l
    <3> QED BY <2>17, <2>19, WrittenOnce DEF x0
  <2> QED BY <2>16, <2>20
<1> QED BY <1>7, <1>8, <1>9, <1>10, <1>11 DEF Named, AnyLValue
LEMMA SameRefs ==
  ASSUME NEW m, NEW l, l.env = m.env, l.frame = m.frame, l.heap[m.env.s] = m.heap[m.env.s],
         \A x \in StackVars : l.heap[m.env[x]] = m.heap[m.env[x]], NEW lv \in AnyLValue
  PROVE  RefIn(l, lv) = RefIn(m, lv)
<1>1. lv.var \in {"h", "s", "p"} \/ lv.var \in StackVars
  BY DEF AnyLValue
<1>2. CASE lv.var \in {"h", "s", "p"}
  BY <1>2 DEF RefIn
<1>3. CASE lv.var \in StackVars
  <2>1. lv.var \notin {"h", "s", "p"} /\ l.heap[l.env[lv.var]] = m.heap[m.env[lv.var]]
    BY <1>3 DEF StackVars
  <2> QED BY <2>1 DEF RefIn
<1> QED BY <1>1, <1>2, <1>3

LEMMA PlacesAreLValues == ASSUME NEW m PROVE Places(m) \subseteq AnyLValue
BY StorageAssumption DEF Places, AnyLValue, Param

(* The object a name refers to is mutated.                                     *)
LEMMA MutatesValue ==
  ASSUME NEW m, Shaped(m), Distinct(m), NEW lv, Named(m, lv), NEW object \in HeaderObjects
  PROVE  LET l == Mutated(m, lv, object) IN
         /\ Shaped(l) /\ Distinct(l) /\ Written(m, l, lv, HeaderOf(object))
         /\ l.env = m.env /\ l.frame = m.frame
<1> DEFINE l == Mutated(m, lv, object)
           D == DOMAIN m.heap
           x0 == Resolved(m.env, lv)
           r == RefIn(m, lv)
<1>1. /\ RefIn(m, x0) = r
      /\ x0 \notin Places(m) => r = NoRef
      /\ x0 \in Places(m) => r \in D /\ r # NoRef /\ m.heap[r] \in HeaderObjects
  BY Denotes
<1>2. CASE x0 \notin Places(m)
  <2>1. l = m
    BY <1>1, <1>2 DEF Mutated
  <2>2. SameOutline(m, m)
    BY DEF SameOutline
  <2>3. \A x \in Places(m) : Value(m, x) = IF x = x0 THEN HeaderOf(object) ELSE Value(m, x)
    BY <1>2
  <2>4. Written(m, m, lv, HeaderOf(object))
    BY <2>2, <2>3, WrittenOnce
  <2> QED BY <2>1, <2>4
<1>3. CASE x0 \in Places(m)
  <2> DEFINE hp == [m.heap EXCEPT ![r] = object]
  <2> HIDE DEF x0, r
  <2>1. l = [heap |-> hp, env |-> m.env, frame |-> m.frame]
    BY <1>1, <1>3 DEF Mutated, WithHeap, r
  <2>2. HeapOK(m.heap) /\ r \in D
    BY <1>1, <1>3 DEF Shaped
  <2>3. HeapOK(hp) /\ DOMAIN hp = D /\ hp[r] = object /\ \A n \in D \ {r} : hp[n] = m.heap[n]
    BY <2>2, HeapUpdate
  <2> HIDE DEF hp
  <2>4. /\ m.env.s \in D /\ \A x \in StackVars : m.env[x] \in D
        /\ m.env.s # r /\ \A x \in StackVars : m.env[x] # r
    BY <1>1, <1>3, ShapeFacts, HeaderShape
  <2>5. hp[m.env.s] = m.heap[m.env.s] /\ \A x \in StackVars : hp[m.env[x]] = m.heap[m.env[x]]
    BY <2>3, <2>4
  <2>6. Shaped(l)
    BY <2>1, <2>3, <2>5 DEF Shaped
  <2>7. SameOutline(m, l)
    BY <2>1, <2>5 DEF SameOutline
  <2>8. l.heap = hp /\ l.env = m.env /\ l.frame = m.frame
    BY <2>1
  <2> HIDE DEF l
  <2>9. \A x \in Places(m) : RefIn(l, x) = RefIn(m, x)
    BY <2>5, <2>8, SameRefs, PlacesAreLValues
  <2>10. \A x \in Places(m) : x # x0 => RefIn(m, x) # r
    BY <1>1, <1>3 DEF Distinct
  <2>11. \A x \in Places(m) : x # x0 =>
           RefIn(m, x) # r /\ RefIn(m, x) \in DOMAIN l.heap /\ l.heap[RefIn(m, x)] = m.heap[RefIn(m, x)]
    BY <2>3, <2>8, <2>10 DEF Distinct
  <2>12. \A x \in Places(m) : RefIn(l, x) = IF x = x0 THEN r ELSE RefIn(m, x)
    BY <1>1, <2>9
  <2>13. HeaderIn(l.heap, r) = HeaderOf(object)
    BY <2>3, <2>8 DEF HeaderIn, HeaderOf
  <2>14. r \in DOMAIN l.heap /\ l.heap[r] \in HeaderObjects /\ l.env.t = m.env.t /\ l.env.u = m.env.u
    BY <2>2, <2>3, <2>8
  <2>15. Distinct(l) /\ Written(m, l, lv, HeaderIn(l.heap, r))
    BY <2>6, <2>7, <2>11, <2>12, <2>14, Rereferred DEF x0
  <2> QED BY <2>6, <2>8, <2>13, <2>15 DEF l
<1> QED BY <1>2, <1>3

(* New objects disturb nothing.                                                *)
Grown(hp, more) ==
  /\ HeapOK(more) /\ DOMAIN hp \subseteq DOMAIN more
  /\ \A n \in DOMAIN hp : more[n] = hp[n]

LEMMA Grows ==
  ASSUME NEW m, Shaped(m), Distinct(m), NEW hp, Grown(m.heap, hp)
  PROVE  LET l == WithHeap(m, hp) IN
         /\ Shaped(l) /\ Distinct(l) /\ SameValues(m, l) /\ Places(l) = Places(m)
         /\ \A lv \in AnyLValue : RefIn(l, lv) = RefIn(m, lv)
<1> DEFINE l == WithHeap(m, hp)
           D == DOMAIN m.heap
<1>1. l = [heap |-> hp, env |-> m.env, frame |-> m.frame] /\ l.heap = hp /\ l.env = m.env /\ l.frame = m.frame
  BY DEF WithHeap
<1>2. HeapOK(hp) /\ D \subseteq DOMAIN hp /\ \A n \in D : hp[n] = m.heap[n]
  BY DEF Grown
<1>3. hp[m.env.s] = m.heap[m.env.s] /\ \A x \in StackVars : hp[m.env[x]] = m.heap[m.env[x]]
  BY <1>2, ShapeFacts
<1> HIDE DEF l
<1>4. Shaped(l)
  <2>1. m.env \in Envs(DOMAIN hp)
    BY <1>2 DEF Shaped, Envs
  <2>2. hp[m.env.s] \in Structs(DOMAIN hp)
    BY <1>2, <1>3 DEF Shaped, Structs
  <2>3. \A x \in StackVars : hp[m.env[x]] \in Stacks(DOMAIN hp)
    BY <1>2, <1>3 DEF Shaped, Stacks
  <2>4. m.frame \in {NoFrame} \cup Calls(DOMAIN hp) \cup Applies
    BY <1>2 DEF Shaped, Calls
  <2> QED BY <1>1, <1>2, <2>1, <2>2, <2>3, <2>4 DEF Shaped
<1>5. \A lv \in AnyLValue : RefIn(l, lv) = RefIn(m, lv)
  BY <1>1, <1>3, SameRefs
<1>6. Places(l) = Places(m)
  BY <1>1 DEF Places
<1>7. \A x \in Places(m) : RefIn(l, x) = RefIn(m, x) /\ RefIn(m, x) \in D
  BY <1>5, PlacesAreLValues DEF Distinct
<1>8. Distinct(l)
  BY <1>1, <1>2, <1>6, <1>7 DEF Distinct
<1>9. SameOutline(m, l)
  BY <1>1, <1>3 DEF SameOutline
<1>10. \A x \in Places(m) : Value(l, x) = Value(m, x)
  BY <1>1, <1>2, <1>7 DEF Value, HeaderIn
<1>11. SameValues(m, l)
  BY <1>9, <1>10, EqualValues
<1> QED BY <1>4, <1>5, <1>6, <1>8, <1>11 DEF l

LEMMA PlaceGrows ==
  ASSUME NEW hp, HeapOK(hp), NEW object
  PROVE  LET new == Place(hp, object) IN
         /\ Grown(hp, new.heap) /\ new.ref \in DOMAIN new.heap /\ new.ref \notin DOMAIN hp
         /\ new.heap[new.ref] = object
BY OnePlaced DEF Grown

LEMMA CopyOfHeader ==
  ASSUME NEW hp, HeapOK(hp), NEW object \in HeaderObjects
  PROVE  LET new == Copy(hp, object) IN
         /\ Grown(hp, new.heap) /\ new.ref \in DOMAIN new.heap /\ new.ref \notin DOMAIN hp
         /\ new.heap[new.ref] = object
<1>1. Copy(hp, object) = Place(hp, object)
  BY HeaderShape DEF Copy
<1> QED BY <1>1, PlaceGrows

LEMMA StoresValue ==
  ASSUME NEW m, Shaped(m), Distinct(m), NEW lv, Named(m, lv), NEW object \in HeaderObjects
  PROVE  LET l == Stored(m, lv, object) IN
         Shaped(l) /\ Distinct(l) /\ Written(m, l, lv, HeaderOf(object))
<1> DEFINE new == Copy(m.heap, object)
           g == WithHeap(m, new.heap)
           l == Stored(m, lv, object)
<1>1. HeapOK(m.heap)
  BY DEF Shaped
<1>2. /\ Grown(m.heap, new.heap) /\ new.ref \in DOMAIN new.heap /\ new.ref \notin DOMAIN m.heap
      /\ new.heap[new.ref] = object
  BY <1>1, CopyOfHeader
<1>3. l = Link(g, lv, new.ref)
  BY DEF Stored
<1>4. g.heap = new.heap /\ g.frame = m.frame
  BY DEF WithHeap
<1> HIDE DEF new
<1>5. /\ Shaped(g) /\ Distinct(g) /\ SameValues(m, g) /\ Places(g) = Places(m)
      /\ \A x \in AnyLValue : RefIn(g, x) = RefIn(m, x)
  BY <1>2, Grows
<1>6. Named(g, lv)
  BY <1>4 DEF Named
<1> HIDE DEF g
<1>7. \A x \in Places(g) : RefIn(g, x) # new.ref
  BY <1>2, <1>5, PlacesAreLValues DEF Distinct
<1>8. LET k == Link(g, lv, new.ref) IN
      Shaped(k) /\ Distinct(k) /\ Written(g, k, lv, HeaderIn(g.heap, new.ref))
  BY <1>2, <1>4, <1>5, <1>6, <1>7, LinkStores
<1>9. HeaderIn(g.heap, new.ref) = HeaderOf(object)
  BY <1>2, <1>4 DEF HeaderIn, HeaderOf
<1>10. Shaped(l) /\ Distinct(l) /\ Written(g, l, lv, HeaderOf(object))
  BY <1>3, <1>8, <1>9
<1> QED BY <1>5, <1>10 DEF Written, SameValues

(* Garbage is collected: nothing that can be named is lost.                    *)
Collected(m) == [heap |-> [n \in Reachable(m) |-> m.heap[n]], env |-> m.env, frame |-> m.frame]

LEMMA CollectionKeeps ==
  ASSUME NEW m, Shaped(m), Distinct(m)
  PROVE  Shaped(Collected(m)) /\ Distinct(Collected(m)) /\ SameValues(m, Collected(m))
<1> DEFINE l == Collected(m)
           D == DOMAIN m.heap
           R == Reachable(m)
<1>1. l = [heap |-> l.heap, env |-> l.env, frame |-> l.frame] /\ l.env = m.env /\ l.frame = m.frame
      /\ l.heap = [n \in R |-> m.heap[n]]
  BY DEF Collected
<1> HIDE DEF l
<1>2. /\ m.env.h \in D /\ m.env.s \in D /\ m.env.t \in D /\ m.env.u \in D
      /\ m.env \in Envs(D) /\ m.heap[m.env.s].field \in D /\ m.heap[m.env.s] \in Structs(D)
      /\ m.heap[m.env.s].is = "struct"
      /\ \A x \in StackVars : m.env[x] \in D /\ m.heap[m.env[x]].is = "stack"
                              /\ m.heap[m.env[x]] \in Stacks(D)
      /\ m.frame \in {NoFrame} \cup Calls(D) \cup Applies
      /\ m.frame.kind = "call" => m.frame.p \in D
      /\ IsFiniteSet(D) /\ D \subseteq Nat \ {0}
  BY ShapeFacts DEF Shaped, HeapOK
<1>3. /\ Roots(m) \subseteq R /\ Roots(m) \subseteq D
      /\ m.env.h \in Roots(m) /\ m.env.s \in Roots(m) /\ m.env.t \in Roots(m) /\ m.env.u \in Roots(m)
      /\ \A x \in StackVars : m.env[x] \in Roots(m)
      /\ m.frame.kind = "call" => m.frame.p \in Roots(m)
  BY <1>2 DEF Roots, Reachable, StackVars
<1>4. \A n \in Roots(m) : \A c \in Inner(m.heap[n]) : c \in R
  BY DEF Reachable
<1>5. m.heap[m.env.s].field \in R
  <2>1. Inner(m.heap[m.env.s]) = {m.heap[m.env.s].field}
    BY <1>2 DEF Inner
  <2> QED BY <1>3, <1>4, <2>1
<1>6. \A x \in StackVars, k \in 1 .. Elements : m.heap[m.env[x]].elems[k] \in R
  <2> TAKE x \in StackVars, k \in 1 .. Elements
  <2>1. Inner(m.heap[m.env[x]]) = {m.heap[m.env[x]].elems[j] : j \in 1 .. Elements}
    BY <1>2 DEF Inner
  <2>2. m.heap[m.env[x]].elems[k] \in Inner(m.heap[m.env[x]])
    BY <2>1
  <2>3. m.env[x] \in Roots(m)
    BY <1>3
  <2> QED BY <1>4, <2>2, <2>3
<1>7. R \subseteq D
  <2>1. ASSUME NEW n \in Roots(m), NEW c \in Inner(m.heap[n])
        PROVE  c \in D
    <3>1. CASE n = m.env.h
      <4>1. m.heap[n] \in HeaderObjects
        BY <3>1, PlaceCases, PlaceRefs DEF Distinct
      <4> QED BY <2>1, <4>1, HeaderShape DEF Inner
    <3>2. CASE n = m.env.s
      BY <1>2, <2>1, <3>2 DEF Inner
    <3>3. CASE n \in {m.env.t, m.env.u}
      <4>1. m.heap[n] \in Stacks(D) /\ m.heap[n].is = "stack"
        BY <1>2, <3>3 DEF StackVars
      <4>2. m.heap[n].elems \in [1 .. Elements -> D]
        BY <4>1 DEF Stacks
      <4>3. Inner(m.heap[n]) = {m.heap[n].elems[j] : j \in 1 .. Elements}
        BY <4>1 DEF Inner
      <4>4. PICK j \in 1 .. Elements : c = m.heap[n].elems[j]
        BY <2>1, <4>3
      <4> QED BY <4>2, <4>4
    <3>4. CASE m.frame.kind = "call" /\ n = m.frame.p
      <4>1. m.heap[n] \in HeaderObjects
        BY <3>4, PlaceCases, PlaceRefs DEF Distinct
      <4> QED BY <2>1, <4>1, HeaderShape DEF Inner
    <3> QED BY <3>1, <3>2, <3>3, <3>4 DEF Roots
  <2> QED BY <1>3, <2>1 DEF Reachable
<1>8. HeapOK(l.heap) /\ DOMAIN l.heap = R
  <2>1. IsFiniteSet(R)
    BY <1>2, <1>7, FS_Subset
  <2> HIDE DEF R
  <2> QED BY <1>1, <1>2, <1>7, <2>1 DEF HeapOK
<1> HIDE DEF R, D
<1>18. \A n \in R : l.heap[n] = m.heap[n]
  BY <1>1
<1>9. l.heap[m.env.s] = m.heap[m.env.s] /\ \A x \in StackVars : l.heap[m.env[x]] = m.heap[m.env[x]]
  BY <1>3, <1>18
<1>10. Shaped(l)
  <2>1. m.env \in Envs(R)
    BY <1>2, <1>3 DEF Envs
  <2>2. l.heap[m.env.s] \in Structs(R)
    BY <1>2, <1>5, <1>9 DEF Structs
  <2>3. \A x \in StackVars : l.heap[m.env[x]] \in Stacks(R)
    BY <1>2, <1>6, <1>9 DEF Stacks
  <2>4. m.frame \in {NoFrame} \cup Calls(R) \cup Applies
    <3>1. CASE m.frame \in {NoFrame} \cup Applies
      BY <3>1
    <3>2. CASE m.frame \in Calls(D)
      <4>1. m.frame.p \in R
        BY <1>3, <3>2 DEF Calls
      <4> QED BY <3>2, <4>1 DEF Calls
    <3> QED BY <1>2, <3>1, <3>2
  <2> QED BY <1>1, <1>8, <2>1, <2>2, <2>3, <2>4 DEF Shaped
<1>11. Places(l) = Places(m)
  BY <1>1 DEF Places
<1>12. \A x \in Places(m) : RefIn(l, x) = RefIn(m, x)
  BY <1>1, <1>9, SameRefs, PlacesAreLValues
<1>13. \A x \in Places(m) : RefIn(m, x) \in R
  <2> TAKE x \in Places(m)
  <2>1. CASE x = [var |-> "h", index |-> NoSelector] \/ x = [var |-> "s", index |-> NoSelector]
    BY <1>3, <1>5, <2>1, PlaceRefs
  <2>2. CASE x = Param /\ m.frame.kind = "call"
    BY <1>3, <2>2, PlaceRefs
  <2>3. ASSUME NEW y \in StackVars, NEW k \in 0 .. Elements - 1, x = [var |-> y, index |-> k]
        PROVE  RefIn(m, x) \in R
    <3>1. k + 1 \in 1 .. Elements
      BY StorageAssumption
    <3>2. RefIn(m, x) = m.heap[m.env[y]].elems[k + 1]
      BY <2>3, PlaceRefs
    <3> QED BY <1>6, <3>1, <3>2
  <2> QED BY <2>1, <2>2, <2>3, PlaceCases
<1>14. Distinct(l)
  BY <1>1, <1>8, <1>11, <1>12, <1>13 DEF Distinct
<1>15. SameOutline(m, l)
  BY <1>1, <1>9 DEF SameOutline
<1>16. \A x \in Places(m) : Value(l, x) = Value(m, x)
  BY <1>1, <1>12, <1>13 DEF Value, HeaderIn
<1>17. SameValues(m, l)
  BY <1>15, <1>16, EqualValues
<1> QED BY <1>10, <1>14, <1>17 DEF l
-----------------------------------------------------------------------------
(* Steps.                                                                      *)

Valid == Shaped(Memory) /\ Distinct(Memory)

LEMMA Happens ==
  ASSUME NEW l, Shaped(l), Distinct(l), Become(l)
  PROVE  Valid' /\ StoreOf(Memory)' = StoreOf(l) /\ FrameOf(Memory)' = FrameOf(l)
<1>1. Memory' = Collected(l)
  BY DEF Memory, Become, Collected
<1>2. Shaped(Memory') /\ Distinct(Memory') /\ StoreOf(Memory') = StoreOf(l) /\ FrameOf(Memory') = FrameOf(l)
  BY <1>1, CollectionKeeps DEF SameValues
<1> QED BY <1>2 DEF Valid

LEMMA Sets ==
  ASSUME NEW l, Shaped(l), Distinct(l), Become(l), NEW lv, NEW v, Written(Memory, l, lv, v)
  PROVE  Valid' /\ AsValues!Set(lv, v)
BY Happens DEF Written, AsValues!Set
(* Reading, in the terms of the values.                                        *)
LEMMA Reads ==
  ASSUME Valid, NEW lv, Named(Memory, lv)
  PROVE  /\ ObjectAt(Memory, lv) \in HeaderObjects
         /\ HeaderOf(ObjectAt(Memory, lv)) = AsValues!Get(lv)
<1>1. AsValues!Get(lv) = ValueIn(StoreOf(Memory), FrameOf(Memory), lv)
  BY DEF AsValues!Get, ValueIn
<1> QED BY <1>1, ReadsValue DEF Valid

LEMMA FieldValue ==
  ASSUME NEW m, Shaped(m), Distinct(m), NEW lv, Named(m, lv), NEW b \in Bit
  PROVE  LET l == WithField(m, lv, b) IN
         /\ Shaped(l) /\ Distinct(l) /\ l.env = m.env /\ l.frame = m.frame
         /\ Written(m, l, lv, [ValueIn(StoreOf(m), FrameOf(m), lv) EXCEPT !.f = b])
<1> DEFINE o == ObjectAt(m, lv)
           z == [o EXCEPT !.f = b]
           v == ValueIn(StoreOf(m), FrameOf(m), lv)
           l == Mutated(m, lv, z)
<1>1. o \in HeaderObjects /\ HeaderOf(o) = v
  BY ReadsValue
<1>2. z \in HeaderObjects /\ HeaderOf(z) = [HeaderOf(o) EXCEPT !.f = b]
  <2> HIDE DEF o
  <2> QED BY <1>1, HeaderShape
<1>3. WithField(m, lv, b) = l
  BY DEF WithField
<1> HIDE DEF o, z, v
<1>4. Shaped(l) /\ Distinct(l) /\ Written(m, l, lv, HeaderOf(z)) /\ l.env = m.env /\ l.frame = m.frame
  BY <1>2, MutatesValue
<1>5. HeaderOf(z) = [v EXCEPT !.f = b]
  BY <1>1, <1>2
<1> HIDE DEF l
<1> QED BY <1>3, <1>4, <1>5 DEF v

LEMMA Frames ==
  ASSUME NEW m
  PROVE  FrameOf(m).kind = m.frame.kind /\ (m.frame.kind # "call" => FrameOf(m) = m.frame)
BY DEF FrameOf

LEMMA Visibles ==
  ASSUME NEW lv \in HeaderLValues, Visible(lv)
  PROVE  Named(Memory, lv) /\ AsValues!Visible(lv)
<1>1. lv \in AnyLValue
  BY StorageAssumption DEF AnyLValue
<1>2. Memory.frame = frame
  BY DEF Memory
<1> QED BY <1>1, <1>2, Frames DEF Named, Visible, AsValues!Visible

(* What a statement is called says what it does.                               *)
LEMMA ExecuteOne ==
  ASSUME NEW a, NEW b, NEW c, NEW d, NEW e
  PROVE  /\ stmt' = <<"assign", a, b, 0, 0, 0>> /\ AsValues!Assign(a, b) => AsValues!Next
         /\ stmt' = <<"field", a, b, 0, 0, 0>> /\ AsValues!AssignField(a, b) => AsValues!Next
         /\ stmt' = <<"extract", a, b, 0, 0, 0>> /\ AsValues!Extract(a, b) => AsValues!Next
         /\ stmt' = <<"apply", a, b, 0, 0, 0>> /\ AsValues!Apply(a, b) => AsValues!Next
         /\ stmt' = <<"validity", a, b, 0, 0, 0>> /\ AsValues!SetValid(a, b) => AsValues!Next
         /\ stmt' = <<"stack", a, b, 0, 0, 0>> /\ AsValues!AssignStack(a, b) => AsValues!Next
         /\ stmt' = <<"index", a, b, 0, 0, 0>> /\ AsValues!AssignIndex(a) => AsValues!Next
         /\ stmt' = <<"next", a, b, 0, 0, 0>> /\ AsValues!ExtractNext(a, b) => AsValues!Next
         /\ stmt' = <<"push", a, b, 0, 0, 0>> /\ AsValues!Shift(a, b) => AsValues!Next
         /\ stmt' = <<"pop", a, b, 0, 0, 0>> /\ AsValues!Shift(a, -b) => AsValues!Next
         /\ stmt' = <<"extern", a, b, c, d, e>> /\ a.var # "p" /\ AsValues!CallExtern(a, b, c, d, e)
            => AsValues!Next
         /\ stmt' = <<"call", a, b, 0, 0, 0>> /\ AsValues!CallAction(a, b) => AsValues!Next
         /\ stmt' = <<"return", 0, 0, 0, 0, 0>> /\ AsValues!Return => AsValues!Next
<1>1. ASSUME stmt' = <<"assign", a, b, 0, 0, 0>>, AsValues!Assign(a, b)
      PROVE  AsValues!Next
  BY <1>1 DEF AsValues!Next, AsValues!Execute
<1>2. ASSUME stmt' = <<"field", a, b, 0, 0, 0>>, AsValues!AssignField(a, b)
      PROVE  AsValues!Next
  BY <1>2 DEF AsValues!Next, AsValues!Execute
<1>3. ASSUME stmt' = <<"extract", a, b, 0, 0, 0>>, AsValues!Extract(a, b)
      PROVE  AsValues!Next
  BY <1>3 DEF AsValues!Next, AsValues!Execute
<1>4. ASSUME stmt' = <<"apply", a, b, 0, 0, 0>>, AsValues!Apply(a, b)
      PROVE  AsValues!Next
  BY <1>4 DEF AsValues!Next, AsValues!Execute
<1>5. ASSUME stmt' = <<"validity", a, b, 0, 0, 0>>, AsValues!SetValid(a, b)
      PROVE  AsValues!Next
  BY <1>5 DEF AsValues!Next, AsValues!Execute
<1>6. ASSUME stmt' = <<"stack", a, b, 0, 0, 0>>, AsValues!AssignStack(a, b)
      PROVE  AsValues!Next
  BY <1>6 DEF AsValues!Next, AsValues!Execute
<1>7. ASSUME stmt' = <<"index", a, b, 0, 0, 0>>, AsValues!AssignIndex(a)
      PROVE  AsValues!Next
  BY <1>7 DEF AsValues!Next, AsValues!Execute
<1>8. ASSUME stmt' = <<"next", a, b, 0, 0, 0>>, AsValues!ExtractNext(a, b)
      PROVE  AsValues!Next
  BY <1>8 DEF AsValues!Next, AsValues!Execute
<1>9. ASSUME stmt' = <<"push", a, b, 0, 0, 0>>, AsValues!Shift(a, b)
      PROVE  AsValues!Next
  BY <1>9 DEF AsValues!Next, AsValues!Execute
<1>10. ASSUME stmt' = <<"pop", a, b, 0, 0, 0>>, AsValues!Shift(a, -b)
      PROVE  AsValues!Next
  BY <1>10 DEF AsValues!Next, AsValues!Execute
<1>11. ASSUME stmt' = <<"extern", a, b, c, d, e>>, a.var # "p" /\ AsValues!CallExtern(a, b, c, d, e)
      PROVE  AsValues!Next
  BY <1>11 DEF AsValues!Next, AsValues!Execute
<1>12. ASSUME stmt' = <<"call", a, b, 0, 0, 0>>, AsValues!CallAction(a, b)
      PROVE  AsValues!Next
  BY <1>12 DEF AsValues!Next, AsValues!Execute
<1>13. ASSUME stmt' = <<"return", 0, 0, 0, 0, 0>>, AsValues!Return
      PROVE  AsValues!Next
  BY <1>13 DEF AsValues!Next, AsValues!Execute
<1> QED BY <1>1, <1>2, <1>3, <1>4, <1>5, <1>6, <1>7, <1>8, <1>9, <1>10, <1>11, <1>12, <1>13
Correct == Valid' /\ AsValues!Next

LEMMA AssignStep ==
  ASSUME Valid, NEW lv \in HeaderLValues, NEW source \in HeaderLValues, Assign(lv, source)
  PROVE  Correct
<1> DEFINE o == ObjectAt(Memory, source)
           l == Stored(Memory, lv, o)
<1>1. Visible(lv) /\ Visible(source) /\ Become(l) /\ stmt' = <<"assign", lv, source, 0, 0, 0>>
  BY DEF Assign, Executing, Executes
<1>2. Named(Memory, lv) /\ Named(Memory, source) /\ AsValues!Visible(lv) /\ AsValues!Visible(source)
  BY <1>1, Visibles
<1>3. o \in HeaderObjects /\ HeaderOf(o) = AsValues!Get(source)
  BY <1>2, Reads
<1> HIDE DEF o
<1>4. Shaped(l) /\ Distinct(l) /\ Written(Memory, l, lv, HeaderOf(o))
  BY <1>2, <1>3, StoresValue DEF Valid
<1> HIDE DEF l
<1>5. Valid' /\ AsValues!Set(lv, HeaderOf(o))
  BY <1>1, <1>4, Sets
<1>6. AsValues!Assign(lv, source)
  BY <1>2, <1>3, <1>5 DEF AsValues!Assign
<1> QED BY <1>1, <1>5, <1>6, ExecuteOne DEF Correct

LEMMA AssignFieldStep ==
  ASSUME Valid, NEW lv \in HeaderLValues, NEW b \in Bit, AssignField(lv, b)
  PROVE  Correct
<1> DEFINE l == WithField(Memory, lv, b)
           v == [ValueIn(StoreOf(Memory), FrameOf(Memory), lv) EXCEPT !.f = b]
<1>1. Visible(lv) /\ Become(l) /\ stmt' = <<"field", lv, b, 0, 0, 0>>
  BY DEF AssignField, Executing, Executes
<1>2. Named(Memory, lv) /\ AsValues!Visible(lv)
  BY <1>1, Visibles
<1>3. Shaped(l) /\ Distinct(l) /\ Written(Memory, l, lv, v)
  BY <1>2, FieldValue DEF Valid
<1>4. v = [AsValues!Get(lv) EXCEPT !.f = b]
  BY DEF AsValues!Get, ValueIn
<1> HIDE DEF l, v
<1>5. Valid' /\ AsValues!Set(lv, v)
  BY <1>1, <1>3, Sets
<1>6. AsValues!AssignField(lv, b)
  BY <1>2, <1>4, <1>5 DEF AsValues!AssignField
<1> QED BY <1>1, <1>5, <1>6, ExecuteOne DEF Correct

LEMMA SetValidStep ==
  ASSUME Valid, NEW lv \in HeaderLValues, NEW b \in BOOLEAN, SetValid(lv, b)
  PROVE  Correct
<1> DEFINE o == ObjectAt(Memory, lv)
           z == [o EXCEPT !.valid = b]
           l == Mutated(Memory, lv, z)
<1>1. Visible(lv) /\ Become(l) /\ stmt' = <<"validity", lv, b, 0, 0, 0>>
  BY DEF SetValid, Executing, Executes
<1>2. Named(Memory, lv) /\ AsValues!Visible(lv)
  BY <1>1, Visibles
<1>3. o \in HeaderObjects /\ HeaderOf(o) = AsValues!Get(lv)
  BY <1>2, Reads
<1> HIDE DEF o
<1>4. z \in HeaderObjects /\ HeaderOf(z) = [HeaderOf(o) EXCEPT !.valid = b]
  BY <1>3, HeaderShape
<1> HIDE DEF z
<1>5. Shaped(l) /\ Distinct(l) /\ Written(Memory, l, lv, HeaderOf(z))
  BY <1>2, <1>4, MutatesValue DEF Valid
<1> HIDE DEF l
<1>6. Valid' /\ AsValues!Set(lv, HeaderOf(z))
  BY <1>1, <1>5, Sets
<1>7. AsValues!SetValid(lv, b)
  BY <1>2, <1>3, <1>4, <1>6 DEF AsValues!SetValid
<1> QED BY <1>1, <1>6, <1>7, ExecuteOne DEF Correct

LEMMA FilledShape ==
  ASSUME NEW b \in Bit
  PROVE  Filled(b) \in HeaderObjects /\ HeaderOf(Filled(b)) = [valid |-> TRUE, f |-> b]
<1> DEFINE z == [ZeroObject EXCEPT !.valid = TRUE]
<1>1. z \in HeaderObjects
  BY ZeroShape, HeaderShape
<1>2. z.valid = TRUE
  BY DEF ZeroObject
<1>3. Filled(b) = [z EXCEPT !.f = b]
  BY DEF Filled
<1> HIDE DEF z
<1>4. Filled(b) \in HeaderObjects /\ HeaderOf(Filled(b)) = [HeaderOf(z) EXCEPT !.f = b]
  BY <1>1, <1>3, HeaderShape
<1>5. HeaderOf(z) = [valid |-> TRUE, f |-> z.f]
  BY <1>2 DEF HeaderOf
<1> DEFINE c == z.f
           t == TRUE
<1>6. HeaderOf(z) = [valid |-> t, f |-> c] /\ t = TRUE
  BY <1>5
<1> HIDE DEF c, t
<1>7. [[valid |-> t, f |-> c] EXCEPT !.f = b] = [valid |-> t, f |-> b]
  OBVIOUS
<1>8. HeaderOf(Filled(b)) = [valid |-> t, f |-> b]
  BY <1>4, <1>6, <1>7
<1> QED BY <1>4, <1>6, <1>8

LEMMA ExtractStep ==
  ASSUME Valid, NEW lv \in HeaderLValues, NEW b \in Bit, Extract(lv, b)
  PROVE  Correct
<1> DEFINE l == Stored(Memory, lv, Filled(b))
<1>1. ~InAction /\ lv.var # "p" /\ Become(l) /\ stmt' = <<"extract", lv, b, 0, 0, 0>>
  BY DEF Extract, Executing, Executes
<1>2. Named(Memory, lv)
  BY <1>1, Visibles DEF Visible
<1>3. Shaped(l) /\ Distinct(l) /\ Written(Memory, l, lv, HeaderOf(Filled(b)))
  BY <1>2, FilledShape, StoresValue DEF Valid
<1> HIDE DEF l
<1>4. Valid' /\ AsValues!Set(lv, HeaderOf(Filled(b)))
  BY <1>1, <1>3, Sets
<1>5. ~AsValues!InAction
  BY <1>1, Frames DEF InAction, AsValues!InAction, Memory
<1>6. AsValues!Extract(lv, b)
  BY <1>1, <1>4, <1>5, FilledShape DEF AsValues!Extract
<1> QED BY <1>1, <1>4, <1>6, ExecuteOne DEF Correct

(* The index variable.                                                         *)
LEMMA IndexSet ==
  ASSUME NEW m, Shaped(m), Distinct(m), NEW k \in 0 .. Elements
  PROVE  LET l == WithEnv(m, [m.env EXCEPT !.i = k]) IN
         /\ Shaped(l) /\ Distinct(l) /\ l.frame = m.frame
         /\ StoreOf(l) = [StoreOf(m) EXCEPT !.i = k] /\ FrameOf(l) = FrameOf(m)
<1> DEFINE e == [m.env EXCEPT !.i = k]
           l == WithEnv(m, e)
<1>1. m.env \in Envs(DOMAIN m.heap)
  BY DEF Shaped
<1>2. /\ e \in Envs(DOMAIN m.heap) /\ e.h = m.env.h /\ e.s = m.env.s /\ e.t = m.env.t /\ e.u = m.env.u
      /\ e.i = k /\ \A x \in StackVars : e[x] = m.env[x]
  BY <1>1 DEF Envs, StackVars
<1> HIDE DEF e
<1>3. l = [heap |-> m.heap, env |-> e, frame |-> m.frame] /\ l.heap = m.heap /\ l.env = e /\ l.frame = m.frame
  BY DEF WithEnv
<1>4. Shaped(l)
  BY <1>2, <1>3 DEF Shaped
<1>5. Places(l) = Places(m)
  BY <1>3 DEF Places
<1> HIDE DEF l
<1>6. \A x \in Places(m) : RefIn(l, x) = RefIn(m, x)
  <2> TAKE x \in Places(m)
  <2>1. CASE x = [var |-> "h", index |-> NoSelector] \/ x = [var |-> "s", index |-> NoSelector] \/ x = Param
    BY <1>2, <1>3, <2>1, PlaceRefs
  <2>2. ASSUME NEW y \in StackVars, NEW j \in 0 .. Elements - 1, x = [var |-> y, index |-> j]
        PROVE  RefIn(l, x) = RefIn(m, x)
    <3>1. RefIn(l, x) = l.heap[l.env[y]].elems[j + 1] /\ RefIn(m, x) = m.heap[m.env[y]].elems[j + 1]
      BY <2>2, PlaceRefs
    <3> QED BY <1>2, <1>3, <3>1
  <2> QED BY <2>1, <2>2, PlaceCases
<1>7. Distinct(l)
  BY <1>2, <1>3, <1>5, <1>6 DEF Distinct
<1>8. \A x \in Places(m) : Value(l, x) = Value(m, x)
  BY <1>3, <1>6 DEF Value
<1>9. PlaceH \in Places(m) /\ PlaceS \in Places(m) /\ (m.frame.kind = "call" => Param \in Places(m))
  BY PlaceCases DEF PlaceH, PlaceS
<1>10. FrameOf(l) = FrameOf(m)
  BY <1>3, <1>8, <1>9, StoreByPlaces
<1>11. \A x \in StackVars : ElementsOf(l, x) = ElementsOf(m, x)
  <2> TAKE x \in StackVars
  <2>1. \A j \in 0 .. Elements - 1 : Value(l, PlaceAt(x, j)) = Value(m, PlaceAt(x, j))
    BY <1>8, PlaceCases DEF PlaceAt
  <2> QED BY <1>2, <1>3, <2>1 DEF ElementsOf
<1> DEFINE st == StoreOf(m)
<1>12. st = [h |-> Value(m, PlaceH), s |-> Value(m, PlaceS), i |-> m.env.i,
             t |-> ElementsOf(m, "t"), u |-> ElementsOf(m, "u")]
  BY StoreByPlaces
<1>13. StoreOf(l) = [h |-> Value(m, PlaceH), s |-> Value(m, PlaceS), i |-> k,
                     t |-> ElementsOf(m, "t"), u |-> ElementsOf(m, "u")]
  BY <1>2, <1>3, <1>8, <1>9, <1>11, StoreByPlaces DEF StackVars
<1> HIDE DEF st
<1>14. StoreOf(l) = [st EXCEPT !.i = k]
  BY <1>12, <1>13
<1> QED BY <1>3, <1>4, <1>7, <1>10, <1>14 DEF l, e, st

LEMMA AssignVariableStep ==
  ASSUME Valid, NEW k \in 0 .. Elements, AssignVariable(k)
  PROVE  Correct
<1> DEFINE l == WithEnv(Memory, [env EXCEPT !.i = k])
<1>1. Become(l) /\ stmt' = <<"index", k, 0, 0, 0, 0>>
  BY DEF AssignVariable, Executing, Executes
<1>2. Memory.env = env
  BY DEF Memory
<1>3. /\ Shaped(l) /\ Distinct(l)
      /\ StoreOf(l) = [StoreOf(Memory) EXCEPT !.i = k] /\ FrameOf(l) = FrameOf(Memory)
  BY <1>2, IndexSet DEF Valid
<1> HIDE DEF l
<1>4. Valid' /\ StoreOf(Memory)' = StoreOf(l) /\ FrameOf(Memory)' = FrameOf(l)
  BY <1>1, <1>3, Happens
<1>5. AsValues!AssignIndex(k)
  BY <1>3, <1>4 DEF AsValues!AssignIndex
<1> QED BY <1>1, <1>4, <1>5, ExecuteOne DEF Correct
(* Calls and returns.                                                          *)
LEMMA ResolvesAlike ==
  ASSUME NEW m, NEW lv \in AnyLValue
  PROVE  /\ [lv EXCEPT !.index = AsValues!At(@, StoreOf(m).i)] = Resolved(m.env, lv)
         /\ Memory = m => AsValues!Resolve(lv) = Resolved(m.env, lv)
<1>1. StoreOf(m).i = m.env.i
  BY DEF StoreOf
<1>2. AsValues!At(lv.index, m.env.i) = IndexIn(m.env, lv)
  BY DEF AsValues!At, AsValues!AtI, IndexIn, AtVariable
<1> QED BY <1>1, <1>2 DEF Resolved, AsValues!Resolve

LEMMA ResolvedValue ==
  ASSUME NEW m, Shaped(m), Distinct(m), NEW lv, Named(m, lv), NEW fr
  PROVE  LET x == Resolved(m.env, lv) IN
         /\ Named(m, x) /\ ValueIn(StoreOf(m), fr, x) = ValueIn(StoreOf(m), fr, lv)
<1> DEFINE x == Resolved(m.env, lv)
           k == IndexIn(m.env, lv)
<1>1. x \in AnyLValue /\ x.var = lv.var /\ x.index = k /\ x.index # AtVariable
  BY Denotes
<1>2. StoreOf(m).i = m.env.i
  BY DEF StoreOf
<1>3. AsValues!At(lv.index, m.env.i) = k
  BY DEF AsValues!At, AsValues!AtI, IndexIn, AtVariable
<1> HIDE DEF x, k
<1>4. AsValues!At(x.index, m.env.i) = k
  BY <1>1 DEF AsValues!At, AsValues!AtI, AtVariable
<1>5. Named(m, x)
  BY <1>1 DEF Named
<1>6. ValueIn(StoreOf(m), fr, x) = ValueIn(StoreOf(m), fr, lv)
  BY <1>1, <1>2, <1>3, <1>4 DEF ValueIn
<1> QED BY <1>5, <1>6 DEF x

(* A frame without a parameter.                                                *)
LEMMA FrameSet ==
  ASSUME NEW m, Shaped(m), Distinct(m), NEW fr \in {NoFrame} \cup Applies
  PROVE  LET l == WithFrame(m, fr) IN
         /\ Shaped(l) /\ Distinct(l) /\ l.frame = fr /\ l.heap = m.heap /\ l.env = m.env
         /\ StoreOf(l) = StoreOf(m) /\ FrameOf(l) = fr
<1> DEFINE l == WithFrame(m, fr)
<1>1. l = [heap |-> m.heap, env |-> m.env, frame |-> fr] /\ l.heap = m.heap /\ l.env = m.env /\ l.frame = fr
  BY DEF WithFrame
<1>2. fr.kind # "call"
  BY DEF NoFrame, Applies
<1> HIDE DEF l
<1>3. Shaped(l)
  BY <1>1 DEF Shaped
<1>4. Places(l) \subseteq Places(m) /\ Param \notin Places(l)
  BY <1>1, <1>2, PlaceCases DEF Places, Param, StackVars
<1>5. \A x \in Places(l) : x.var # "p"
  BY <1>1, <1>2 DEF Places, StackVars
<1>6. \A x \in Places(l) : RefIn(l, x) = RefIn(m, x)
  BY <1>1, <1>5 DEF RefIn, IndexIn
<1>7. Distinct(l)
  BY <1>1, <1>4, <1>6 DEF Distinct
<1>8. StoreOf(l) = StoreOf(m) /\ FrameOf(l) = fr
  BY <1>1, <1>2 DEF StoreOf, FrameOf
<1> QED BY <1>1, <1>3, <1>7, <1>8 DEF l

LEMMA ApplyStep ==
  ASSUME Valid, NEW lv \in HeaderLValues, NEW hit \in Bit, Apply(lv, hit)
  PROVE  Correct
<1> DEFINE fr == [kind |-> "apply", lv |-> lv, hit |-> hit]
           l == WithFrame(Memory, fr)
<1>1. ~InAction /\ lv.var # "p" /\ Become(l) /\ stmt' = <<"apply", lv, hit, 0, 0, 0>>
  BY DEF Apply, Executing, Executes
<1>2. lv \in AnyLValue
  BY StorageAssumption DEF AnyLValue
<1>3. fr \in Applies
  BY <1>1, <1>2 DEF Applies
<1> HIDE DEF fr
<1>4. Shaped(l) /\ Distinct(l) /\ StoreOf(l) = StoreOf(Memory) /\ FrameOf(l) = fr
  BY <1>3, FrameSet DEF Valid
<1> HIDE DEF l
<1>5. Valid' /\ StoreOf(Memory)' = StoreOf(l) /\ FrameOf(Memory)' = FrameOf(l)
  BY <1>1, <1>4, Happens
<1>6. ~AsValues!InAction
  BY <1>1, Frames DEF InAction, AsValues!InAction, Memory
<1>7. AsValues!Apply(lv, hit)
  BY <1>1, <1>4, <1>5, <1>6 DEF AsValues!Apply, fr
<1> QED BY <1>1, <1>5, <1>7, ExecuteOne DEF Correct

LEMMA ReturnApplyStep ==
  ASSUME Valid, ReturnApply
  PROVE  Correct
<1> DEFINE lv == frame.lv
           b == frame.hit
           l == WithField(Left, lv, b)
<1>1. frame.kind = "apply" /\ Become(l) /\ stmt' = <<"return", 0, 0, 0, 0, 0>>
  BY DEF ReturnApply, Returns, Executes
<1>2. Memory.frame = frame
  BY DEF Memory
<1>3. frame \in Applies
  BY <1>1, <1>2 DEF Valid, Shaped, NoFrame, Calls
<1>4. lv \in AnyLValue /\ lv.var # "p" /\ b \in Bit
  BY <1>3 DEF Applies
<1>5. /\ Shaped(Left) /\ Distinct(Left)
      /\ StoreOf(Left) = StoreOf(Memory) /\ FrameOf(Left) = NoFrame
  BY FrameSet DEF Left, Valid
<1> DEFINE v == [ValueIn(StoreOf(Left), FrameOf(Left), lv) EXCEPT !.f = b]
<1>6. Named(Left, lv)
  BY <1>4 DEF Named
<1> HIDE DEF lv, b
<1>7. Shaped(l) /\ Distinct(l) /\ Written(Left, l, lv, v)
  BY <1>4, <1>5, <1>6, FieldValue
<1>8. ValueIn(StoreOf(Left), FrameOf(Left), lv) = AsValues!Get(lv)
  BY <1>4, <1>5 DEF ValueIn, AsValues!Get
<1> HIDE DEF l
<1>9. Valid' /\ StoreOf(Memory)' = StoreOf(l) /\ FrameOf(Memory)' = FrameOf(l)
  BY <1>1, <1>7, Happens
<1>10. StoreOf(l) = AsValues!Stored(StoreOf(Memory), lv, [AsValues!Get(lv) EXCEPT !.f = b]) /\ FrameOf(l) = NoFrame
  BY <1>4, <1>5, <1>7, <1>8 DEF Written
<1>11. FrameOf(Memory) = frame /\ AsValues!InAction /\ AsValues!NoFrame = NoFrame
  BY <1>1, <1>2, Frames DEF AsValues!InAction, AsValues!NoFrame, NoFrame
<1>12. AsValues!Return
  BY <1>1, <1>9, <1>10, <1>11 DEF AsValues!Return, lv, b
<1> QED BY <1>1, <1>9, <1>12, ExecuteOne DEF Correct

LEMMA ReturnCallStep ==
  ASSUME Valid, ReturnCall
  PROVE  Correct
<1>1. frame.kind = "call" /\ stmt' = <<"return", 0, 0, 0, 0, 0>>
      /\ Become(IF frame.dir = "in" THEN Left ELSE Stored(Left, frame.arg, heap[frame.p]))
  BY DEF ReturnCall, Returns, Executes
<1>2. Memory.frame = frame /\ Memory.heap = heap
  BY DEF Memory
<1>3. frame \in Calls(DOMAIN heap)
  BY <1>1, <1>2, ShapeFacts DEF Valid
<1>4. frame.arg \in AnyLValue /\ frame.arg.var # "p"
  BY <1>3 DEF Calls
<1>5. /\ Shaped(Left) /\ Distinct(Left)
      /\ StoreOf(Left) = StoreOf(Memory) /\ FrameOf(Left) = NoFrame
  BY FrameSet DEF Left, Valid
<1>6. heap[frame.p] \in HeaderObjects
  <2>1. Param \in Places(Memory) /\ RefIn(Memory, Param) = frame.p
    BY <1>1, <1>2, PlaceCases, PlaceRefs
  <2> QED BY <1>2, <2>1 DEF Valid, Distinct
<1> DEFINE v == HeaderIn(heap, frame.p)
<1>7. FrameOf(Memory) = [kind |-> "call", dir |-> frame.dir, p |-> v, arg |-> frame.arg]
  BY <1>1, <1>2 DEF FrameOf
<1>8. FrameOf(Memory).kind = "call" /\ FrameOf(Memory).dir = frame.dir /\ FrameOf(Memory).p = v
      /\ FrameOf(Memory).arg = frame.arg
  BY <1>7
<1>9. AsValues!InAction /\ AsValues!NoFrame = NoFrame
  BY <1>8 DEF AsValues!InAction, AsValues!NoFrame, NoFrame
<1>10. HeaderOf(heap[frame.p]) = v
  BY DEF HeaderOf, HeaderIn
<1> HIDE DEF v
<1>11. CASE frame.dir = "in"
  <2>1. Become(Left)
    BY <1>1, <1>11
  <2>2. Valid' /\ StoreOf(Memory)' = StoreOf(Left) /\ FrameOf(Memory)' = FrameOf(Left)
    BY <1>5, <2>1, Happens
  <2>3. AsValues!Return
    BY <1>5, <1>8, <1>9, <1>11, <2>2 DEF AsValues!Return
  <2> QED BY <1>1, <2>2, <2>3, ExecuteOne DEF Correct
<1>12. CASE frame.dir # "in"
  <2> DEFINE l == Stored(Left, frame.arg, heap[frame.p])
  <2>1. Become(l)
    BY <1>1, <1>12
  <2>2. Named(Left, frame.arg)
    BY <1>4 DEF Named
  <2>3. Shaped(l) /\ Distinct(l) /\ Written(Left, l, frame.arg, v)
    BY <1>5, <1>6, <1>10, <2>2, StoresValue
  <2> HIDE DEF l
  <2>4. Valid' /\ StoreOf(Memory)' = StoreOf(l) /\ FrameOf(Memory)' = FrameOf(l)
    BY <2>1, <2>3, Happens
  <2>5. StoreOf(l) = AsValues!Stored(StoreOf(Memory), frame.arg, v) /\ FrameOf(l) = NoFrame
    BY <1>4, <1>5, <2>3 DEF Written
  <2>6. AsValues!Return
    BY <1>8, <1>9, <1>12, <2>4, <2>5 DEF AsValues!Return
  <2> QED BY <1>1, <2>4, <2>6, ExecuteOne DEF Correct
<1> QED BY <1>11, <1>12
LEMMA CallActionStep ==
  ASSUME Valid, NEW dir \in {"in", "out", "inout"}, NEW arg \in HeaderLValues, CallAction(dir, arg)
  PROVE  Correct
<1> DEFINE to == IF dir = "in" THEN arg ELSE Resolved(env, arg)
           o == IF dir = "out" THEN ZeroObject ELSE ObjectAt(Memory, to)
           new == Copy(heap, o)
           fr == [kind |-> "call", dir |-> dir, arg |-> to, p |-> new.ref]
           l == [heap |-> new.heap, env |-> env, frame |-> fr]
           D == DOMAIN heap
           g == WithHeap(Memory, new.heap)
<1>1. ~InAction /\ arg.var # "p" /\ Become(l) /\ stmt' = <<"call", dir, arg, 0, 0, 0>>
  BY DEF CallAction, Executing, Executes
<1>2. Memory.heap = heap /\ Memory.env = env /\ Memory.frame = frame
  BY DEF Memory
<1>3. arg \in AnyLValue /\ Named(Memory, arg)
  BY <1>1, Visibles, StorageAssumption DEF Visible, AnyLValue
<1>4. /\ Named(Memory, to) /\ to \in AnyLValue /\ to.var # "p"
      /\ AsValues!Get(arg) = ValueIn(StoreOf(Memory), FrameOf(Memory), to)
  <2>1. AsValues!Get(arg) = ValueIn(StoreOf(Memory), FrameOf(Memory), arg)
    BY DEF AsValues!Get, ValueIn
  <2>2. Named(Memory, Resolved(env, arg)) /\ ValueIn(StoreOf(Memory), FrameOf(Memory), Resolved(env, arg))
                                             = ValueIn(StoreOf(Memory), FrameOf(Memory), arg)
    BY <1>2, <1>3, ResolvedValue DEF Valid
  <2>3. Resolved(env, arg) \in AnyLValue /\ Resolved(env, arg).var = arg.var
    BY <1>2, <1>3, Denotes DEF Valid
  <2> QED BY <1>1, <1>3, <2>1, <2>2, <2>3
<1>5. to = IF dir = "in" THEN arg ELSE AsValues!Resolve(arg)
  BY <1>2, <1>3, ResolvesAlike
<1> HIDE DEF to
<1>6. o \in HeaderObjects /\ HeaderOf(o) = IF dir = "out" THEN AsValues!ZeroHeader ELSE AsValues!Get(arg)
  BY <1>4, ZeroShape, ReadsValue DEF Valid
<1> HIDE DEF o
<1>7. HeapOK(heap)
  BY <1>2 DEF Valid, Shaped
<1>8. Grown(heap, new.heap) /\ new.ref \in DOMAIN new.heap /\ new.ref \notin D /\ new.heap[new.ref] = o
  BY <1>6, <1>7, CopyOfHeader
<1> HIDE DEF new
<1>9. /\ Shaped(g) /\ Distinct(g) /\ SameValues(Memory, g) /\ Places(g) = Places(Memory)
      /\ \A lv \in AnyLValue : RefIn(g, lv) = RefIn(Memory, lv)
  BY <1>2, <1>8, Grows DEF Valid
<1>10. g.heap = new.heap /\ g.env = env /\ g.frame = frame
  BY <1>2 DEF WithHeap
<1>11. l.heap = new.heap /\ l.env = env /\ l.frame = fr /\ fr.kind = "call" /\ fr.p = new.ref
       /\ l = [heap |-> l.heap, env |-> l.env, frame |-> l.frame]
  OBVIOUS
<1>12. fr \in Calls(DOMAIN new.heap)
  BY <1>4, <1>8 DEF Calls
<1> DEFINE w == HeaderIn(new.heap, new.ref)
<1>19. fr = [kind |-> "call", dir |-> dir, arg |-> to, p |-> new.ref]
       /\ FrameOf(l) = [kind |-> "call", dir |-> dir, p |-> w, arg |-> to]
  BY DEF FrameOf
<1> HIDE DEF fr, g, l, w
<1>13. Shaped(l)
  BY <1>9, <1>10, <1>11, <1>12 DEF Shaped
<1>14. Places(l) = Places(g) \cup {Param} /\ Param \notin Places(g)
       /\ \A x \in Places(g) : x.var # "p" /\ x \in Places(Memory) /\ x \in AnyLValue
  <2>1. g.frame.kind # "call"
    BY <1>1, <1>10 DEF InAction
  <2>2. Places(l) = Places(g) \cup {Param} /\ \A x \in Places(g) : x.var # "p"
    BY <1>11, <2>1 DEF Places, StackVars
  <2>3. Param \notin Places(g)
    BY <2>2 DEF Param
  <2> QED BY <1>9, <2>2, <2>3, PlacesAreLValues
<1>15. \A x \in Places(g) : RefIn(l, x) = RefIn(g, x)
  BY <1>10, <1>11, <1>14 DEF RefIn, IndexIn
<1>16. RefIn(l, Param) = new.ref
  BY <1>11, PlaceRefs
<1>17. \A x \in Places(g) : RefIn(g, x) # new.ref /\ RefIn(g, x) \in DOMAIN l.heap
                            /\ l.heap[RefIn(g, x)] \in HeaderObjects
  BY <1>2, <1>8, <1>9, <1>10, <1>11, <1>14 DEF Valid, Distinct
<1>18. Distinct(l)
  <2>1. l.env.t # l.env.u
    BY <1>9, <1>10, <1>11 DEF Distinct
  <2>2. \A x \in Places(l) : RefIn(l, x) \in DOMAIN l.heap /\ l.heap[RefIn(l, x)] \in HeaderObjects
    BY <1>6, <1>8, <1>11, <1>14, <1>15, <1>16, <1>17
  <2>3. \A x, y \in Places(l) : RefIn(l, x) = RefIn(l, y) => x = y
    <3> TAKE x, y \in Places(l)
    <3>1. CASE x \in Places(g) /\ y \in Places(g)
      BY <1>9, <1>15, <3>1 DEF Distinct
    <3>2. CASE x \in Places(g) /\ y = Param
      BY <1>15, <1>16, <1>17, <3>2
    <3>3. CASE x = Param /\ y \in Places(g)
      BY <1>15, <1>16, <1>17, <3>3
    <3> QED BY <1>14, <3>1, <3>2, <3>3
  <2> QED BY <2>1, <2>2, <2>3 DEF Distinct
<1>20. StoreOf(l) = StoreOf(Memory)
  <2>1. StoreOf(l) = StoreOf(g)
    BY <1>10, <1>11 DEF StoreOf
  <2> QED BY <1>9, <2>1 DEF SameValues
<1>21. w = HeaderOf(o)
  BY <1>8 DEF HeaderIn, HeaderOf, w
<1>22. Valid' /\ StoreOf(Memory)' = StoreOf(l) /\ FrameOf(Memory)' = FrameOf(l)
  BY <1>1, <1>13, <1>18, Happens
<1>23. ~AsValues!InAction
  BY <1>1, <1>2, Frames DEF InAction, AsValues!InAction
<1>24. FrameOf(l) = [kind |-> "call", dir |-> dir, arg |-> to, p |-> w]
  BY <1>19
<1>25. AsValues!CallAction(dir, arg)
  BY <1>1, <1>5, <1>6, <1>20, <1>21, <1>22, <1>23, <1>24 DEF AsValues!CallAction
<1> QED BY <1>1, <1>22, <1>25, ExecuteOne DEF Correct

(* An extern call: the out argument, then the result.                          *)
ResultStored(kept, to, r) ==
  LET now == CASE to.var \in {"h", "s"} -> kept[to.var]
               [] to.var \in StackVars /\ to.index < Elements -> kept[to.var].elems[to.index]
               [] OTHER -> AsValues!ZeroHeader
  IN AsValues!Stored(kept, to, [now EXCEPT !.f = r])

LEMMA ResultStep ==
  ASSUME Valid, NEW m, Shaped(m), Distinct(m), FrameOf(m) = FrameOf(Memory),
         NEW target \in HeaderLValues, target.var # "p", NEW r \in Bit,
         Become(WithField(m, Resolved(env, target), r))
  PROVE  /\ Valid' /\ FrameOf(Memory)' = FrameOf(Memory)
         /\ StoreOf(Memory)' = ResultStored(StoreOf(m), AsValues!Resolve(target), r)
<1> DEFINE to == Resolved(env, target)
           l == WithField(m, to, r)
           v == ValueIn(StoreOf(m), FrameOf(m), to)
<1>1. Memory.env = env
  BY DEF Memory
<1>2. target \in AnyLValue /\ Named(Memory, target)
  BY Visibles, StorageAssumption DEF Visible, AnyLValue
<1>3. to \in AnyLValue /\ to.var = target.var /\ to.index # AtVariable
  BY <1>1, <1>2, Denotes DEF Valid
<1>4. AsValues!Resolve(target) = to
  BY <1>1, <1>2, ResolvesAlike
<1> HIDE DEF to
<1>5. Named(m, to)
  BY <1>3 DEF Named
<1>6. Shaped(l) /\ Distinct(l) /\ Written(m, l, to, [v EXCEPT !.f = r])
  BY <1>5, FieldValue
<1>7. Become(l)
  BY DEF to
<1> HIDE DEF l
<1>8. Valid' /\ StoreOf(Memory)' = StoreOf(l) /\ FrameOf(Memory)' = FrameOf(l)
  BY <1>6, <1>7, Happens
<1>9. FrameOf(l) = FrameOf(m) /\ StoreOf(l) = AsValues!Stored(StoreOf(m), to, [v EXCEPT !.f = r])
  BY <1>3, <1>6 DEF Written
<1> DEFINE now == CASE to.var \in {"h", "s"} -> StoreOf(m)[to.var]
                    [] to.var \in StackVars /\ to.index < Elements -> StoreOf(m)[to.var].elems[to.index]
                    [] OTHER -> AsValues!ZeroHeader
<1>10. v = now
  <2>1. \A i : AsValues!At(to.index, i) = to.index
    BY <1>3 DEF AsValues!At, AsValues!AtI, AtVariable
  <2>2. to.var \in {"h", "s"} \/ to.var \in StackVars
    BY <1>3 DEF AnyLValue
  <2>3. CASE to.var \in {"h", "s"}
    BY <2>3 DEF ValueIn, StackVars
  <2>4. CASE to.var \in StackVars
    <3>1. to.var \notin {"h", "s", "p"}
      BY <2>4 DEF StackVars
    <3>2. AsValues!At(to.index, StoreOf(m).i) = to.index
      BY <2>1
    <3> DEFINE element == IF to.index < Elements THEN StoreOf(m)[to.var].elems[to.index] ELSE AsValues!ZeroHeader
    <3>3. v = element
      BY <3>1, <3>2 DEF ValueIn
    <3>4. now = element
      BY <2>4, <3>1
    <3> QED BY <3>3, <3>4
  <2> QED BY <2>2, <2>3, <2>4
<1>11. ResultStored(StoreOf(m), to, r) = AsValues!Stored(StoreOf(m), to, [now EXCEPT !.f = r])
  BY DEF ResultStored
<1> HIDE DEF now, v
<1> QED BY <1>4, <1>8, <1>9, <1>10, <1>11

LEMMA CallExternStep ==
  ASSUME Valid, NEW argument, NEW b \in Bit, NEW k \in 0 .. Elements, NEW target \in HeaderLValues, NEW r \in Bit,
         argument = TheIndex \/ (argument \in HeaderLValues /\ argument.var # "p"),
         CallExtern(argument, b, k, target, r)
  PROVE  Correct
<1> DEFINE to == Resolved(env, target)
           m == IF argument = TheIndex THEN WithEnv(Memory, [env EXCEPT !.i = k])
                ELSE WithField(Memory, Resolved(env, argument), b)
           kept == IF argument = TheIndex THEN [StoreOf(Memory) EXCEPT !.i = k]
                   ELSE AsValues!Stored(StoreOf(Memory), AsValues!Resolve(argument),
                                        [AsValues!Get(argument) EXCEPT !.f = b])
<1>1. Become(WithField(m, to, r)) /\ target.var # "p" /\ stmt' = <<"extern", argument, b, k, target, r>>
  BY DEF CallExtern, Executes
<1>2. Memory.env = env
  BY DEF Memory
<1>3. Shaped(m) /\ Distinct(m) /\ FrameOf(m) = FrameOf(Memory) /\ StoreOf(m) = kept
  <2>1. CASE argument = TheIndex
    BY <1>2, <2>1, IndexSet DEF Valid
  <2>2. CASE argument # TheIndex
    <3> DEFINE x == Resolved(env, argument)
               l == WithField(Memory, x, b)
               v == ValueIn(StoreOf(Memory), FrameOf(Memory), x)
    <3>1. argument \in HeaderLValues /\ argument.var # "p"
      BY <2>2
    <3>2. argument \in AnyLValue /\ Named(Memory, argument)
      BY <3>1, Visibles, StorageAssumption DEF Visible, AnyLValue
    <3>3. x.var = argument.var /\ AsValues!Resolve(argument) = x
      BY <1>2, <3>2, Denotes, ResolvesAlike DEF Valid
    <3>4. Named(Memory, x) /\ v = AsValues!Get(argument)
      <4>1. AsValues!Get(argument) = ValueIn(StoreOf(Memory), FrameOf(Memory), argument)
        BY DEF AsValues!Get, ValueIn
      <4> QED BY <1>2, <3>2, <4>1, ResolvedValue DEF Valid
    <3> HIDE DEF x
    <3>5. Shaped(l) /\ Distinct(l) /\ Written(Memory, l, x, [v EXCEPT !.f = b])
      BY <3>4, FieldValue DEF Valid
    <3>6. m = l
      BY <2>2 DEF x
    <3> HIDE DEF l, v
    <3>7. FrameOf(l) = FrameOf(Memory)
          /\ StoreOf(l) = AsValues!Stored(StoreOf(Memory), x, [v EXCEPT !.f = b])
      BY <3>1, <3>3, <3>5 DEF Written
    <3> QED BY <2>2, <3>3, <3>4, <3>5, <3>6, <3>7
  <2> QED BY <2>1, <2>2
<1> HIDE DEF m, kept
<1>4. /\ Valid' /\ FrameOf(Memory)' = FrameOf(Memory)
      /\ StoreOf(Memory)' = ResultStored(kept, AsValues!Resolve(target), r)
  BY <1>1, <1>3, ResultStep
<1>5. AsValues!TheIndex = TheIndex
  BY DEF AsValues!TheIndex, AsValues!NoIndex, TheIndex, NoSelector
<1>6. AsValues!CallExtern(argument, b, k, target, r)
  BY <1>1, <1>4, <1>5 DEF AsValues!CallExtern, AsValues!StackVars, StackVars, ResultStored, kept
<1>7. argument.var # "p"
  BY DEF TheIndex
<1> QED BY <1>1, <1>4, <1>6, <1>7, ExecuteOne DEF Correct
-----------------------------------------------------------------------------
(* Statements on stacks.                                                       *)

LEMMA OldElements ==
  ASSUME NEW m, Shaped(m), Distinct(m), NEW x \in StackVars
  PROVE  LET old == m.heap[m.env[x]].elems IN
         /\ \A j \in 1 .. Elements :
              /\ old[j] \in DOMAIN m.heap /\ m.heap[old[j]] \in HeaderObjects
              /\ \A y \in Places(m) : RefIn(m, y) = old[j] => y.var = x
         /\ \A i, j \in 1 .. Elements : old[i] = old[j] => i = j
<1> DEFINE old == m.heap[m.env[x]].elems
<1>1. \A j \in 1 .. Elements : PlaceAt(x, j - 1) \in Places(m) /\ RefIn(m, PlaceAt(x, j - 1)) = old[j]
  <2> TAKE j \in 1 .. Elements
  <2>1. j - 1 \in 0 .. Elements - 1 /\ (j - 1) + 1 = j
    BY StorageAssumption
  <2> QED BY <2>1, PlaceCases, PlaceRefs DEF PlaceAt
<1> HIDE DEF old
<1>2. \A j \in 1 .. Elements :
        /\ old[j] \in DOMAIN m.heap /\ m.heap[old[j]] \in HeaderObjects
        /\ \A y \in Places(m) : RefIn(m, y) = old[j] => y = PlaceAt(x, j - 1)
  BY <1>1 DEF Distinct
<1>3. \A i, j \in 1 .. Elements : old[i] = old[j] => i = j
  <2> TAKE i, j \in 1 .. Elements
  <2> HAVE old[i] = old[j]
  <2>1. PlaceAt(x, i - 1) = PlaceAt(x, j - 1)
    BY <1>1 DEF Distinct
  <2> QED BY <2>1 DEF PlaceAt
<1> QED BY <1>2, <1>3 DEF PlaceAt, old

LEMMA StackStep ==
  ASSUME Valid, NEW x \in StackVars, NEW l, NEW r, OneStack(Memory, l, x, r), Become(l),
         NEW v, StackIn(l.heap, r) = v
  PROVE  /\ Valid' /\ FrameOf(Memory)' = FrameOf(Memory)
         /\ StoreOf(Memory)' = [StoreOf(Memory) EXCEPT ![x] = v]
<1>1. Shaped(l) /\ Distinct(l) /\ StackDiffers(Memory, l, x, r)
  BY StackReplaced DEF Valid
<1>2. Valid' /\ StoreOf(Memory)' = StoreOf(l) /\ FrameOf(Memory)' = FrameOf(l)
  BY <1>1, Happens
<1> QED BY <1>1, <1>2 DEF StackDiffers

LEMMA StackValue ==
  ASSUME NEW m, NEW x \in StackVars
  PROVE  StoreOf(m)[x] = StackIn(m.heap, m.env[x])
BY DEF StoreOf, StackVars

(* A stack object changed where it is, some of its elements new.               *)
Holds(hp, o) == [elems |-> [k \in 0 .. Elements - 1 |-> HeaderIn(hp, o.elems[k + 1])], next |-> o.next]

MayHold(m, x, hp, o) ==
  /\ Grown(m.heap, hp) /\ o \in Stacks(DOMAIN hp)
  /\ \A k \in 1 .. Elements :
       \/ o.elems[k] \notin DOMAIN m.heap /\ hp[o.elems[k]] \in HeaderObjects
       \/ \E j \in 1 .. Elements : o.elems[k] = m.heap[m.env[x]].elems[j]
  /\ \A j, k \in 1 .. Elements : o.elems[j] = o.elems[k] => j = k

Refilled(m, x, hp, o) == WithHeap(m, [hp EXCEPT ![m.env[x]] = o])

LEMMA InPlace ==
  ASSUME NEW m, Shaped(m), Distinct(m), NEW x \in StackVars, NEW hp, NEW o, MayHold(m, x, hp, o),
         NEW l, l = Refilled(m, x, hp, o)
  PROVE  OneStack(m, l, x, m.env[x]) /\ StackIn(l.heap, m.env[x]) = Holds(hp, o)
<1> DEFINE r == m.env[x]
           np == [hp EXCEPT ![r] = o]
           D == DOMAIN m.heap
<1>13. Grown(m.heap, hp) /\ o \in Stacks(DOMAIN hp)
  BY DEF MayHold
<1>14. \A k \in 1 .. Elements :
           \/ o.elems[k] \notin D /\ hp[o.elems[k]] \in HeaderObjects
           \/ \E j \in 1 .. Elements : o.elems[k] = m.heap[m.env[x]].elems[j]
  BY DEF MayHold
<1>15. \A j, k \in 1 .. Elements : o.elems[j] = o.elems[k] => j = k
  BY DEF MayHold
<1>1. HeapOK(hp) /\ D \subseteq DOMAIN hp /\ \A n \in D : hp[n] = m.heap[n]
  BY <1>13 DEF Grown
<1>2. r \in D /\ m.heap[r].is = "stack"
  BY ShapeFacts
<1>3. HeapOK(np) /\ DOMAIN np = DOMAIN hp /\ np[r] = o /\ \A n \in DOMAIN hp \ {r} : np[n] = hp[n]
  BY <1>1, <1>2, HeapUpdate
<1>4. m.env = [m.env EXCEPT ![x] = r]
  BY DEF Shaped, Envs, StackVars
<1> HIDE DEF r, np
<1>5. l = [heap |-> np, env |-> m.env, frame |-> m.frame] /\ l.heap = np /\ l.env = m.env /\ l.frame = m.frame
  BY DEF Refilled, WithHeap, np, r
<1> DEFINE old == m.heap[m.env[x]].elems
<1>6. /\ \A j \in 1 .. Elements :
           /\ old[j] \in D /\ m.heap[old[j]] \in HeaderObjects
           /\ \A y \in Places(m) : RefIn(m, y) = old[j] => y.var = x
  BY OldElements
<1>7. \A y \in Places(m) : RefIn(m, y) \in D
  BY DEF Distinct
<1>8. \A k \in 1 .. Elements :
        /\ o.elems[k] \in DOMAIN hp /\ o.elems[k] # r /\ hp[o.elems[k]] \in HeaderObjects
        /\ \A y \in Places(m) : RefIn(m, y) = o.elems[k] => y.var = x
  <2> TAKE k \in 1 .. Elements
  <2>1. CASE o.elems[k] \notin D /\ hp[o.elems[k]] \in HeaderObjects
    <3>1. o.elems[k] \in DOMAIN hp
      BY <1>13 DEF Stacks
    <3> QED BY <1>2, <1>7, <2>1, <3>1
  <2>2. ASSUME NEW j \in 1 .. Elements, o.elems[k] = old[j]
        PROVE  /\ o.elems[k] \in DOMAIN hp /\ o.elems[k] # r /\ hp[o.elems[k]] \in HeaderObjects
               /\ \A y \in Places(m) : RefIn(m, y) = o.elems[k] => y.var = x
    <3>1. m.heap[r] \notin HeaderObjects
      BY <1>2, HeaderShape
    <3> HIDE DEF old
    <3> QED BY <1>1, <1>6, <2>2, <3>1
  <2> HIDE DEF old
  <2> QED BY <1>14, <2>1, <2>2 DEF old
<1>9. \A k \in 1 .. Elements : np[o.elems[k]] = hp[o.elems[k]]
  BY <1>3, <1>8
<1>10. OneStack(m, l, x, r)
  <2>1. l.heap[r] = o /\ l.heap = np /\ DOMAIN l.heap = DOMAIN hp /\ HeapOK(l.heap)
    BY <1>3, <1>5
  <2>2. l = [heap |-> l.heap, env |-> l.env, frame |-> l.frame] /\ l.frame = m.frame
        /\ l.env = [m.env EXCEPT ![x] = r]
    BY <1>4, <1>5
  <2>3. \A n \in D \ {m.env[x]} : l.heap[n] = m.heap[n]
    BY <1>1, <1>3, <2>1 DEF r
  <2>4. \A k \in 1 .. Elements :
          /\ l.heap[l.heap[r].elems[k]] \in HeaderObjects
          /\ \A y \in Places(m) : RefIn(m, y) = l.heap[r].elems[k] => y.var = x
    BY <1>8, <1>9, <2>1
  <2>5. \A j, k \in 1 .. Elements : l.heap[r].elems[j] = l.heap[r].elems[k] => j = k
    BY <1>15, <2>1
  <2>6. D \subseteq DOMAIN l.heap /\ r \in DOMAIN l.heap /\ r = m.env[x] /\ l.heap[r] \in Stacks(DOMAIN l.heap)
    BY <1>1, <1>2, <1>13, <2>1 DEF r
  <2> HIDE DEF D
  <2> QED BY <2>2, <2>3, <2>4, <2>5, <2>6, <2>1 DEF OneStack, D
<1>11. \A k \in 0 .. Elements - 1 : HeaderIn(np, np[r].elems[k + 1]) = HeaderIn(hp, o.elems[k + 1])
  <2> TAKE k \in 0 .. Elements - 1
  <2>1. k + 1 \in 1 .. Elements
    BY StorageAssumption
  <2> QED BY <1>3, <1>9, <2>1 DEF HeaderIn
<1>12. StackIn(l.heap, r) = Holds(hp, o)
  BY <1>3, <1>5, <1>11 DEF StackIn, Holds
<1> QED BY <1>10, <1>12 DEF r

LEMMA ExtractElementStep ==
  ASSUME Valid, NEW x \in StackVars, NEW b \in Bit, ExtractElement(x, b)
  PROVE  Correct
<1> DEFINE new == Place(heap, Filled(b))
           old == heap[env[x]]
           o == [is |-> "stack", elems |-> [old.elems EXCEPT ![old.next + 1] = new.ref], next |-> old.next + 1]
           l == WithHeap(Memory, [new.heap EXCEPT ![env[x]] = o])
           D == DOMAIN heap
<1>1. ~InAction /\ old.next < Elements /\ Become(l) /\ stmt' = <<"next", x, b, 0, 0, 0>>
  BY DEF ExtractElement, Executing, Executes
<1>2. Memory.heap = heap /\ Memory.env = env /\ Memory.frame = frame
  BY DEF Memory
<1>3. HeapOK(heap)
  BY <1>2 DEF Valid, Shaped
<1>4. Grown(heap, new.heap) /\ new.ref \in DOMAIN new.heap /\ new.ref \notin D /\ new.heap[new.ref] = Filled(b)
  BY <1>3, PlaceGrows
<1>5. old.elems \in [1 .. Elements -> D] /\ old.next \in 0 .. Elements
  BY <1>2, ShapeFacts DEF Valid
<1> DEFINE z == old.next
           es == [old.elems EXCEPT ![z + 1] = new.ref]
<1>6. z \in 0 .. Elements - 1 /\ z + 1 \in 1 .. Elements /\ z + 1 \in 0 .. Elements
  BY <1>1, <1>5, StorageAssumption
<1> HIDE DEF new, old
<1>7. es \in [1 .. Elements -> DOMAIN new.heap]
      /\ \A k \in 1 .. Elements : es[k] = IF k = z + 1 THEN new.ref ELSE old.elems[k]
  BY <1>4, <1>5, <1>6 DEF Grown
<1>8. o = [is |-> "stack", elems |-> es, next |-> z + 1] /\ o.elems = es /\ o.next = z + 1
  OBVIOUS
<1>9. o \in Stacks(DOMAIN new.heap)
  <2> HIDE DEF es, z, o
  <2> QED BY <1>6, <1>7, <1>8 DEF Stacks
<1>10. /\ \A j \in 1 .. Elements : old.elems[j] \in D
       /\ \A i, j \in 1 .. Elements : old.elems[i] = old.elems[j] => i = j
  BY <1>2, OldElements DEF Valid, old
<1> HIDE DEF es, z, o
<1>11. \A k \in 1 .. Elements :
           \/ o.elems[k] \notin D /\ new.heap[o.elems[k]] \in HeaderObjects
           \/ \E j \in 1 .. Elements : o.elems[k] = heap[env[x]].elems[j]
  BY <1>4, <1>7, <1>8, FilledShape DEF old
<1>12. \A j, k \in 1 .. Elements : o.elems[j] = o.elems[k] => j = k
  BY <1>4, <1>7, <1>8, <1>10
<1> DEFINE v == Holds(new.heap, o)
<1>13. OneStack(Memory, l, x, env[x]) /\ StackIn(l.heap, env[x]) = v
  <2>1. MayHold(Memory, x, new.heap, o)
    BY <1>2, <1>4, <1>9, <1>11, <1>12 DEF MayHold
  <2>2. l = Refilled(Memory, x, new.heap, o)
    BY <1>2 DEF Refilled
  <2> HIDE DEF l
  <2>3. OneStack(Memory, l, x, Memory.env[x]) /\ StackIn(l.heap, Memory.env[x]) = Holds(new.heap, o)
    BY <2>1, <2>2, InPlace DEF Valid
  <2> QED BY <1>2, <2>3
<1> DEFINE st == StoreOf(Memory)
<1>14. st[x] = [elems |-> [k \in 0 .. Elements - 1 |-> HeaderIn(heap, old.elems[k + 1])], next |-> z]
  BY <1>2, StackValue DEF StackIn, old, z
<1>15. v = [elems |-> [st[x].elems EXCEPT ![z] = [valid |-> TRUE, f |-> b]], next |-> st[x].next + 1]
  <2> DEFINE F == [k \in 0 .. Elements - 1 |-> HeaderIn(heap, old.elems[k + 1])]
             c == [valid |-> TRUE, f |-> b]
  <2>1. \A k \in 0 .. Elements - 1 : HeaderIn(new.heap, o.elems[k + 1]) = IF k = z THEN c ELSE F[k]
    <3> TAKE k \in 0 .. Elements - 1
    <3>1. k + 1 \in 1 .. Elements /\ (k + 1 = z + 1 <=> k = z)
      BY <1>6, StorageAssumption
    <3>2. CASE k = z
      <4>1. HeaderIn(new.heap, o.elems[k + 1]) = HeaderOf(Filled(b))
        BY <1>4, <1>7, <1>8, <3>1, <3>2 DEF HeaderIn, HeaderOf
      <4> QED BY <3>2, <4>1, FilledShape
    <3>3. CASE k # z
      <4>1. o.elems[k + 1] = old.elems[k + 1] /\ old.elems[k + 1] \in D
        BY <1>7, <1>8, <1>10, <3>1, <3>3
      <4>2. HeaderIn(new.heap, o.elems[k + 1]) = HeaderIn(heap, old.elems[k + 1])
        BY <1>4, <4>1 DEF HeaderIn, Grown
      <4> QED BY <3>3, <4>2
    <3> QED BY <3>2, <3>3
  <2>2. st[x].elems = F /\ st[x].next = z /\ o.next = z + 1
    BY <1>8, <1>14
  <2> HIDE DEF c
  <2>3. [k \in 0 .. Elements - 1 |-> HeaderIn(new.heap, o.elems[k + 1])] = [F EXCEPT ![z] = c]
    BY <2>1
  <2> HIDE DEF F, st
  <2> QED BY <2>2, <2>3 DEF c, Holds
<1> HIDE DEF l, v
<1>16. /\ Valid' /\ FrameOf(Memory)' = FrameOf(Memory)
       /\ StoreOf(Memory)' = [st EXCEPT ![x] = v]
  BY <1>1, <1>13, StackStep
<1>17. ~AsValues!InAction
  BY <1>1, <1>2, Frames DEF InAction, AsValues!InAction
<1>18. st[x].next = z /\ z < Elements
  BY <1>6, <1>14, StorageAssumption
<1>19. st = [h |-> st.h, s |-> st.s, i |-> st.i, t |-> st.t, u |-> st.u]
  BY DEF StoreOf
<1> HIDE DEF st
<1>20. [st EXCEPT ![x] = [elems |-> [@.elems EXCEPT ![st[x].next] = [valid |-> TRUE, f |-> b]],
                           next |-> @.next + 1]]
       = [st EXCEPT ![x] = v]
  BY <1>15, <1>18, <1>19
<1>21. AsValues!ExtractNext(x, b)
  BY <1>16, <1>17, <1>18, <1>20 DEF AsValues!ExtractNext, st
<1> QED BY <1>1, <1>16, <1>21, ExecuteOne DEF Correct
(* Fresh zero headers.                                                         *)
LEMMA ListLength ==
  ASSUME NEW n \in Nat, NEW list, list = [i \in 1 .. n |-> list[i]]
  PROVE  Len(list) = n
<1> DEFINE S == {list[i] : i \in 1 .. n}
<1>1. list \in [1 .. n -> S]
  OBVIOUS
<1> HIDE DEF S
<1>2. list \in Seq(S)
  BY <1>1, SeqDef
<1>3. Len(list) \in Nat /\ DOMAIN list = 1 .. Len(list)
  BY <1>2, LenProperties
<1>4. 1 .. n = 1 .. Len(list)
  BY <1>1, <1>3
<1> QED BY <1>3, <1>4

LEMMA FreshHeaders ==
  ASSUME HeapOK(heap), NEW k \in 0 .. Elements
  PROVE  /\ Grown(heap, Fresh(k).heap)
         /\ \A i \in 1 .. k : /\ Fresh(k).refs[i] \in DOMAIN Fresh(k).heap /\ Fresh(k).refs[i] \notin DOMAIN heap
                              /\ Fresh(k).heap[Fresh(k).refs[i]] = ZeroObject
         /\ \A i, j \in 1 .. k : Fresh(k).refs[i] = Fresh(k).refs[j] => i = j
<1> DEFINE list == [j \in 1 .. k |-> ZeroObject]
           new == PlaceAll(heap, list)
<1>1. k \in Nat
  BY StorageAssumption
<1>2. list = [i \in 1 .. k |-> list[i]] /\ \A i \in 1 .. k : list[i] = ZeroObject
  OBVIOUS
<1>3. Fresh(k) = new
  BY DEF Fresh
<1> HIDE DEF list
<1>4. Added(heap, new, k, list)
  BY <1>1, <1>2, ListLength, AllPlaced
<1> HIDE DEF new
<1> QED BY <1>2, <1>3, <1>4 DEF Added, FreshFor, Grown

LEMMA ShiftStep ==
  ASSUME Valid, NEW x \in StackVars, NEW hp, NEW o, MayHold(Memory, x, hp, o),
         Become(WithHeap(Memory, [hp EXCEPT ![env[x]] = o])), NEW by,
         Holds(hp, o) = AsValues!Shifted(StoreOf(Memory)[x], by)
  PROVE  Valid' /\ AsValues!Shift(x, by)
<1> DEFINE l == WithHeap(Memory, [hp EXCEPT ![env[x]] = o])
<1>1. Memory.env = env
  BY DEF Memory
<1>2. Become(l)
  OBVIOUS
<1>6. l = Refilled(Memory, x, hp, o)
  BY <1>1 DEF Refilled
<1>7. Shaped(Memory) /\ Distinct(Memory)
  BY DEF Valid
<1> HIDE DEF l
<1>3. OneStack(Memory, l, x, Memory.env[x]) /\ StackIn(l.heap, Memory.env[x]) = Holds(hp, o)
  BY <1>6, <1>7, InPlace
<1>4. /\ Valid' /\ FrameOf(Memory)' = FrameOf(Memory)
      /\ StoreOf(Memory)' = [StoreOf(Memory) EXCEPT ![x] = Holds(hp, o)]
  BY <1>2, <1>3, StackStep
<1> DEFINE st == StoreOf(Memory)
<1> HIDE DEF st
<1>5. [st EXCEPT ![x] = AsValues!Shifted(@, by)] = [st EXCEPT ![x] = AsValues!Shifted(st[x], by)]
  OBVIOUS
<1> QED BY <1>4, <1>5 DEF AsValues!Shift, st

LEMMA PushStep ==
  ASSUME Valid, NEW x \in StackVars, NEW n \in 1 .. Elements + 1, PushElements(x, n)
  PROVE  Correct
<1> DEFINE k == Smaller(n, Elements)
           old == heap[env[x]]
           fresh == Fresh(k)
           z == old.next
           es == [j \in 1 .. Elements |-> IF j <= k THEN fresh.refs[j] ELSE old.elems[j - k]]
           t == Smaller(z + k, Elements)
           o == [is |-> "stack", elems |-> es, next |-> t]
           D == DOMAIN heap
<1>1. Become(WithHeap(Memory, [fresh.heap EXCEPT ![env[x]] = o])) /\ stmt' = <<"push", x, n, 0, 0, 0>>
  BY DEF PushElements, Executing, Executes
<1>2. Memory.heap = heap /\ Memory.env = env
  BY DEF Memory
<1>3. HeapOK(heap)
  BY <1>2 DEF Valid, Shaped
<1>4. k \in 0 .. Elements /\ k <= n /\ (k < Elements => k = n) /\ Elements \in Nat /\ n \in Nat /\ k \in Nat
  BY StorageAssumption DEF Smaller
<1>5. old.elems \in [1 .. Elements -> D] /\ z \in 0 .. Elements
  BY <1>2, ShapeFacts DEF Valid
<1>6. t \in 0 .. Elements /\ t = IF z + n < 0 THEN 0 ELSE IF z + n > Elements THEN Elements ELSE z + n
  BY <1>4, <1>5 DEF Smaller
<1>7. /\ Grown(heap, fresh.heap)
      /\ \A i \in 1 .. k : /\ fresh.refs[i] \in DOMAIN fresh.heap /\ fresh.refs[i] \notin D
                           /\ fresh.heap[fresh.refs[i]] = ZeroObject
      /\ \A i, j \in 1 .. k : fresh.refs[i] = fresh.refs[j] => i = j
  <2> HIDE DEF k
  <2> QED BY <1>3, <1>4, FreshHeaders
<1>8. /\ \A j \in 1 .. Elements : old.elems[j] \in D
      /\ \A i, j \in 1 .. Elements : old.elems[i] = old.elems[j] => i = j
  BY <1>2, OldElements DEF Valid
<1> HIDE DEF k, old, fresh, z, t
<1>9. \A j \in 1 .. Elements :
        /\ j <= k => j \in 1 .. k /\ es[j] = fresh.refs[j]
        /\ j > k => j - k \in 1 .. Elements /\ es[j] = old.elems[j - k]
  BY <1>4
<1>10. o.elems = es /\ o.next = t
  OBVIOUS
<1>11. o \in Stacks(DOMAIN fresh.heap)
  <2>1. \A j \in 1 .. Elements : es[j] \in DOMAIN fresh.heap
    BY <1>4, <1>7, <1>8, <1>9 DEF Grown
  <2>2. es \in [1 .. Elements -> DOMAIN fresh.heap]
    BY <2>1
  <2> HIDE DEF es
  <2> QED BY <1>6, <2>2 DEF Stacks
<1> HIDE DEF es, o
<1>12. \A j \in 1 .. Elements :
         \/ o.elems[j] \notin D /\ fresh.heap[o.elems[j]] \in HeaderObjects
         \/ \E i \in 1 .. Elements : o.elems[j] = heap[env[x]].elems[i]
  <2> TAKE j \in 1 .. Elements
  <2>1. CASE j <= k
    BY <1>7, <1>9, <1>10, <2>1, ZeroShape
  <2>2. CASE j > k
    BY <1>9, <1>10, <2>2 DEF old
  <2> QED BY <1>4, <2>1, <2>2
<1>13. \A i, j \in 1 .. Elements : o.elems[i] = o.elems[j] => i = j
  <2> TAKE i, j \in 1 .. Elements
  <2> HAVE o.elems[i] = o.elems[j]
  <2>1. CASE i <= k /\ j <= k
    BY <1>7, <1>9, <1>10, <2>1
  <2>2. CASE i > k /\ j > k
    <3>1. i - k = j - k
      BY <1>8, <1>9, <1>10, <2>2
    <3> QED BY <1>4, <3>1
  <2>3. CASE (i <= k /\ j > k) \/ (i > k /\ j <= k)
    BY <1>7, <1>8, <1>9, <1>10, <2>3
  <2> QED BY <1>4, <2>1, <2>2, <2>3
<1>14. MayHold(Memory, x, fresh.heap, o)
  BY <1>2, <1>7, <1>11, <1>12, <1>13 DEF MayHold
<1> DEFINE st == StoreOf(Memory)
<1>15. st[x] = [elems |-> [j \in 0 .. Elements - 1 |-> HeaderIn(heap, old.elems[j + 1])], next |-> z]
  BY <1>2, StackValue DEF StackIn, old, z
<1>16. \A j \in 0 .. Elements - 1 :
         HeaderIn(fresh.heap, o.elems[j + 1])
         = IF j - n \in 0 .. Elements - 1 THEN st[x].elems[j - n] ELSE AsValues!ZeroHeader
  <2> TAKE j \in 0 .. Elements - 1
  <2>1. j + 1 \in 1 .. Elements
    BY <1>4
  <2>2. CASE j + 1 <= k
    <3>1. j - n \notin 0 .. Elements - 1
      BY <1>4, <2>2
    <3>2. fresh.heap[o.elems[j + 1]] = ZeroObject
      BY <1>7, <1>9, <1>10, <2>1, <2>2
    <3> QED BY <3>1, <3>2, ZeroShape DEF HeaderIn, HeaderOf
  <2>3. CASE j + 1 > k
    <3>1. k = n /\ j - n \in 0 .. Elements - 1 /\ (j + 1) - k = (j - n) + 1
      BY <1>4, <2>3
    <3>2. o.elems[j + 1] = old.elems[(j - n) + 1] /\ old.elems[(j - n) + 1] \in D
      BY <1>8, <1>9, <1>10, <2>1, <2>3, <3>1
    <3>3. HeaderIn(fresh.heap, o.elems[j + 1]) = HeaderIn(heap, old.elems[(j - n) + 1])
      BY <1>7, <3>2 DEF HeaderIn, Grown
    <3>4. st[x].elems[j - n] = HeaderIn(heap, old.elems[(j - n) + 1])
      BY <1>15, <3>1
    <3> QED BY <3>1, <3>3, <3>4
  <2> QED BY <1>4, <2>2, <2>3
<1>17. st[x].next = z
  BY <1>15
<1>18. Holds(fresh.heap, o) = AsValues!Shifted(st[x], n)
  <2> HIDE DEF st
  <2> QED BY <1>6, <1>10, <1>16, <1>17 DEF Holds, AsValues!Shifted
<1>19. Valid' /\ AsValues!Shift(x, n)
  BY <1>1, <1>14, <1>18, ShiftStep
<1> QED BY <1>1, <1>19, ExecuteOne DEF Correct

LEMMA PopStep ==
  ASSUME Valid, NEW x \in StackVars, NEW n \in 1 .. Elements + 1, PopElements(x, n)
  PROVE  Correct
<1> DEFINE k == Smaller(n, Elements)
           old == heap[env[x]]
           fresh == Fresh(k)
           z == old.next
           es == [j \in 1 .. Elements |-> IF j + k <= Elements THEN old.elems[j + k] ELSE fresh.refs[j + k - Elements]]
           t == IF z < k THEN 0 ELSE z - k
           o == [is |-> "stack", elems |-> es, next |-> t]
           D == DOMAIN heap
<1>1. Become(WithHeap(Memory, [fresh.heap EXCEPT ![env[x]] = o])) /\ stmt' = <<"pop", x, n, 0, 0, 0>>
  BY DEF PopElements, Executing, Executes
<1>2. Memory.heap = heap /\ Memory.env = env
  BY DEF Memory
<1>3. HeapOK(heap)
  BY <1>2 DEF Valid, Shaped
<1>4. k \in 0 .. Elements /\ k <= n /\ (k < Elements => k = n) /\ Elements \in Nat /\ n \in Nat /\ k \in Nat
  BY StorageAssumption DEF Smaller
<1>5. old.elems \in [1 .. Elements -> D] /\ z \in 0 .. Elements
  BY <1>2, ShapeFacts DEF Valid
<1>6. t \in 0 .. Elements /\ t = IF z + (-n) < 0 THEN 0 ELSE IF z + (-n) > Elements THEN Elements ELSE z + (-n)
  BY <1>4, <1>5 DEF Smaller
<1>7. /\ Grown(heap, fresh.heap)
      /\ \A i \in 1 .. k : /\ fresh.refs[i] \in DOMAIN fresh.heap /\ fresh.refs[i] \notin D
                           /\ fresh.heap[fresh.refs[i]] = ZeroObject
      /\ \A i, j \in 1 .. k : fresh.refs[i] = fresh.refs[j] => i = j
  <2> HIDE DEF k
  <2> QED BY <1>3, <1>4, FreshHeaders
<1>8. /\ \A j \in 1 .. Elements : old.elems[j] \in D
      /\ \A i, j \in 1 .. Elements : old.elems[i] = old.elems[j] => i = j
  BY <1>2, OldElements DEF Valid
<1> HIDE DEF k, old, fresh, z, t
<1>9. \A j \in 1 .. Elements :
        /\ j + k > Elements => j + k - Elements \in 1 .. k /\ es[j] = fresh.refs[j + k - Elements]
        /\ j + k <= Elements => j + k \in 1 .. Elements /\ es[j] = old.elems[j + k]
  BY <1>4
<1>10. o.elems = es /\ o.next = t
  OBVIOUS
<1>11. o \in Stacks(DOMAIN fresh.heap)
  <2>1. \A j \in 1 .. Elements : es[j] \in DOMAIN fresh.heap
    BY <1>4, <1>7, <1>8, <1>9 DEF Grown
  <2>2. es \in [1 .. Elements -> DOMAIN fresh.heap]
    BY <2>1
  <2> HIDE DEF es
  <2> QED BY <1>6, <2>2 DEF Stacks
<1> HIDE DEF es, o
<1>12. \A j \in 1 .. Elements :
         \/ o.elems[j] \notin D /\ fresh.heap[o.elems[j]] \in HeaderObjects
         \/ \E i \in 1 .. Elements : o.elems[j] = heap[env[x]].elems[i]
  <2> TAKE j \in 1 .. Elements
  <2>1. CASE j + k > Elements
    BY <1>7, <1>9, <1>10, <2>1, ZeroShape
  <2>2. CASE j + k <= Elements
    BY <1>9, <1>10, <2>2 DEF old
  <2> QED BY <1>4, <2>1, <2>2
<1>13. \A i, j \in 1 .. Elements : o.elems[i] = o.elems[j] => i = j
  <2> TAKE i, j \in 1 .. Elements
  <2> HAVE o.elems[i] = o.elems[j]
  <2>1. CASE i + k > Elements /\ j + k > Elements
    <3>1. i + k - Elements = j + k - Elements
      BY <1>7, <1>9, <1>10, <2>1
    <3> QED BY <1>4, <3>1
  <2>2. CASE i + k <= Elements /\ j + k <= Elements
    <3>1. i + k = j + k
      BY <1>8, <1>9, <1>10, <2>2
    <3> QED BY <1>4, <3>1
  <2>3. CASE (i + k > Elements /\ j + k <= Elements) \/ (i + k <= Elements /\ j + k > Elements)
    BY <1>7, <1>8, <1>9, <1>10, <2>3
  <2> QED BY <1>4, <2>1, <2>2, <2>3
<1>14. MayHold(Memory, x, fresh.heap, o)
  BY <1>2, <1>7, <1>11, <1>12, <1>13 DEF MayHold
<1> DEFINE st == StoreOf(Memory)
<1>15. st[x] = [elems |-> [j \in 0 .. Elements - 1 |-> HeaderIn(heap, old.elems[j + 1])], next |-> z]
  BY <1>2, StackValue DEF StackIn, old, z
<1>16. \A j \in 0 .. Elements - 1 :
         HeaderIn(fresh.heap, o.elems[j + 1])
         = IF j - (-n) \in 0 .. Elements - 1 THEN st[x].elems[j - (-n)] ELSE AsValues!ZeroHeader
  <2> TAKE j \in 0 .. Elements - 1
  <2>1. j + 1 \in 1 .. Elements
    BY <1>4
  <2>2. CASE j + 1 + k > Elements
    <3>1. j - (-n) \notin 0 .. Elements - 1
      BY <1>4, <2>2
    <3>2. fresh.heap[o.elems[j + 1]] = ZeroObject
      BY <1>7, <1>9, <1>10, <2>1, <2>2
    <3> QED BY <3>1, <3>2, ZeroShape DEF HeaderIn, HeaderOf
  <2>3. CASE j + 1 + k <= Elements
    <3>1. k = n /\ j + n \in 0 .. Elements - 1 /\ (j + 1) + k = (j + n) + 1 /\ j - (-n) = j + n
      BY <1>4, <2>3
    <3>2. o.elems[j + 1] = old.elems[(j + n) + 1] /\ old.elems[(j + n) + 1] \in D
      BY <1>8, <1>9, <1>10, <2>1, <2>3, <3>1
    <3>3. HeaderIn(fresh.heap, o.elems[j + 1]) = HeaderIn(heap, old.elems[(j + n) + 1])
      BY <1>7, <3>2 DEF HeaderIn, Grown
    <3>4. st[x].elems[j + n] = HeaderIn(heap, old.elems[(j + n) + 1])
      BY <1>15, <3>1
    <3> QED BY <3>1, <3>3, <3>4
  <2> QED BY <1>4, <2>2, <2>3
<1>17. st[x].next = z
  BY <1>15
<1>18. Holds(fresh.heap, o) = AsValues!Shifted(st[x], -n)
  <2> HIDE DEF st
  <2> QED BY <1>6, <1>10, <1>16, <1>17 DEF Holds, AsValues!Shifted
<1>19. Valid' /\ AsValues!Shift(x, -n)
  BY <1>1, <1>14, <1>18, ShiftStep
<1> QED BY <1>1, <1>19, ExecuteOne DEF Correct
(* A copied stack: new elements, then a new stack object.                      *)
CopiedStack(hp, old, new) ==
  LET o == new.heap[new.ref] IN
  /\ Grown(hp, new.heap) /\ new.ref \in DOMAIN new.heap /\ new.ref \notin DOMAIN hp
  /\ o \in Stacks(DOMAIN new.heap) /\ o.next = old.next
  /\ \A k \in 1 .. Elements : o.elems[k] \notin DOMAIN hp /\ new.heap[o.elems[k]] = hp[old.elems[k]]
  /\ \A j, k \in 1 .. Elements : o.elems[j] = o.elems[k] => j = k

LEMMA CopyOfStack ==
  ASSUME NEW m, Shaped(m), Distinct(m), NEW y \in StackVars
  PROVE  CopiedStack(m.heap, m.heap[m.env[y]], Copy(m.heap, m.heap[m.env[y]]))
<1> DEFINE hp == m.heap
           D == DOMAIN hp
           old == hp[m.env[y]]
           list == [k \in 1 .. Elements |-> hp[old.elems[k]]]
           elems == PlaceAll(hp, list)
           z == [old EXCEPT !.elems = elems.refs]
           new == Place(elems.heap, z)
<1>1. HeapOK(hp) /\ old \in Stacks(D) /\ Elements \in Nat
  BY StorageAssumption DEF Shaped
<1>2. Copy(hp, old) = new
  BY <1>1 DEF Copy, Stacks
<1> HIDE DEF old
<1>3. list = [i \in 1 .. Elements |-> list[i]] /\ \A k \in 1 .. Elements : list[k] = hp[old.elems[k]]
  OBVIOUS
<1> HIDE DEF list
<1>4. Added(hp, elems, Elements, list)
  BY <1>1, <1>3, ListLength, AllPlaced
<1> HIDE DEF elems
<1>5. /\ HeapOK(elems.heap) /\ DOMAIN elems.heap = D \cup {elems.refs[i] : i \in 1 .. Elements}
      /\ elems.refs \in [1 .. Elements -> Nat \ {0}]
      /\ \A x \in D : elems.heap[x] = hp[x]
      /\ \A i \in 1 .. Elements : elems.refs[i] \notin D /\ elems.heap[elems.refs[i]] = hp[old.elems[i]]
      /\ \A i, j \in 1 .. Elements : elems.refs[i] = elems.refs[j] => i = j
  BY <1>3, <1>4 DEF Added, FreshFor
<1>6. z = [is |-> "stack", elems |-> elems.refs, next |-> old.next]
      /\ z.elems = elems.refs /\ z.next = old.next /\ old.next \in 0 .. Elements
  BY <1>1 DEF Stacks
<1> HIDE DEF z
<1>7. /\ Grown(elems.heap, new.heap) /\ new.ref \in DOMAIN new.heap /\ new.ref \notin DOMAIN elems.heap
      /\ new.heap[new.ref] = z
  BY <1>5, PlaceGrows
<1> HIDE DEF new
<1>8. Grown(hp, new.heap) /\ new.ref \notin D
  BY <1>5, <1>7 DEF Grown
<1>9. \A i \in 1 .. Elements : elems.refs[i] \in DOMAIN elems.heap
  BY <1>5
<1>10. elems.refs \in [1 .. Elements -> DOMAIN new.heap]
  <2>1. \A i \in 1 .. Elements : elems.refs[i] \in DOMAIN new.heap
    BY <1>7, <1>9 DEF Grown
  <2> QED BY <1>5, <2>1
<1>11. z \in Stacks(DOMAIN new.heap)
  BY <1>6, <1>10 DEF Stacks
<1>12. \A k \in 1 .. Elements : new.heap[z.elems[k]] = hp[old.elems[k]] /\ z.elems[k] \notin D
  BY <1>5, <1>6, <1>7, <1>9 DEF Grown
<1>13. \A j, k \in 1 .. Elements : z.elems[j] = z.elems[k] => j = k
  BY <1>5, <1>6
<1>14. CopiedStack(hp, old, new)
  BY <1>6, <1>7, <1>8, <1>11, <1>12, <1>13 DEF CopiedStack
<1> QED BY <1>2, <1>14 DEF old

LEMMA AssignStackStep ==
  ASSUME Valid, NEW x \in StackVars, NEW y \in StackVars, AssignStack(x, y)
  PROVE  Correct
<1> DEFINE old == heap[env[y]]
           new == Copy(heap, old)
           o == new.heap[new.ref]
           D == DOMAIN heap
           e == [env EXCEPT ![x] = new.ref]
           l == WithEnv(WithHeap(Memory, new.heap), e)
           r == new.ref
<1>1. Become(l) /\ stmt' = <<"stack", x, y, 0, 0, 0>>
  BY DEF AssignStack, Executing, Executes
<1>2. Memory.heap = heap /\ Memory.env = env /\ Memory.frame = frame
  BY DEF Memory
<1>3. /\ Grown(heap, new.heap) /\ r \in DOMAIN new.heap /\ r \notin D
      /\ o \in Stacks(DOMAIN new.heap) /\ o.next = old.next
      /\ \A k \in 1 .. Elements : o.elems[k] \notin D /\ new.heap[o.elems[k]] = heap[old.elems[k]]
      /\ \A j, k \in 1 .. Elements : o.elems[j] = o.elems[k] => j = k
  <2>1. CopiedStack(heap, old, new)
    BY <1>2, CopyOfStack DEF Valid
  <2> QED BY <2>1 DEF CopiedStack
<1>4. \A j \in 1 .. Elements : old.elems[j] \in D /\ heap[old.elems[j]] \in HeaderObjects
  BY <1>2, OldElements DEF Valid
<1> HIDE DEF new, o, e, old
<1>5. l = [heap |-> new.heap, env |-> e, frame |-> frame] /\ l.heap = new.heap /\ l.env = e /\ l.frame = frame
  BY <1>2 DEF WithEnv, WithHeap
<1> HIDE DEF l, r
<1>6. \A z \in Places(Memory) : RefIn(Memory, z) \in D
  BY <1>2 DEF Valid, Distinct
<1>7. l.heap[r] = o /\ e = [env EXCEPT ![x] = r]
  BY <1>5 DEF o, e, r
<1>8. OneStack(Memory, l, x, r)
  <2>1. l = [heap |-> l.heap, env |-> l.env, frame |-> l.frame] /\ l.frame = Memory.frame
        /\ l.env = [Memory.env EXCEPT ![x] = r]
    BY <1>2, <1>5, <1>7
  <2>2. HeapOK(l.heap) /\ DOMAIN Memory.heap \subseteq DOMAIN l.heap
        /\ \A n \in DOMAIN Memory.heap \ {Memory.env[x]} : l.heap[n] = Memory.heap[n]
    BY <1>2, <1>3, <1>5 DEF Grown
  <2>3. r \in DOMAIN l.heap /\ r \notin DOMAIN Memory.heap /\ l.heap[r] \in Stacks(DOMAIN l.heap)
    BY <1>2, <1>3, <1>5, <1>7
  <2>4. \A k \in 1 .. Elements :
          /\ l.heap[l.heap[r].elems[k]] \in HeaderObjects
          /\ \A z \in Places(Memory) : RefIn(Memory, z) = l.heap[r].elems[k] => z.var = x
    BY <1>3, <1>4, <1>5, <1>6, <1>7
  <2>5. \A j, k \in 1 .. Elements : l.heap[r].elems[j] = l.heap[r].elems[k] => j = k
    BY <1>3, <1>7
  <2> QED BY <2>1, <2>2, <2>3, <2>4, <2>5 DEF OneStack
<1>9. StackIn(l.heap, r) = StackIn(heap, env[y])
  <2>1. \A k \in 0 .. Elements - 1 :
          HeaderIn(l.heap, l.heap[r].elems[k + 1]) = HeaderIn(heap, heap[env[y]].elems[k + 1])
    <3> TAKE k \in 0 .. Elements - 1
    <3>1. k + 1 \in 1 .. Elements
      BY StorageAssumption
    <3> QED BY <1>3, <1>5, <1>7, <3>1 DEF HeaderIn, old
  <2>2. l.heap[r].next = heap[env[y]].next
    BY <1>3, <1>7 DEF old
  <2> QED BY <2>1, <2>2 DEF StackIn
<1>10. StackIn(heap, env[y]) = StoreOf(Memory)[y]
  BY <1>2, StackValue
<1>11. /\ Valid' /\ FrameOf(Memory)' = FrameOf(Memory)
       /\ StoreOf(Memory)' = [StoreOf(Memory) EXCEPT ![x] = StoreOf(Memory)[y]]
  BY <1>1, <1>8, <1>9, <1>10, StackStep
<1>12. AsValues!AssignStack(x, y)
  BY <1>11 DEF AsValues!AssignStack
<1> QED BY <1>1, <1>11, <1>12, ExecuteOne DEF Correct
-----------------------------------------------------------------------------
(* The start, and every step.                                                  *)

LEMMA StartsValid ==
  ASSUME ObjectsInit
  PROVE  Valid /\ AsValues!Init
<1> DEFINE m == Memory
           N == 2 * Elements + 5
           tElems == [k \in 1 .. Elements |-> k + 2]
           uElems == [k \in 1 .. Elements |-> k + 2 + Elements]
           E == Elements
<1>1. /\ heap = [n \in 1 .. N |->
                  CASE n <= 2 * E + 2 -> ZeroObject
                    [] n = 2 * E + 3 -> [is |-> "struct", field |-> 2]
                    [] n = 2 * E + 4 -> [is |-> "stack", elems |-> tElems, next |-> 0]
                    [] OTHER -> [is |-> "stack", elems |-> uElems, next |-> 0]]
      /\ env = [h |-> 1, s |-> 2 * E + 3, t |-> 2 * E + 4, u |-> 2 * E + 5, i |-> 0]
      /\ frame = NoFrame /\ stmt = <<"return", 0, 0, 0, 0, 0>>
  BY DEF ObjectsInit
<1>2. E \in Nat
  BY StorageAssumption
<1>3. m.heap = heap /\ m.env = env /\ m.frame = frame /\ m = [heap |-> heap, env |-> env, frame |-> frame]
  BY DEF Memory
<1> HIDE DEF m, tElems, uElems, E
<1>4. DOMAIN heap = 1 .. N /\ heap = [n \in DOMAIN heap |-> heap[n]]
  BY <1>1
<1>5. HeapOK(heap)
  <2>1. N \in Int /\ 1 \in Int
    BY <1>2 DEF E
  <2> HIDE DEF N
  <2>2. IsFiniteSet(1 .. N)
    BY <2>1, FS_Interval
  <2> QED BY <1>4, <2>2 DEF HeapOK
<1>6. \A n \in 1 .. 2 * E + 2 : n \in DOMAIN heap /\ heap[n] = ZeroObject
  BY <1>1, <1>2 DEF E
<1>7. /\ 2 * E + 3 \in DOMAIN heap /\ heap[2 * E + 3] = [is |-> "struct", field |-> 2]
      /\ 2 * E + 4 \in DOMAIN heap /\ heap[2 * E + 4] = [is |-> "stack", elems |-> tElems, next |-> 0]
      /\ 2 * E + 5 \in DOMAIN heap /\ heap[2 * E + 5] = [is |-> "stack", elems |-> uElems, next |-> 0]
  BY <1>1, <1>2 DEF E
<1>8. \A k \in 1 .. Elements : tElems[k] = k + 2 /\ uElems[k] = k + 2 + E
  BY DEF tElems, uElems, E
<1>9. \A k \in 1 .. Elements : k + 2 \in 1 .. 2 * E + 2 /\ k + 2 + E \in 1 .. 2 * E + 2
  BY <1>2 DEF E
<1>10. /\ env.h = 1 /\ env.s = 2 * E + 3 /\ env.i = 0 /\ env.t = 2 * E + 4 /\ env.u = 2 * E + 5
       /\ env["t"] = env.t /\ env["u"] = env.u
  BY <1>1
<1>11. 1 \in 1 .. 2 * E + 2 /\ 2 \in 1 .. 2 * E + 2
  BY <1>2
<1>12. tElems \in [1 .. Elements -> DOMAIN heap] /\ uElems \in [1 .. Elements -> DOMAIN heap]
  <2>1. \A k \in 1 .. Elements : k + 2 \in DOMAIN heap /\ k + 2 + E \in DOMAIN heap
    BY <1>6, <1>9
  <2> QED BY <2>1 DEF tElems, uElems, E
<1>13. Shaped(m)
  <2>1. env \in Envs(DOMAIN heap)
    BY <1>1, <1>2, <1>6, <1>7, <1>11 DEF Envs, E
  <2>2. heap[env.s] \in Structs(DOMAIN heap)
    BY <1>6, <1>7, <1>10, <1>11 DEF Structs
  <2>3. heap[env.t] \in Stacks(DOMAIN heap) /\ heap[env.u] \in Stacks(DOMAIN heap)
    BY <1>2, <1>7, <1>10, <1>12 DEF Stacks, E
  <2>4. \A x \in StackVars : heap[env[x]] \in Stacks(DOMAIN heap)
    BY <1>10, <2>3 DEF StackVars
  <2> QED BY <1>1, <1>3, <1>5, <2>1, <2>2, <2>4 DEF Shaped
<1>14. \A x \in Places(m) :
         \/ x = PlaceH /\ RefIn(m, x) = 1
         \/ x = PlaceS /\ RefIn(m, x) = 2
         \/ \E k \in 0 .. Elements - 1 : x = PlaceAt("t", k) /\ RefIn(m, x) = k + 3
         \/ \E k \in 0 .. Elements - 1 : x = PlaceAt("u", k) /\ RefIn(m, x) = k + 3 + E
  <2> TAKE x \in Places(m)
  <2>1. m.frame.kind # "call"
    BY <1>1, <1>3 DEF NoFrame
  <2>2. CASE x = PlaceH
    BY <1>3, <1>10, <2>2, PlaceRefs DEF PlaceH
  <2>3. CASE x = PlaceS
    BY <1>3, <1>7, <1>10, <2>3, PlaceRefs DEF PlaceS
  <2>4. ASSUME NEW k \in 0 .. Elements - 1, x = PlaceAt("t", k)
        PROVE  RefIn(m, x) = k + 3
    <3>1. RefIn(m, x) = m.heap[m.env["t"]].elems[k + 1]
      BY <2>4, PlaceRefs DEF PlaceAt, StackVars
    <3>2. RefIn(m, x) = tElems[k + 1]
      BY <1>3, <1>7, <1>10, <3>1
    <3>3. k + 1 \in 1 .. Elements /\ (k + 1) + 2 = k + 3
      BY StorageAssumption
    <3> QED BY <1>8, <3>2, <3>3
  <2>5. ASSUME NEW k \in 0 .. Elements - 1, x = PlaceAt("u", k)
        PROVE  RefIn(m, x) = k + 3 + E
    <3>1. RefIn(m, x) = m.heap[m.env["u"]].elems[k + 1]
      BY <2>5, PlaceRefs DEF PlaceAt, StackVars
    <3>2. RefIn(m, x) = uElems[k + 1]
      BY <1>3, <1>7, <1>10, <3>1
    <3>3. k + 1 \in 1 .. Elements /\ (k + 1) + 2 + E = k + 3 + E
      BY <1>2, StorageAssumption
    <3> QED BY <1>8, <3>2, <3>3
  <2>6. \/ x = PlaceH \/ x = PlaceS \/ \E k \in 0 .. Elements - 1 : x = PlaceAt("t", k)
        \/ \E k \in 0 .. Elements - 1 : x = PlaceAt("u", k)
    BY <2>1, PlaceCases DEF PlaceH, PlaceS, PlaceAt, StackVars
  <2> QED BY <2>2, <2>3, <2>4, <2>5, <2>6
<1>15. \A x \in Places(m) : RefIn(m, x) \in 1 .. 2 * E + 2
  BY <1>2, <1>14 DEF E
<1>16. Distinct(m)
  <2>1. env.t # env.u
    BY <1>2, <1>10
  <2>2. \A x \in Places(m) : RefIn(m, x) \in DOMAIN heap /\ heap[RefIn(m, x)] \in HeaderObjects
    BY <1>6, <1>15, ZeroShape
  <2>3. \A x, y \in Places(m) : RefIn(m, x) = RefIn(m, y) => x = y
    BY <1>2, <1>14 DEF E
  <2> QED BY <1>3, <2>1, <2>2, <2>3 DEF Distinct
<1> DEFINE zero == AsValues!ZeroHeader
<1>17. \A n \in 1 .. 2 * E + 2 : HeaderIn(heap, n) = zero
  BY <1>6, ZeroShape DEF HeaderIn, HeaderOf
<1>18. StackIn(heap, env.t) = [elems |-> [k \in 0 .. Elements - 1 |-> zero], next |-> 0]
       /\ StackIn(heap, env.u) = [elems |-> [k \in 0 .. Elements - 1 |-> zero], next |-> 0]
  <2>1. \A k \in 0 .. Elements - 1 :
          HeaderIn(heap, heap[env.t].elems[k + 1]) = zero /\ HeaderIn(heap, heap[env.u].elems[k + 1]) = zero
    <3> TAKE k \in 0 .. Elements - 1
    <3>1. k + 1 \in 1 .. Elements
      BY StorageAssumption
    <3> QED BY <1>7, <1>8, <1>9, <1>10, <1>17, <3>1
  <2>2. heap[env.t].next = 0 /\ heap[env.u].next = 0
    BY <1>7, <1>10
  <2> HIDE DEF zero
  <2> QED BY <2>1, <2>2 DEF StackIn
<1>19. HeaderIn(heap, env.h) = zero /\ HeaderIn(heap, heap[env.s].field) = zero
  BY <1>7, <1>10, <1>11, <1>17
<1>20. StoreOf(m) = [h |-> zero, s |-> zero, i |-> 0,
                     t |-> [elems |-> [k \in 0 .. Elements - 1 |-> zero], next |-> 0],
                     u |-> [elems |-> [k \in 0 .. Elements - 1 |-> zero], next |-> 0]]
  <2> HIDE DEF zero
  <2> QED BY <1>3, <1>10, <1>18, <1>19 DEF StoreOf
<1>21. FrameOf(m) = NoFrame
  BY <1>1, <1>3 DEF FrameOf, NoFrame
<1>22. AsValues!Init
  BY <1>1, <1>20, <1>21 DEF AsValues!Init, AsValues!Op, AsValues!NoFrame, NoFrame, m
<1> QED BY <1>13, <1>16, <1>22 DEF Valid, m

LEMMA StepsCorrect ==
  ASSUME Valid, ObjectsNext
  PROVE  Correct
<1>1. ASSUME NEW lv \in HeaderLValues, NEW source \in HeaderLValues, Assign(lv, source)
      PROVE  Correct
  BY <1>1, AssignStep
<1>2. ASSUME NEW lv \in HeaderLValues, NEW b \in Bit, AssignField(lv, b) \/ Extract(lv, b) \/ Apply(lv, b)
      PROVE  Correct
  BY <1>2, AssignFieldStep, ExtractStep, ApplyStep
<1>3. ASSUME NEW x \in StackVars, NEW y \in StackVars, AssignStack(x, y)
      PROVE  Correct
  BY <1>3, AssignStackStep
<1>4. ASSUME NEW k \in 0 .. Elements, AssignVariable(k)
      PROVE  Correct
  BY <1>4, AssignVariableStep
<1>5. ASSUME NEW lv \in HeaderLValues, NEW b \in BOOLEAN, SetValid(lv, b)
      PROVE  Correct
  BY <1>5, SetValidStep
<1>6. ASSUME NEW x \in StackVars, NEW b \in Bit, ExtractElement(x, b)
      PROVE  Correct
  BY <1>6, ExtractElementStep
<1>7. ASSUME NEW x \in StackVars, NEW n \in 1 .. Elements + 1, PushElements(x, n) \/ PopElements(x, n)
      PROVE  Correct
  BY <1>7, PushStep, PopStep
<1>8. 0 \in Bit /\ 1 \in Bit /\ 0 \in 0 .. Elements /\ \A b \in {0, 1} : 1 - b \in {0, 1}
  BY StorageAssumption
<1>9. ASSUME NEW argument \in HeaderLValues, NEW target \in HeaderLValues, NEW b \in {0, 1},
             argument.var # "p", CallExtern(argument, b, 0, target, 1 - b)
      PROVE  Correct
  BY <1>8, <1>9, CallExternStep
<1>10. ASSUME NEW target \in HeaderLValues, NEW k \in 0 .. Elements, CallExtern(TheIndex, 0, k, target, 1)
       PROVE  Correct
  BY <1>8, <1>10, CallExternStep
<1>11. ASSUME NEW dir \in {"in", "out", "inout"}, NEW arg \in HeaderLValues, CallAction(dir, arg)
       PROVE  Correct
  BY <1>11, CallActionStep
<1>12. ASSUME ReturnCall \/ ReturnApply
       PROVE  Correct
  BY <1>12, ReturnCallStep, ReturnApplyStep
<1> QED BY <1>1, <1>2, <1>3, <1>4, <1>5, <1>6, <1>7, <1>9, <1>10, <1>11, <1>12 DEF ObjectsNext

(* Names refer to objects of the shapes the interpreter expects, and nothing   *)
(* refers to an object that is gone, whatever statements run (values.py,       *)
(* env.py).                                                                    *)
THEOREM ObjectsAreShaped == ObjectsSpec => []Valid
<1>1. ObjectsInit => Valid
  BY StartsValid
<1>2. Valid /\ [ObjectsNext]_objectVars => Valid'
  <2> SUFFICES ASSUME Valid, [ObjectsNext]_objectVars PROVE Valid'
    OBVIOUS
  <2>1. CASE ObjectsNext
    BY <2>1, StepsCorrect DEF Correct
  <2>2. CASE UNCHANGED objectVars
    <3>1. Memory' = Memory
      BY <2>2 DEF objectVars, Memory
    <3> QED BY <3>1 DEF Valid
  <2> QED BY <2>1, <2>2
<1> QED BY <1>1, <1>2, PTL DEF ObjectsSpec

(* No two names ever refer to one header object (write_lvalue, copy).          *)
THEOREM SharesNothing == ObjectsSpec => []NoSharing
<1>1. Valid => NoSharing
  BY DEF Valid, Distinct, NoSharing, Memory
<1> QED BY <1>1, ObjectsAreShaped, PTL

(* Statements that mutate objects in place do what the statements on values    *)
(* do: every step of the interpreter is one of ValueStore (stmt.py, expr.py,   *)
(* values.py).                                                                 *)
THEOREM ObjectsAreValues == ObjectsSpec => ActsOnValues
<1>1. ObjectsInit => AsValues!Init
  BY StartsValid
<1>2. Valid /\ [ObjectsNext]_objectVars => [AsValues!Next]_(AsValues!vars)
  <2> SUFFICES ASSUME Valid, [ObjectsNext]_objectVars PROVE [AsValues!Next]_(AsValues!vars)
    OBVIOUS
  <2>1. CASE ObjectsNext
    BY <2>1, StepsCorrect DEF Correct
  <2>2. CASE UNCHANGED objectVars
    <3>1. StoreOf(Memory)' = StoreOf(Memory) /\ FrameOf(Memory)' = FrameOf(Memory) /\ stmt' = stmt
      <4>1. Memory' = Memory /\ stmt' = stmt
        BY <2>2 DEF objectVars, Memory
      <4> QED BY <4>1
    <3> QED BY <3>1 DEF AsValues!vars
  <2> QED BY <2>1, <2>2
<1> QED BY <1>1, <1>2, ObjectsAreShaped, PTL DEF ObjectsSpec, ActsOnValues, AsValues!Spec

=============================================================================
