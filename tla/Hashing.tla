------------------------------- MODULE Hashing -------------------------------
(* v1model's hash and update_checksum: frontend/v1model.py makes each a call   *)
(* of a stateless extern and an assignment that reduces its result; the        *)
(* externs are arch/externs/checksum.py and crc.py.  A bit string is the set   *)
(* of its one-positions, position 0 last; widths are scaled down.              *)
EXTENDS Integers, Sequences, SequencesExt, FiniteSetsExt

CONSTANTS
  Statements,   \* P4 statements: [kind, algorithm, data, result, base, max, condition]
  Families,     \* Families[algorithm]: [width, poly, init, final], poly reflected
  Word, Byte    \* bits the checksum adds at a time (16), bits of a byte (8)

VARIABLES
  statement,  \* the P4 statement
  todo,       \* its IR statements still to run
  env,        \* its target and the temporary the result is kept in
  status      \* "source", "running", "done" or "refused"

vars == <<statement, todo, env, status>>

Xor(a, b) == (a \ b) \cup (b \ a)
Left(a, n) == {i + n : i \in a}
Right(a, n) == {i - n : i \in {j \in a : j >= n}}
Cut(a, w) == a \cap 0 .. w - 1
Number(a) == MapThenSumSet(LAMBDA i : 2 ^ i, a)
Set(w, v) == {i \in 0 .. w - 1 : (v \div 2 ^ i) % 2 = 1}

(* _data: the fields of a list, concatenated in order.                         *)
Width(fields) == FoldLeft(LAMBDA n, f : n + f.width, 0, fields)
Data(fields) == FoldLeft(LAMBDA a, f : Left(a, f.width) \cup f.bits, {}, fields)

-----------------------------------------------------------------------------
(* checksum.py: RFC 1071 over the words of the padded data.                    *)
Words(w) == (w + Word - 1) \div Word
WordAt(a, i) == Number(Cut(Right(a, i * Word), Word))
Total(a, n) == MapThenSumSet(LAMBDA i : WordAt(a, i), 0 .. n - 1)
CarriesIn[t \in Nat] == IF t < 2 ^ Word THEN t ELSE CarriesIn[(t % 2 ^ Word) + (t \div 2 ^ Word)]
InternetChecksum(a, w) ==
  LET padded == Left(a, Words(w) * Word - w)
  IN (0 .. Word - 1) \ Set(Word, CarriesIn[Total(padded, Words(w))])

(* crc.py: a table over bytes, the polynomial and the result reflected.        *)
Entry(poly, byte) ==
  FoldLeft(LAMBDA b, i : IF 0 \in b THEN Xor(Right(b, 1), poly) ELSE Right(b, 1),
           byte, [i \in 1 .. Byte |-> i])
Crc(f, a, w) ==
  LET bytes == [i \in 1 .. w \div Byte |-> Cut(Right(a, w - i * Byte), Byte)]
      table == [byte \in SUBSET (0 .. Byte - 1) |-> Entry(f.poly, byte)]
  IN Xor(f.final, FoldLeft(LAMBDA r, b : Xor(Right(r, Byte), table[Cut(Xor(r, b), Byte)]),
                           f.init, bytes))

Compute(algorithm, a, w) ==
  IF algorithm = "csum16" THEN InternetChecksum(a, w) ELSE Crc(Families[algorithm], a, w)
Binds(algorithm, w) == algorithm = "csum16" \/ (w > 0 /\ w % Byte = 0)

-----------------------------------------------------------------------------
(* Reference: the one's complement of the one's-complement sum, and a remainder*)
(* of polynomials over GF(2), sets of exponents.                               *)
OnesSum(t) == IF t = 0 THEN 0 ELSE ((t - 1) % (2 ^ Word - 1)) + 1
Reflect(a, n) == {n - 1 - i : i \in a}
RECURSIVE Remainder(_, _, _)
Remainder(a, g, n) ==
  IF \A i \in a : i < n THEN a ELSE Remainder(Xor(a, Left(g, Max(a) - n)), g, n)
(* Bytes are sent first to last, the lowest bit of each first.                 *)
Sent(a, w) == {(i \div Byte) * Byte + Byte - 1 - (i % Byte) : i \in a}
Reference(algorithm, a, w) ==
  IF algorithm = "csum16"
  THEN LET padded == Left(a, Words(w) * Word - w)
       IN Set(Word, 2 ^ Word - 1 - OnesSum(Total(padded, Words(w))))
  ELSE LET f == Families[algorithm]
           n == f.width
           g == {n} \cup Reflect(f.poly, n)
           m == Xor(Left(Sent(a, w), n), Left(Reflect(f.init, n), w))
       IN Xor(f.final, Reflect(Remainder(m, g, n), n))

-----------------------------------------------------------------------------
(* The translation.  A reduction is [from, mask, add]: the low bits of `from`, *)
(* cast to the target's width, plus the base.                                  *)

(* Fault: a maximum that is not a power of two is masked all the same.         *)
AnyMax(m) == m > 0

PowerOfTwo(m) == m > 0 /\ \E i \in 0 .. m : m = 2 ^ i

Call(to) == [op |-> "call", to |-> to, mask |-> {}, add |-> 0]
Hash(s) ==
  LET w == Families[s.algorithm].width
      from == IF s.result = w THEN "target" ELSE "tmp"
      add == s.base % 2 ^ s.result
  IN IF s.max >= 2 ^ w /\ from = "target" /\ add = 0 THEN <<Call("target")>>
     ELSE <<Call(from), [op |-> from, to |-> "target", add |-> add,
                         mask |-> IF s.max < 2 ^ w THEN Set(w, s.max - 1) ELSE 0 .. w - 1]>>
UpdateChecksum(s) == IF s.condition THEN <<Call("target")>> ELSE <<>>
Accepts(s) ==
  /\ Binds(s.algorithm, Width(s.data))
  /\ IF s.kind = "hash" THEN PowerOfTwo(s.max) ELSE s.algorithm = "csum16" /\ s.result = Word

Init ==
  /\ statement \in Statements /\ todo = <<>> /\ status = "source"
  /\ env = [target |-> {}, tmp |-> {}]

Translate ==
  /\ status = "source"
  /\ IF Accepts(statement)
     THEN /\ status' = "running"
          /\ todo' = IF statement.kind = "hash" THEN Hash(statement) ELSE UpdateChecksum(statement)
     ELSE status' = "refused" /\ UNCHANGED todo
  /\ UNCHANGED <<statement, env>>

(* The IR's call of compute, and its assignment.                               *)
Run ==
  /\ status = "running" /\ todo # <<>>
  /\ LET x == Head(todo)
         w == statement.result
     IN env' = [env EXCEPT ![x.to] =
          IF x.op = "call" THEN Compute(statement.algorithm, Data(statement.data), Width(statement.data))
          ELSE Set(w, Number(Cut(env[x.op] \cap x.mask, w)) + x.add)]
  /\ todo' = Tail(todo)
  /\ UNCHANGED <<statement, status>>
Done == status = "running" /\ todo = <<>> /\ status' = "done" /\ UNCHANGED <<statement, todo, env>>

Next == Translate \/ Run \/ Done
Spec == Init /\ [][Next]_vars

-----------------------------------------------------------------------------
(* hash leaves base + digest mod max in its target, whatever their widths; a   *)
(* checksum and the data it covers add up to all ones.                         *)
HashMeant(s) ==
  env.target = Set(s.result,
    s.base + ((Number(Reference(s.algorithm, Data(s.data), Width(s.data)))) % s.max))
ChecksumMeant(s) ==
  LET w == Words(Width(s.data)) * Word
      padded == Left(Data(s.data), w - Width(s.data))
  IN IF s.condition
     THEN OnesSum(Total(padded, Words(w)) + Number(env.target)) = 2 ^ Word - 1
     ELSE env.target = {}
HashesAsWritten ==
  status = "done" => IF statement.kind = "hash" THEN HashMeant(statement) ELSE ChecksumMeant(statement)
=============================================================================
