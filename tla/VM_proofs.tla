------------------------------ MODULE VM_proofs ------------------------------
(***************************************************************************)
(* Proofs about module VM, for every set of source texts, every depth of   *)
(* the stack and every width of the ints.                                  *)
(***************************************************************************)
EXTENDS VM, SequenceTheorems, WellFoundedInduction, TLAPS

(***************************************************************************)
(* A set of numbers that is not empty has a least element: what is used    *)
(* here in the place of an induction.                                      *)
(***************************************************************************)
LEMMA LeastElement ==
    ASSUME NEW I \in SUBSET Nat, I # {}
    PROVE  \E i \in I : \A j \in I : i <= j
  <1>1. PICK i \in I : \A j \in I : <<j, i>> \notin OpToRel(<, Nat)
    BY NatLessThanWellFounded, WFMin
  <1>2. \A j \in I : ~(j < i)
    BY <1>1 DEF OpToRel
  <1> QED BY <1>2

(***************************************************************************)
(* The flattening of sequences over a set is a sequence over that set.     *)
(***************************************************************************)
Step(ss, f, n) == f = [i \in 1 .. n |-> IF i = 1 THEN ss[i] ELSE f[i - 1] \o ss[i]]

LEMMA FlattenExists ==
    ASSUME NEW ss, NEW n \in Nat
    PROVE  \E f : Step(ss, f, n)
  <1> DEFINE Bad == {k \in Nat : ~\E f : Step(ss, f, k)}
  <1>1. SUFFICES ASSUME Bad # {} PROVE FALSE
    OBVIOUS
  <1>2. PICK m \in Bad : \A j \in Bad : m <= j
    BY <1>1, LeastElement
  <1>3. m # 0
    <2>1. Step(ss, <<>>, 0)
      BY DEF Step
    <2> QED BY <2>1
  <1>4. m - 1 \in Nat /\ m - 1 \notin Bad
    BY <1>2, <1>3
  <1>5. PICK f : Step(ss, f, m - 1)
    BY <1>4
  <1> DEFINE g == [i \in 1 .. m |-> IF i = 1 THEN ss[i]
                                    ELSE (IF i - 1 = 0 THEN ss[i] ELSE f[i - 1]) \o ss[i]]
  <1>6. ASSUME NEW i \in 1 .. m - 1 PROVE g[i] = f[i]
    <2>1. i \in 1 .. m /\ m - 1 \in Nat
      BY <1>4
    <2>2. f[i] = IF i = 1 THEN ss[i] ELSE f[i - 1] \o ss[i]
      <3> HIDE DEF g
      <3> QED BY <1>5 DEF Step
    <2>3. g[i] = IF i = 1 THEN ss[i] ELSE (IF i - 1 = 0 THEN ss[i] ELSE f[i - 1]) \o ss[i]
      BY <2>1
    <2>4. i # 1 => i - 1 # 0
      BY <2>1
    <2> HIDE DEF g
    <2> QED BY <2>2, <2>3, <2>4
  <1>7. ASSUME NEW i \in 1 .. m PROVE g[i] = IF i = 1 THEN ss[i] ELSE g[i - 1] \o ss[i]
    <2>1. CASE i = 1
      BY <2>1
    <2>2. CASE i # 1
      <3>1. i - 1 \in 1 .. m - 1 /\ i - 1 # 0
        BY <2>2, <1>4
      <3>2. g[i - 1] = f[i - 1]
        BY <3>1, <1>6
      <3>3. g[i] = f[i - 1] \o ss[i]
        BY <2>2, <3>1
      <3> HIDE DEF g
      <3> QED BY <2>2, <3>2, <3>3
    <2> QED BY <2>1, <2>2
  <1>8. Step(ss, g, m)
    <2> DEFINE h == [i \in 1 .. m |-> IF i = 1 THEN ss[i] ELSE g[i - 1] \o ss[i]]
    <2>1. g = h
      <3>1. DOMAIN g = 1 .. m /\ DOMAIN h = 1 .. m
        OBVIOUS
      <3>2. \A i \in 1 .. m : g[i] = h[i]
        <4> HIDE DEF g
        <4> QED BY <1>7
      <3>3. g = [i \in 1 .. m |-> g[i]]
        OBVIOUS
      <3>4. h = [i \in 1 .. m |-> h[i]]
        OBVIOUS
      <3> HIDE DEF g, h
      <3> QED BY <3>2, <3>3, <3>4
    <2> HIDE DEF g
    <2> QED BY <2>1 DEF Step
  <1> QED BY <1>8, <1>2

(* The parts that are put together one after the other. *)
Partials(ss, c) ==
    /\ c[0] = <<>>
    /\ \A i \in 1 .. Len(ss) : c[i] = c[i - 1] \o ss[i]
    /\ c[Len(ss)] = FlattenSeq(ss)

LEMMA FlattenPrefixes ==
    ASSUME NEW S, NEW ss \in Seq(Seq(S))
    PROVE  \E c \in [0 .. Len(ss) -> Seq(S)] : Partials(ss, c)
  <1> DEFINE n == Len(ss)
             f == CHOOSE g : Step(ss, g, n)
             c == [i \in 0 .. n |-> IF i = 0 THEN <<>> ELSE f[i]]
  <1>1. n \in Nat /\ \A i \in 1 .. n : ss[i] \in Seq(S)
    OBVIOUS
  <1>2. Step(ss, f, n)
    BY <1>1, FlattenExists
  <1>3. n # 0 => FlattenSeq(ss) = f[n]
    BY DEF FlattenSeq, Step
  <1>4. n = 0 => FlattenSeq(ss) = <<>>
    BY DEF FlattenSeq
  <1> HIDE DEF f
  <1>5. \A i \in 1 .. n : f[i] = IF i = 1 THEN ss[i] ELSE f[i - 1] \o ss[i]
    BY <1>2 DEF Step
  <1>6. c[0] = <<>> /\ \A i \in 1 .. n : c[i] = f[i]
    BY <1>1
  <1>7. c[n] = FlattenSeq(ss)
    BY <1>1, <1>3, <1>4, <1>6
  <1>8. ASSUME NEW i \in 1 .. n PROVE c[i] = c[i - 1] \o ss[i]
    <2>1. CASE i = 1
      <3>1. c[i - 1] = <<>> /\ c[i] = ss[i] /\ ss[i] \in Seq(S)
        BY <2>1, <1>1, <1>5, <1>6
      <3> HIDE DEF c
      <3>2. <<>> \o ss[i] = ss[i]
        BY <3>1, ConcatEmptySeq
      <3> QED BY <3>1, <3>2
    <2>2. CASE i # 1
      <3>1. i - 1 \in 1 .. n
        BY <2>2, <1>1
      <3> HIDE DEF c
      <3>2. c[i - 1] = f[i - 1] /\ c[i] = f[i]
        BY <3>1, <1>6
      <3>3. f[i] = f[i - 1] \o ss[i]
        BY <2>2, <1>5
      <3> QED BY <3>2, <3>3
    <2> QED BY <2>1, <2>2
  <1>9. \A i \in 0 .. n : c[i] \in Seq(S)
    <2> DEFINE Bad == {i \in 0 .. n : c[i] \notin Seq(S)}
    <2>1. SUFFICES ASSUME Bad # {} PROVE FALSE
      OBVIOUS
    <2>2. Bad \in SUBSET Nat
      OBVIOUS
    <2>3. PICK m \in Bad : \A j \in Bad : m <= j
      BY <2>1, <2>2, LeastElement
    <2>4. m # 0
      BY <1>6
    <2>5. m \in 1 .. n /\ m - 1 \in 0 .. n /\ m - 1 \notin Bad
      BY <2>3, <2>4
    <2>6. c[m - 1] \in Seq(S) /\ ss[m] \in Seq(S)
      BY <2>5, <1>1
    <2>7. c[m] = c[m - 1] \o ss[m]
      BY <2>5, <1>8
    <2> HIDE DEF c
    <2>8. c[m] \in Seq(S)
      BY <2>6, <2>7, ConcatProperties
    <2> QED BY <2>3, <2>8
  <1>10. c = [i \in 0 .. n |-> c[i]]
    OBVIOUS
  <1> HIDE DEF c
  <1>11. c \in [0 .. n -> Seq(S)]
    BY <1>9, <1>10
  <1> QED BY <1>6, <1>7, <1>8, <1>11 DEF Partials

LEMMA FlattenType ==
    ASSUME NEW S, NEW ss \in Seq(Seq(S))
    PROVE  FlattenSeq(ss) \in Seq(S)
  <1>1. PICK c \in [0 .. Len(ss) -> Seq(S)] : Partials(ss, c)
    BY FlattenPrefixes
  <1>2. Len(ss) \in 0 .. Len(ss)
    OBVIOUS
  <1> QED BY <1>1, <1>2 DEF Partials

(* Where a part lies in the whole. *)
Layout(ss, o, whole) ==
    /\ o \in [0 .. Len(ss) -> Nat]
    /\ o[0] = 0
    /\ \A i \in 1 .. Len(ss) : o[i] = o[i - 1] + Len(ss[i])
    /\ o[Len(ss)] = Len(whole)
    /\ \A i \in 1 .. Len(ss) : \A r \in 1 .. Len(ss[i]) : whole[o[i - 1] + r] = ss[i][r]

LEMMA FlattenLayout ==
    ASSUME NEW S, NEW ss \in Seq(Seq(S))
    PROVE  \E o : Layout(ss, o, FlattenSeq(ss))
  <1>1. PICK c \in [0 .. Len(ss) -> Seq(S)] : Partials(ss, c)
    BY FlattenPrefixes
  <1> DEFINE o == [i \in 0 .. Len(ss) |-> Len(c[i])]
  <1>2. PICK n \in Nat : n = Len(ss)
    OBVIOUS
  <1>3. \A i \in 0 .. n : c[i] \in Seq(S) /\ Len(c[i]) \in Nat /\ o[i] = Len(c[i])
    BY <1>2
  <1>4. \A i \in 1 .. n : /\ i - 1 \in 0 .. n /\ i \in 0 .. n
                          /\ ss[i] \in Seq(S) /\ Len(ss[i]) \in Nat
    BY <1>2
  <1>5. o \in [0 .. n -> Nat]
    BY <1>2
  <1>6. o[0] = 0
    BY <1>1, <1>2 DEF Partials
  <1>7. o[n] = Len(FlattenSeq(ss))
    BY <1>1, <1>2, <1>3 DEF Partials
  <1> HIDE DEF o
  <1>8. ASSUME NEW i \in 1 .. n
        PROVE  /\ o[i] = o[i - 1] + Len(ss[i])
               /\ \A x \in 1 .. o[i - 1] : c[i][x] = c[i - 1][x]
               /\ \A r \in 1 .. Len(ss[i]) : c[i][o[i - 1] + r] = ss[i][r]
    <2>1. PICK k \in Nat : k = Len(c[i - 1])
      BY <1>3, <1>4
    <2>2. PICK l \in Nat : l = Len(ss[i])
      BY <1>4
    <2>3. c[i] = c[i - 1] \o ss[i] /\ c[i - 1] \in Seq(S) /\ ss[i] \in Seq(S)
      BY <1>1, <1>2, <1>3, <1>4 DEF Partials
    <2>4. /\ Len(c[i]) = k + l
          /\ \A x \in 1 .. k + l : c[i][x] = IF x <= k THEN c[i - 1][x] ELSE ss[i][x - k]
      <3>1. PICK s \in Seq(S), u \in Seq(S) : s = c[i - 1] /\ u = ss[i]
        BY <2>3
      <3>2. Len(s) = k /\ Len(u) = l
        BY <3>1, <2>1, <2>2
      <3>3. /\ Len(s \o u) = k + l
            /\ \A x \in 1 .. k + l : (s \o u)[x] = IF x <= k THEN s[x] ELSE u[x - k]
        BY <3>2, ConcatProperties
      <3>4. c[i] = s \o u
        BY <2>3, <3>1
      <3> QED BY <3>1, <3>3, <3>4
    <2>5. o[i] = k + l /\ o[i - 1] = k
      BY <2>1, <2>4, <1>3, <1>4
    <2>6. \A x \in 1 .. k : c[i][x] = c[i - 1][x]
      BY <2>4
    <2>7. ASSUME NEW r \in 1 .. l PROVE c[i][k + r] = ss[i][r]
      <3>1. k + r \in 1 .. k + l /\ ~(k + r <= k) /\ (k + r) - k = r
        OBVIOUS
      <3> QED BY <3>1, <2>4
    <2> QED BY <2>2, <2>5, <2>6, <2>7
  <1>9. \A m \in 1 .. n : \A i \in 1 .. m :
           /\ o[i] <= o[m]
           /\ \A r \in 1 .. Len(ss[i]) : c[m][o[i - 1] + r] = ss[i][r]
    <2> DEFINE Good(m) == \A i \in 1 .. m :
                             /\ o[i] <= o[m]
                             /\ \A r \in 1 .. Len(ss[i]) : c[m][o[i - 1] + r] = ss[i][r]
               Bad == {m \in 1 .. n : ~Good(m)}
    <2>1. SUFFICES ASSUME Bad # {} PROVE FALSE
      OBVIOUS
    <2>2. Bad \in SUBSET Nat
      OBVIOUS
    <2>3. PICK m \in Bad : \A j \in Bad : m <= j
      BY <2>1, <2>2, LeastElement
    <2>4. m \in 1 .. n /\ ~Good(m)
      BY <2>3
    <2>5. ASSUME NEW i \in 1 .. m
          PROVE  /\ o[i] <= o[m]
                 /\ \A r \in 1 .. Len(ss[i]) : c[m][o[i - 1] + r] = ss[i][r]
      <3>1. CASE i = m
        <4>1. o[m] \in Nat
          BY <1>5, <2>4
        <4>2. \A r \in 1 .. Len(ss[m]) : c[m][o[m - 1] + r] = ss[m][r]
          BY <2>4, <1>8
        <4>3. o[m] <= o[m]
          BY <4>1
        <4> QED BY <4>2, <4>3, <3>1
      <3>2. CASE i < m
        <4>1. m - 1 \in 1 .. n /\ i \in 1 .. m - 1 /\ i \in 1 .. n /\ i - 1 \in 0 .. n
          BY <2>4, <3>2
        <4>2. m - 1 \notin Bad
          BY <2>3, <4>1
        <4>3. Good(m - 1)
          BY <4>1, <4>2
        <4>4. o[i] <= o[m - 1] /\ \A r \in 1 .. Len(ss[i]) : c[m - 1][o[i - 1] + r] = ss[i][r]
          BY <4>1, <4>3
        <4>5. /\ o[i] \in Nat /\ o[i - 1] \in Nat /\ o[m - 1] \in Nat /\ Len(ss[i]) \in Nat
              /\ Len(ss[m]) \in Nat
          BY <1>4, <1>5, <2>4, <4>1
        <4>6. o[m] = o[m - 1] + Len(ss[m]) /\ \A x \in 1 .. o[m - 1] : c[m][x] = c[m - 1][x]
          BY <1>8, <2>4
        <4>7. o[i] = o[i - 1] + Len(ss[i])
          BY <1>8, <4>1
        <4>8. ASSUME NEW r \in 1 .. Len(ss[i]) PROVE c[m][o[i - 1] + r] = ss[i][r]
          <5>1. o[i - 1] + r \in 1 .. o[m - 1]
            <6>1. PICK a \in Nat, b \in Nat, d \in Nat, l \in Nat :
                     a = o[i - 1] /\ b = o[i] /\ d = o[m - 1] /\ l = Len(ss[i])
              BY <4>5
            <6>2. b <= d /\ b = a + l /\ r \in 1 .. l
              BY <4>4, <4>7, <6>1
            <6>3. a + r \in 1 .. d
              BY <6>2
            <6> QED BY <6>1, <6>3
          <5> QED BY <5>1, <4>4, <4>6
        <4>9. o[i] <= o[m]
          <5>1. PICK b \in Nat, d \in Nat, l \in Nat :
                   b = o[i] /\ d = o[m - 1] /\ l = Len(ss[m])
            BY <4>5
          <5>2. b <= d /\ o[m] = d + l
            BY <4>4, <4>6, <5>1
          <5>3. b <= o[m]
            BY <5>2
          <5> QED BY <5>1, <5>3
        <4> QED BY <4>8, <4>9
      <3>3. i = m \/ i < m
        BY <2>4
      <3> QED BY <3>1, <3>2, <3>3
    <2> QED BY <2>4, <2>5
  <1>10. ASSUME NEW i \in 1 .. n, NEW r \in 1 .. Len(ss[i])
         PROVE  FlattenSeq(ss)[o[i - 1] + r] = ss[i][r]
    <2>1. n \in 1 .. n /\ i \in 1 .. n
      OBVIOUS
    <2>2. c[n] = FlattenSeq(ss)
      BY <1>1, <1>2 DEF Partials
    <2> QED BY <2>1, <2>2, <1>9
  <1>11. Layout(ss, o, FlattenSeq(ss))
    BY <1>2, <1>5, <1>6, <1>7, <1>8, <1>10 DEF Layout
  <1> QED BY <1>11

LEMMA ByteIsNat == \A b \in Byte : b \in Nat
  BY DEF Byte

LEMMA FunctionIsSeq ==
    ASSUME NEW S, NEW n \in Nat, NEW f \in [1 .. n -> S]
    PROVE  f \in Seq(S)
  OBVIOUS

(***************************************************************************)
(* The compiler makes bytes of every text.                                 *)
(***************************************************************************)
LEMMA PushAllType ==
    ASSUME NEW s \in Seq(Byte), NEW inst \in Byte
    PROVE  PushAll(s, inst) \in Seq(Byte)
  <1>1. [i \in DOMAIN s |-> <<s[i], inst>>] \in Seq(Seq(Byte))
    <2>1. \A i \in 1 .. Len(s) : <<s[i], inst>> \in Seq(Byte)
      OBVIOUS
    <2>2. DOMAIN s = 1 .. Len(s) /\ Len(s) \in Nat
      OBVIOUS
    <2>3. [i \in 1 .. Len(s) |-> <<s[i], inst>>] \in [1 .. Len(s) -> Seq(Byte)]
      BY <2>1
    <2> QED BY <2>2, <2>3, FunctionIsSeq
  <1> QED BY <1>1, FlattenType DEF PushAll

LEMMA KeyCodeType ==
    ASSUME NEW key \in Seq(Byte), Len(key) \in Byte
    PROVE  KeyCode(key) \in Seq(Byte)
  <1>1. InstructionPushBytes \in Byte /\ InstructionPushInt \in Byte /\ InstructionPack \in Byte
    BY DEF InstructionPushBytes, InstructionPushInt, InstructionPack, Byte
  <1>2. PushAll(key, InstructionPushBytes) \in Seq(Byte)
    BY <1>1, PushAllType
  <1>3. <<Len(key), InstructionPushInt, InstructionPack>> \in Seq(Byte)
    BY <1>1
  <1> QED BY <1>2, <1>3, ConcatProperties DEF KeyCode

LEMMA SumCodeType ==
    ASSUME NEW ints \in Seq(Byte)
    PROVE  SumCode(ints) \in Seq(Byte)
  <1>1. InstructionPushInt \in Byte /\ InstructionAddInt \in Byte
    BY DEF InstructionPushInt, InstructionAddInt, Byte
  <1>2. PushAll(ints, InstructionPushInt) \in Seq(Byte)
    BY <1>1, PushAllType
  <1>3. [i \in 1 .. Len(ints) - 1 |-> InstructionAddInt] \in Seq(Byte)
    <2>1. PICK n \in Nat : 1 .. Len(ints) - 1 = 1 .. n
      <3>1. CASE Len(ints) = 0
        <4>1. 1 .. Len(ints) - 1 = 1 .. 0
          BY <3>1
        <4> QED BY <4>1
      <3>2. CASE Len(ints) # 0
        BY <3>2
      <3> QED BY <3>1, <3>2
    <2> QED BY <2>1, <1>1
  <1> QED BY <1>2, <1>3, ConcatProperties DEF SumCode

LEMMA CompileType ==
    ASSUME NEW src \in Source
    PROVE  Compile(src) \in Seq(Byte)
  <1>1. src \in Seq([op : {"set", "get", "code"}, key : Seq(Byte), ints : Seq(Byte)])
    BY SourceAssumption
  <1>2. ASSUME NEW i \in 1 .. Len(src) PROVE Statement(src[i]) \in Seq(Byte)
    <2>1. /\ src[i].op \in {"set", "get", "code"}
          /\ src[i].key \in Seq(Byte) /\ src[i].ints \in Seq(Byte)
      <3> DEFINE Text == [op : {"set", "get", "code"}, key : Seq(Byte), ints : Seq(Byte)]
      <3>1. src \in Seq(Text)
        BY <1>1
      <3>2. src[i] \in Text
        <4> HIDE DEF Text
        <4> QED BY <3>1
      <3> QED BY <3>2
    <2>2. Len(src[i].key) \in Byte
      <3>1. i \in DOMAIN src
        BY <1>1
      <3> QED BY <3>1, SourceAssumption
    <2>3. KeyCode(src[i].key) \in Seq(Byte) /\ SumCode(src[i].ints) \in Seq(Byte)
      BY <2>1, <2>2, KeyCodeType, SumCodeType
    <2>4. <<InstructionStore>> \in Seq(Byte) /\ <<InstructionGet>> \in Seq(Byte)
      BY DEF InstructionStore, InstructionGet, Byte
    <2>5. KeyCode(src[i].key) \o SumCode(src[i].ints) \in Seq(Byte)
      BY <2>3, ConcatProperties
    <2>6. KeyCode(src[i].key) \o SumCode(src[i].ints) \o <<InstructionStore>> \in Seq(Byte)
      BY <2>4, <2>5, ConcatProperties
    <2>7. KeyCode(src[i].key) \o <<InstructionGet>> \in Seq(Byte)
      BY <2>3, <2>4, ConcatProperties
    <2> QED BY <2>1, <2>6, <2>7 DEF Statement
  <1>3. [i \in DOMAIN src |-> Statement(src[i])] \in Seq(Seq(Byte))
    <2>1. DOMAIN src = 1 .. Len(src) /\ Len(src) \in Nat
      BY <1>1
    <2>2. [i \in 1 .. Len(src) |-> Statement(src[i])] \in [1 .. Len(src) -> Seq(Byte)]
      BY <1>2
    <2> QED BY <2>1, <2>2, FunctionIsSeq
  <1> QED BY <1>3, FlattenType DEF Compile

(***************************************************************************)
(* The state: TypeOK, with the conditions on the values as a set.          *)
(***************************************************************************)
Value == {v \in Values : IsValue(v)}

StackInv == stack \in Seq(Value) /\ Len(stack) <= Depth

StateInv == \A k \in DOMAIN contractState : k \in Seq(Byte) /\ contractState[k] \in Value

ProgramInv ==
    /\ data \in Seq(Byte)
    /\ ip \in 0 .. Len(data)
    /\ status \in {"running", "nil", "error", "panic"}
    /\ runs \in 0 .. MaxRuns

Inv == ProgramInv /\ StackInv /\ StateInv

LEMMA InvIsTypeOK == Inv => TypeOK
  <1> SUFFICES ASSUME Inv PROVE TypeOK
    OBVIOUS
  <1>1. \A v \in Value : IsValue(v) /\ v \in Values
    BY DEF Value
  <1>2. stack \in Seq(Value) /\ Len(stack) <= Depth
    BY DEF Inv, StackInv
  <1>3. \A i \in 1 .. Len(stack) : stack[i] \in Value
    BY <1>2
  <1>4. stack \in Seq(Values)
    BY <1>1, <1>2, <1>3
  <1>5. \A i \in DOMAIN stack : IsValue(stack[i])
    BY <1>1, <1>2, <1>3
  <1>6. \A k \in DOMAIN contractState : k \in Seq(Byte) /\ IsValue(contractState[k])
    BY <1>1 DEF Inv, StateInv
  <1> QED BY <1>2, <1>4, <1>5, <1>6 DEF TypeOK, Inv, ProgramInv

(***************************************************************************)
(* The ints: bytes are among them, and so is what is left of a sum.        *)
(***************************************************************************)
LEMMA Fits ==
    /\ MaxInt \in Nat /\ MinInt \in Int /\ MaxLen \in Nat
    /\ \A b \in Byte : b \in 0 .. MaxLen /\ b \in MinInt .. MaxInt
    /\ \A n \in MinInt .. MaxInt : Wrapped(n) = n
  BY WidthAssumption DEF Byte, MinInt, Wrapped

LEMMA SumFits ==
    ASSUME NEW a \in MinInt .. MaxInt, NEW b \in MinInt .. MaxInt
    PROVE  Wrapped(a + b) \in MinInt .. MaxInt
  <1>1. MaxInt \in Nat
    BY WidthAssumption
  <1> QED BY <1>1 DEF MinInt, Wrapped

LEMMA IntValue ==
    ASSUME NEW n \in MinInt .. MaxInt
    PROVE  Int_(n) \in Value
  <1>1. n \in Int
    BY Fits
  <1>2. <<n>> \in Seq(Int) /\ Len(<<n>>) = 1 /\ <<n>>[1] \in MinInt .. MaxInt
    BY <1>1
  <1> QED BY <1>2 DEF Int_, Value, Values, IsValue

LEMMA ByteValue ==
    ASSUME NEW b \in Byte
    PROVE  Byte_(b) \in Value
  <1>1. b \in Int
    BY DEF Byte
  <1>2. <<b>> \in Seq(Int) /\ Len(<<b>>) = 1 /\ \A i \in DOMAIN <<b>> : <<b>>[i] \in Byte
    BY <1>1
  <1> QED BY <1>2 DEF Byte_, Value, Values, IsValue

LEMMA BytesValue ==
    ASSUME NEW s \in Seq(Byte)
    PROVE  Bytes_(s) \in Value
  <1>1. s \in Seq(Int)
    <2>1. \A i \in 1 .. Len(s) : s[i] \in Byte
      OBVIOUS
    <2>2. \A b \in Byte : b \in Int
      BY DEF Byte
    <2> QED BY <2>1, <2>2
  <1>2. \A i \in DOMAIN s : s[i] \in Byte
    OBVIOUS
  <1> QED BY <1>1, <1>2 DEF Bytes_, Value, Values, IsValue

LEMMA IntIsInt ==
    ASSUME NEW v \in Value, v.type = "int"
    PROVE  v.val[1] \in MinInt .. MaxInt
  BY DEF Value, Values, IsValue

LEMMA ByteIsByte ==
    ASSUME NEW v \in Value, v.type = "byte"
    PROVE  v.val[1] \in Byte
  BY DEF Value, Values, IsValue

LEMMA KeyIsBytes ==
    ASSUME NEW v \in Value, v.type = "bytes"
    PROVE  v.val \in Seq(Byte)
  <1>1. v.val \in Seq(Int) /\ \A i \in DOMAIN v.val : v.val[i] \in Byte
    BY DEF Value, Values, IsValue
  <1> QED BY <1>1

(***************************************************************************)
(* The parts of a stack.                                                   *)
(***************************************************************************)
LEMMA Parts ==
    ASSUME NEW st \in Seq(Value), NEW n \in 0 .. Len(st)
    PROVE  /\ Below(st, n) \in Seq(Value)
           /\ Len(Below(st, n)) = Len(st) - n
           /\ Top(st, n) \in Seq(Value)
           /\ Len(Top(st, n)) = n
           /\ \A i \in 1 .. n : Top(st, n)[i] = st[Len(st) - n + i]
  <1> PICK l \in Nat : l = Len(st)
    OBVIOUS
  <1>1. /\ Below(st, n) \in Seq(Value)
        /\ Len(Below(st, n)) = Len(st) - n
    BY SubSeqProperties DEF Below
  <1>2. /\ Top(st, n) \in Seq(Value)
        /\ Len(Top(st, n)) = n
        /\ \A i \in 1 .. n : Top(st, n)[i] = st[Len(st) - n + i]
    BY SubSeqProperties DEF Top
  <1> QED BY <1>1, <1>2

LEMMA LastAndFront ==
    ASSUME NEW st \in Seq(Value), st # <<>>
    PROVE  /\ Last(st) \in Value
           /\ Front(st) \in Seq(Value)
           /\ Len(Front(st)) = Len(st) - 1
           /\ Len(st) \in Nat \ {0}
  <1>1. Len(st) \in Nat \ {0}
    OBVIOUS
  <1>2. Last(st) \in Value
    BY <1>1 DEF Last
  <1>3. Front(st) \in Seq(Value) /\ Len(Front(st)) = Len(st) - 1
    <2>1. PICK l \in Nat : l = Len(st) - 1
      BY <1>1
    <2>2. \A i \in 1 .. l : st[i] \in Value
      BY <2>1
    <2>3. SubSeq(st, 1, l) \in Seq(Value) /\ Len(SubSeq(st, 1, l)) = l
      BY <2>2, SubSeqProperties
    <2> QED BY <2>1, <2>3 DEF Front
  <1> QED BY <1>1, <1>2, <1>3

(***************************************************************************)
(* A step of Run: it goes on with a stack that is in order, or it ends.    *)
(***************************************************************************)
LEMMA ContinueKeeps ==
    ASSUME ProgramInv, status = "running", ip < Len(data),
           NEW st \in Seq(Value), Len(st) <= Depth, Continue(st)
    PROVE  ProgramInv' /\ StackInv'
  <1>1. data' = data /\ runs' = runs /\ ip' = ip + 1 /\ stack' = st
    BY DEF Continue, program
  <1>2. status' \in {"running", "nil", "error", "panic"}
    BY DEF Continue
  <1>3. ip + 1 \in 0 .. Len(data)
    BY DEF ProgramInv
  <1> QED BY <1>1, <1>2, <1>3 DEF ProgramInv, StackInv

LEMMA StopKeeps ==
    ASSUME Inv, NEW how \in {"error", "panic"}, Stop(how)
    PROVE  Inv'
  BY DEF Stop, program, Inv, ProgramInv, StackInv, StateInv

LEMMA PushKeeps ==
    ASSUME Inv, status = "running", ip < Len(data),
           NEW st \in Seq(Value), Len(st) <= Depth, NEW v \in Value, Push(st, v)
    PROVE  Inv'
  <1>1. CASE Full(st) /\ Stop("error")
    BY <1>1, StopKeeps
  <1>2. CASE ~Full(st) /\ Continue(Append(st, v)) /\ UNCHANGED contractState
    <2>1. Append(st, v) \in Seq(Value) /\ Len(Append(st, v)) = Len(st) + 1
      OBVIOUS
    <2>2. Len(st) + 1 <= Depth
      BY <1>2, DepthAssumption DEF Full
    <2>3. ProgramInv' /\ StackInv'
      BY <1>2, <2>1, <2>2, ContinueKeeps DEF Inv
    <2> QED BY <1>2, <2>3 DEF Inv, StateInv
  <1> QED BY <1>1, <1>2 DEF Push

LEMMA PushLiteralKeeps ==
    ASSUME Inv, NEW inst, NEW v, ip > 0 => v \in Value, PushLiteral(inst, v)
    PROVE  Inv'
  <1>1. status = "running" /\ ip < Len(data)
    BY DEF PushLiteral, Reaches
  <1>2. CASE ip = 0 /\ Stop("panic")
    BY <1>2, StopKeeps
  <1>3. CASE ip > 0 /\ Push(stack, v)
    BY <1>1, <1>3, PushKeeps DEF Inv, StackInv
  <1> QED BY <1>2, <1>3 DEF PushLiteral

LEMMA OperandIsByte ==
    ASSUME ProgramInv, ip > 0
    PROVE  Operand \in Byte
  BY DEF ProgramInv, Operand

LEMMA AddIntKeeps == Inv /\ AddInt => Inv'
  <1> SUFFICES ASSUME Inv, AddInt PROVE Inv'
    OBVIOUS
  <1>1. status = "running" /\ ip < Len(data)
    BY DEF AddInt, Reaches
  <1>2. CASE Stop("error") \/ Stop("panic")
    BY <1>2, StopKeeps
  <1>3. CASE /\ Len(stack) >= 2
             /\ \A i \in 1 .. 2 : Top(stack, 2)[i].type = "int"
             /\ Push(Below(stack, 2),
                     Int_(Wrapped(Top(stack, 2)[1].val[1] + Top(stack, 2)[2].val[1])))
    <2>1. stack \in Seq(Value) /\ Len(stack) \in Nat /\ Len(stack) <= Depth
      BY DEF Inv, StackInv
    <2>2. 2 \in 0 .. Len(stack)
      BY <1>3, <2>1
    <2>3. Top(stack, 2) \in Seq(Value) /\ Len(Top(stack, 2)) = 2
      BY <2>1, <2>2, Parts
    <2>4. Top(stack, 2)[1] \in Value /\ Top(stack, 2)[2] \in Value
      BY <2>3
    <2>5. /\ Top(stack, 2)[1].val[1] \in MinInt .. MaxInt
          /\ Top(stack, 2)[2].val[1] \in MinInt .. MaxInt
      BY <1>3, <2>4, IntIsInt
    <2>6. Int_(Wrapped(Top(stack, 2)[1].val[1] + Top(stack, 2)[2].val[1])) \in Value
      BY <2>5, SumFits, IntValue
    <2>7. Below(stack, 2) \in Seq(Value) /\ Len(Below(stack, 2)) <= Depth
      BY <2>1, <2>2, Parts, DepthAssumption
    <2> QED BY <1>1, <1>3, <2>6, <2>7, PushKeeps
  <1> QED BY <1>2, <1>3 DEF AddInt

(***************************************************************************)
(* Pack has taken the length off before it pushes: there is a slot left,   *)
(* and the push, whose error is dropped, has none.                         *)
(***************************************************************************)
LEMMA PackBytesKeeps ==
    ASSUME Inv, status = "running", ip < Len(data),
           NEW st \in Seq(Value), Len(st) < Depth, NEW n, PackBytes(st, n)
    PROVE  /\ Inv'
           /\ ip' # ip => stack' # <<>> /\ Last(stack').type = "bytes"
  <1>1. CASE Stop("panic") \/ Stop("error")
    <2>1. Inv'
      BY <1>1, StopKeeps
    <2>2. ip' = ip
      BY <1>1 DEF Stop
    <2> QED BY <2>1, <2>2
  <1>2. CASE /\ n \in 0 .. MaxLen
             /\ \A i \in DOMAIN st : Len(st) - i < n => st[i].type = "byte"
             /\ Len(st) >= n
             /\ PushUnchecked(Below(st, n),
                              Bytes_([i \in 1 .. n |-> Top(st, n)[i].val[1]]))
             /\ UNCHANGED contractState
    <2> PICK l \in Nat : l = Len(st)
      OBVIOUS
    <2>1. n \in 0 .. Len(st) /\ n \in Nat
      BY <1>2, Fits
    <2>2. /\ Below(st, n) \in Seq(Value) /\ Len(Below(st, n)) = l - n
          /\ Top(st, n) \in Seq(Value) /\ Len(Top(st, n)) = n
          /\ \A i \in 1 .. n : Top(st, n)[i] = st[l - n + i]
      BY <2>1, Parts
    <2>3. ASSUME NEW i \in 1 .. n PROVE Top(st, n)[i].val[1] \in Byte
      <3>1. PICK j \in 1 .. l : j = l - n + i /\ l - j < n
        <4>1. n <= l /\ n \in Nat /\ i \in Nat /\ 1 <= i /\ i <= n
          BY <2>1
        <4>2. l - n + i \in 1 .. l /\ l - (l - n + i) < n
          BY <4>1
        <4> QED BY <4>2
      <3>2. st[j].type = "byte" /\ st[j] \in Value
        BY <1>2, <3>1
      <3>3. st[j].val[1] \in Byte
        BY <3>2, ByteIsByte
      <3> QED BY <2>2, <3>1, <3>3
    <2> DEFINE bs == [i \in 1 .. n |-> Top(st, n)[i].val[1]]
               b == Bytes_(bs)
    <2>4. b \in Value
      <3>1. bs \in [1 .. n -> Byte]
        BY <2>3
      <3>2. bs \in Seq(Byte)
        BY <2>1, <3>1, FunctionIsSeq
      <3> HIDE DEF bs
      <3> QED BY <3>2, BytesValue
    <2>5. b.type = "bytes"
      BY DEF Bytes_
    <2>6. PushUnchecked(Below(st, n), b)
      BY <1>2
    <2> HIDE DEF b
    <2>7. ~Full(Below(st, n)) /\ l - n + 1 <= Depth
      BY <2>1, <2>2, DepthAssumption DEF Full
    <2>8. Continue(Append(Below(st, n), b))
      BY <2>6, <2>7 DEF PushUnchecked
    <2>9. /\ Append(Below(st, n), b) \in Seq(Value)
          /\ Len(Append(Below(st, n), b)) = l - n + 1
          /\ Append(Below(st, n), b)[l - n + 1] = b
      BY <2>2, <2>4
    <2>10. ProgramInv' /\ StackInv'
      BY <2>7, <2>8, <2>9, ContinueKeeps DEF Inv
    <2>11. StateInv'
      BY <1>2 DEF Inv, StateInv
    <2>12. stack' # <<>> /\ Last(stack') = b
      <3>1. stack' = Append(Below(st, n), b)
        BY <2>8 DEF Continue
      <3>2. stack' # <<>>
        BY <3>1, <2>2, <2>4
      <3> QED BY <3>1, <3>2, <2>9 DEF Last
    <2> QED BY <2>5, <2>10, <2>11, <2>12 DEF Inv
  <1> QED BY <1>1, <1>2 DEF PackBytes

LEMMA PackKeeps ==
    ASSUME Inv, Pack
    PROVE  /\ Inv'
           /\ ip' # ip => stack' # <<>> /\ Last(stack').type = "bytes"
  <1>1. status = "running" /\ ip < Len(data)
    BY DEF Pack, Reaches
  <1>2. CASE Stop("panic") \/ Stop("error")
    <2>1. Inv'
      BY <1>2, StopKeeps
    <2>2. ip' = ip
      BY <1>2 DEF Stop
    <2> QED BY <2>1, <2>2
  <1>3. CASE /\ stack # <<>>
             /\ Last(stack).type = "int"
             /\ PackBytes(Front(stack), Last(stack).val[1])
    <2>1. stack \in Seq(Value) /\ Len(stack) <= Depth
      BY DEF Inv, StackInv
    <2>2. /\ Last(stack) \in Value /\ Front(stack) \in Seq(Value)
          /\ Len(Front(stack)) = Len(stack) - 1 /\ Len(stack) \in Nat \ {0}
      BY <1>3, <2>1, LastAndFront
    <2>3. Len(Front(stack)) < Depth
      BY <2>1, <2>2, DepthAssumption
    <2> QED BY <1>1, <1>3, <2>2, <2>3, PackBytesKeeps
  <1> QED BY <1>2, <1>3 DEF Pack

LEMMA StoreKeeps == Inv /\ Store => Inv'
  <1> SUFFICES ASSUME Inv, Store PROVE Inv'
    OBVIOUS
  <1>1. status = "running" /\ ip < Len(data)
    BY DEF Store, Reaches
  <1>2. CASE Stop("error") \/ Stop("panic")
    BY <1>2, StopKeeps
  <1>3. CASE /\ Len(stack) >= 2
             /\ Top(stack, 2)[1].type = "bytes"
             /\ StoreValue(Top(stack, 2)[1], Top(stack, 2)[2])
             /\ Continue(Below(stack, 2))
    <2>1. stack \in Seq(Value) /\ Len(stack) \in Nat /\ Len(stack) <= Depth
      BY DEF Inv, StackInv
    <2>2. 2 \in 0 .. Len(stack)
      BY <1>3, <2>1
    <2>3. Top(stack, 2) \in Seq(Value) /\ Len(Top(stack, 2)) = 2
      BY <2>1, <2>2, Parts
    <2>4. PICK key \in Value : key = Top(stack, 2)[1]
      BY <2>3
    <2>5. PICK v \in Value : v = Top(stack, 2)[2]
      BY <2>3
    <2>6. key.val \in Seq(Byte)
      BY <1>3, <2>4, KeyIsBytes
    <2>7. StateInv'
      <3>1. contractState' = Updated(contractState, key.val, v)
        BY <1>3, <2>4, <2>5 DEF StoreValue
      <3> QED BY <2>6, <3>1 DEF Updated, Inv, StateInv
    <2>8. Below(stack, 2) \in Seq(Value) /\ Len(Below(stack, 2)) <= Depth
      BY <2>1, <2>2, Parts, DepthAssumption
    <2>9. ProgramInv' /\ StackInv'
      BY <1>1, <1>3, <2>8, ContinueKeeps DEF Inv
    <2> QED BY <2>7, <2>9 DEF Inv
  <1> QED BY <1>2, <1>3 DEF Store

LEMMA GetKeeps == Inv /\ Get => Inv'
  <1> SUFFICES ASSUME Inv, Get PROVE Inv'
    OBVIOUS
  <1>1. status = "running" /\ ip < Len(data)
    BY DEF Get, Reaches
  <1>2. CASE Stop("error") \/ Stop("panic")
    BY <1>2, StopKeeps
  <1>3. CASE /\ stack # <<>>
             /\ Last(stack).val \in DOMAIN contractState
             /\ Push(Front(stack), contractState[Last(stack).val])
    <2>1. stack \in Seq(Value) /\ Len(stack) <= Depth
      BY DEF Inv, StackInv
    <2>2. /\ Front(stack) \in Seq(Value)
          /\ Len(Front(stack)) = Len(stack) - 1 /\ Len(stack) \in Nat \ {0}
      BY <1>3, <2>1, LastAndFront
    <2>3. Len(Front(stack)) <= Depth
      BY <2>1, <2>2, DepthAssumption
    <2>4. contractState[Last(stack).val] \in Value
      BY <1>3 DEF Inv, StateInv
    <2> QED BY <1>1, <1>3, <2>2, <2>3, <2>4, PushKeeps
  <1> QED BY <1>2, <1>3 DEF Get

-----------------------------------------------------------------------------
LEMMA InvInit == Init => Inv
  <1> SUFFICES ASSUME Init PROVE Inv
    OBVIOUS
  <1>1. data = <<>> /\ Len(data) = 0 /\ data \in Seq(Byte) /\ ip = 0
    BY DEF Init
  <1>2. stack = <<>> /\ stack \in Seq(Value) /\ Len(stack) = 0
    BY DEF Init
  <1>3. DOMAIN contractState = {}
    BY DEF Init
  <1> QED BY <1>1, <1>2, <1>3, DepthAssumption DEF Init, Inv, ProgramInv, StackInv, StateInv

LEMMA InvNext == Inv /\ [Next]_vars => Inv'
  <1> SUFFICES ASSUME Inv, [Next]_vars PROVE Inv'
    OBVIOUS
  <1>1. CASE RunEmpty
    BY <1>1, StopKeeps DEF RunEmpty
  <1>2. CASE PushInt
    <2>1. ip > 0 => Int_(Operand) \in Value
      <3>1. ip > 0 => Operand \in MinInt .. MaxInt
        BY OperandIsByte, Fits DEF Inv
      <3> QED BY <3>1, IntValue
    <2> QED BY <1>2, <2>1, PushLiteralKeeps DEF PushInt
  <1>3. CASE AddInt
    BY <1>3, AddIntKeeps
  <1>4. CASE PushBytes
    <2>1. ip > 0 => Byte_(Operand) \in Value
      BY OperandIsByte, ByteValue DEF Inv
    <2> QED BY <1>4, <2>1, PushLiteralKeeps DEF PushBytes
  <1>5. CASE Pack
    BY <1>5, PackKeeps
  <1>6. CASE Store
    BY <1>6, StoreKeeps
  <1>7. CASE Get
    BY <1>7, GetKeeps
  <1>8. CASE Skip
    <2>1. status = "running" /\ ip < Len(data) /\ Continue(stack) /\ UNCHANGED contractState
      BY <1>8 DEF Skip, Reaches
    <2>2. ProgramInv' /\ StackInv'
      BY <2>1, ContinueKeeps DEF Inv, StackInv
    <2> QED BY <2>1, <2>2 DEF Inv, StateInv
  <1>9. ASSUME NEW src \in Source, NewVM(src) PROVE Inv'
    <2>1. Compile(src) \in Seq(Byte)
      BY CompileType
    <2>2. data' \in Seq(Byte) /\ ip' \in 0 .. Len(data') /\ status' = "running"
      BY <1>9, <2>1 DEF NewVM, Start
    <2>3. stack' \in Seq(Value) /\ Len(stack') = 0
      BY <1>9 DEF NewVM, Start
    <2>4. runs' \in 0 .. MaxRuns
      BY <1>9, DepthAssumption DEF NewVM, Inv, ProgramInv
    <2>5. UNCHANGED contractState
      BY <1>9 DEF NewVM
    <2> QED BY <2>2, <2>3, <2>4, <2>5, DepthAssumption DEF Inv, ProgramInv, StackInv, StateInv
  <1>10. CASE UNCHANGED vars
    BY <1>10 DEF vars, Inv, ProgramInv, StackInv, StateInv
  <1> QED BY <1>1, <1>2, <1>3, <1>4, <1>5, <1>6, <1>7, <1>8, <1>9, <1>10 DEF Next, Exec

LEMMA Invariance == Spec => []Inv
  <1> QED BY InvInit, InvNext, PTL DEF Spec

(* In every state a program of bytes can reach, whatever its bytes are, the
   stack stays within its array, its slots and the contract state hold values
   of the three types, and the keys are bytes. *)
THEOREM TypeCorrect == Spec => []TypeOK
  <1> QED BY Invariance, InvIsTypeOK, PTL

(* A Pack that goes on leaves the packed bytes on top of the stack, for every
   depth: the dropped error of its push never occurs. *)
THEOREM PackHasRoom == Spec => PackNeverDrops
  <1>1. Inv /\ [Next]_vars
          => [Pack /\ ip' # ip => stack' # <<>> /\ Last(stack').type = "bytes"]_vars
    BY PackKeeps
  <1> QED BY <1>1, Invariance, PTL DEF Spec, PackNeverDrops

-----------------------------------------------------------------------------
(***************************************************************************)
(* What Sums and Meanings compute: their recursive definitions define a    *)
(* function, which then satisfies the equation it was defined by.          *)
(***************************************************************************)
Adding(ints, f, n) == f = [i \in 0 .. n |-> IF i = 0 THEN 0 ELSE f[i - 1] + ints[i]]

LEMMA SumsExist ==
    ASSUME NEW ints, NEW n \in Nat
    PROVE  \E f : Adding(ints, f, n)
  <1> DEFINE Bad == {k \in Nat : ~\E f : Adding(ints, f, k)}
  <1>1. SUFFICES ASSUME Bad # {} PROVE FALSE
    OBVIOUS
  <1>2. PICK m \in Bad : \A j \in Bad : m <= j
    BY <1>1, LeastElement
  <1>3. m # 0
    <2> DEFINE z == [i \in 0 .. 0 |-> 0]
    <2>1. z = [i \in 0 .. 0 |-> IF i = 0 THEN 0 ELSE z[i - 1] + ints[i]]
      <3>1. \A i \in 0 .. 0 : i = 0
        OBVIOUS
      <3> QED BY <3>1
    <2> HIDE DEF z
    <2>2. Adding(ints, z, 0)
      BY <2>1 DEF Adding
    <2> QED BY <2>2
  <1>4. m - 1 \in Nat /\ m - 1 \notin Bad
    BY <1>2, <1>3
  <1>5. PICK f : Adding(ints, f, m - 1)
    BY <1>4
  <1> DEFINE g == [i \in 0 .. m |-> IF i = 0 THEN 0 ELSE f[i - 1] + ints[i]]
  <1>6. ASSUME NEW i \in 0 .. m - 1 PROVE g[i] = f[i]
    <2>1. i \in 0 .. m
      BY <1>4
    <2>2. f[i] = IF i = 0 THEN 0 ELSE f[i - 1] + ints[i]
      BY <1>5 DEF Adding
    <2> QED BY <2>1, <2>2
  <1>7. ASSUME NEW i \in 0 .. m PROVE g[i] = IF i = 0 THEN 0 ELSE g[i - 1] + ints[i]
    <2>1. i # 0 => i - 1 \in 0 .. m - 1
      OBVIOUS
    <2>2. i # 0 => g[i - 1] = f[i - 1]
      BY <2>1, <1>6
    <2>3. g[i] = IF i = 0 THEN 0 ELSE f[i - 1] + ints[i]
      OBVIOUS
    <2> HIDE DEF g
    <2> QED BY <2>2, <2>3
  <1>8. g = [i \in 0 .. m |-> g[i]]
    OBVIOUS
  <1> HIDE DEF g
  <1>9. Adding(ints, g, m)
    BY <1>7, <1>8 DEF Adding
  <1> QED BY <1>9, <1>2

LEMMA SumsDef ==
    ASSUME NEW ints \in Seq(Byte)
    PROVE  /\ Sums(ints)[0] = 0
           /\ \A i \in 1 .. Len(ints) : Sums(ints)[i] = Sums(ints)[i - 1] + ints[i]
           /\ \A i \in 0 .. Len(ints) : Sums(ints)[i] \in Nat
  <1> DEFINE n == Len(ints)
             f == CHOOSE g : Adding(ints, g, n)
  <1>1. n \in Nat
    OBVIOUS
  <1>2. Sums(ints) = f
    BY DEF Sums, Adding
  <1>3. Adding(ints, f, n)
    BY <1>1, SumsExist
  <1> HIDE DEF f
  <1>4. \A i \in 0 .. n : f[i] = IF i = 0 THEN 0 ELSE f[i - 1] + ints[i]
    BY <1>3 DEF Adding
  <1>5. f[0] = 0 /\ \A i \in 1 .. n : f[i] = f[i - 1] + ints[i]
    BY <1>4
  <1>6. \A i \in 0 .. n : f[i] \in Nat
    <2> DEFINE Bad == {i \in 0 .. n : f[i] \notin Nat}
    <2>1. SUFFICES ASSUME Bad # {} PROVE FALSE
      OBVIOUS
    <2>9. Bad \in SUBSET Nat
      OBVIOUS
    <2>2. PICK m \in Bad : \A j \in Bad : m <= j
      BY <2>1, <2>9, LeastElement
    <2>3. m # 0 /\ m - 1 \in 0 .. n /\ m - 1 \notin Bad
      BY <2>2, <1>5
    <2>4. ints[m] \in Byte
      BY <2>2, <2>3
    <2>5. f[m - 1] \in Nat /\ m \in 1 .. n
      BY <2>2, <2>3
    <2>6. f[m] = f[m - 1] + ints[m]
      BY <2>5, <1>5
    <2>7. f[m] \in Nat
      <3>1. ints[m] \in Nat
        BY <2>4, ByteIsNat
      <3> HIDE DEF Bad
      <3> QED BY <3>1, <2>5, <2>6
    <2> QED BY <2>7, <2>2
  <1> QED BY <1>2, <1>5, <1>6

Valuing(src, state, f, n) ==
    f = [i \in 0 .. n |-> IF i = 0 THEN [ok |-> TRUE, state |-> state, out |-> <<>>]
                                   ELSE MeaningOf(f[i - 1], src[i])]

LEMMA MeaningsExist ==
    ASSUME NEW src, NEW state, NEW n \in Nat
    PROVE  \E f : Valuing(src, state, f, n)
  <1> DEFINE Bad == {k \in Nat : ~\E f : Valuing(src, state, f, k)}
             Start0 == [ok |-> TRUE, state |-> state, out |-> <<>>]
  <1>1. SUFFICES ASSUME Bad # {} PROVE FALSE
    OBVIOUS
  <1>2. PICK m \in Bad : \A j \in Bad : m <= j
    BY <1>1, LeastElement
  <1>3. m # 0
    <2> DEFINE z == [i \in 0 .. 0 |-> Start0]
    <2>1. z = [i \in 0 .. 0 |-> IF i = 0 THEN Start0 ELSE MeaningOf(z[i - 1], src[i])]
      <3>1. \A i \in 0 .. 0 : i = 0
        OBVIOUS
      <3> HIDE DEF Start0
      <3> QED BY <3>1
    <2> HIDE DEF z
    <2>2. Valuing(src, state, z, 0)
      BY <2>1 DEF Valuing
    <2> QED BY <2>2
  <1>4. m - 1 \in Nat /\ m - 1 \notin Bad
    BY <1>2, <1>3
  <1>5. PICK f : Valuing(src, state, f, m - 1)
    BY <1>4
  <1> DEFINE g == [i \in 0 .. m |-> IF i = 0 THEN Start0 ELSE MeaningOf(f[i - 1], src[i])]
  <1>6. ASSUME NEW i \in 0 .. m - 1 PROVE g[i] = f[i]
    <2>1. i \in 0 .. m
      BY <1>4
    <2>2. f[i] = IF i = 0 THEN Start0 ELSE MeaningOf(f[i - 1], src[i])
      BY <1>5 DEF Valuing
    <2> HIDE DEF Start0
    <2> QED BY <2>1, <2>2
  <1>7. ASSUME NEW i \in 0 .. m
        PROVE  g[i] = IF i = 0 THEN Start0 ELSE MeaningOf(g[i - 1], src[i])
    <2>1. i # 0 => i - 1 \in 0 .. m - 1
      OBVIOUS
    <2>2. i # 0 => g[i - 1] = f[i - 1]
      BY <2>1, <1>6
    <2>3. g[i] = IF i = 0 THEN Start0 ELSE MeaningOf(f[i - 1], src[i])
      OBVIOUS
    <2> HIDE DEF g
    <2> QED BY <2>2, <2>3
  <1>8. g = [i \in 0 .. m |-> g[i]]
    OBVIOUS
  <1> HIDE DEF g
  <1>9. g = [i \in 0 .. m |-> IF i = 0 THEN Start0 ELSE MeaningOf(g[i - 1], src[i])]
    <2> HIDE DEF Start0
    <2> QED BY <1>7, <1>8
  <1>10. Valuing(src, state, g, m)
    BY <1>9 DEF Valuing
  <1> QED BY <1>10, <1>2

LEMMA MeaningsDef ==
    ASSUME NEW src, NEW state, Len(src) \in Nat
    PROVE  /\ Meanings(src, state)[0] = [ok |-> TRUE, state |-> state, out |-> <<>>]
           /\ \A i \in 1 .. Len(src) :
                 Meanings(src, state)[i] = MeaningOf(Meanings(src, state)[i - 1], src[i])
  <1> DEFINE n == Len(src)
             f == CHOOSE g : Valuing(src, state, g, n)
             Start0 == [ok |-> TRUE, state |-> state, out |-> <<>>]
  <1>1. Meanings(src, state) = f
    BY DEF Meanings, Valuing
  <1>2. Valuing(src, state, f, n)
    BY MeaningsExist
  <1> HIDE DEF f
  <1>3. f = [i \in 0 .. n |-> IF i = 0 THEN Start0 ELSE MeaningOf(f[i - 1], src[i])]
    BY <1>2 DEF Valuing
  <1> HIDE DEF Start0
  <1>4. \A i \in 0 .. n : f[i] = IF i = 0 THEN Start0 ELSE MeaningOf(f[i - 1], src[i])
    BY <1>3
  <1>5. f[0] = Start0 /\ \A i \in 1 .. n : f[i] = MeaningOf(f[i - 1], src[i])
    BY <1>4
  <1> QED BY <1>1, <1>5 DEF Start0

(***************************************************************************)
(* The bytes of a statement.                                               *)
(***************************************************************************)
LEMMA Concat ==
    ASSUME NEW S, NEW s \in Seq(S), NEW u \in Seq(S)
    PROVE  /\ s \o u \in Seq(S)
           /\ Len(s \o u) = Len(s) + Len(u)
           /\ \A x \in 1 .. Len(s) : (s \o u)[x] = s[x]
           /\ \A x \in 1 .. Len(u) : (s \o u)[Len(s) + x] = u[x]
  <1> PICK k \in Nat, l \in Nat : k = Len(s) /\ l = Len(u)
    OBVIOUS
  <1>1. s \o u \in Seq(S) /\ Len(s \o u) = k + l
    BY ConcatProperties
  <1>2. \A x \in 1 .. k + l : (s \o u)[x] = IF x <= k THEN s[x] ELSE u[x - k]
    BY ConcatProperties
  <1>3. ASSUME NEW x \in 1 .. l PROVE (s \o u)[k + x] = u[x]
    <2>1. k + x \in 1 .. k + l /\ ~(k + x <= k) /\ (k + x) - k = x
      OBVIOUS
    <2> QED BY <2>1, <1>2
  <1> QED BY <1>1, <1>2, <1>3

PushAt(p, s, inst, k) ==
    /\ Len(p) = 2 * k
    /\ \A i \in 1 .. k : p[2 * i - 1] = s[i] /\ p[2 * i] = inst

LEMMA PushAllParts ==
    ASSUME NEW s \in Seq(Byte), NEW inst \in Byte, NEW k \in Nat, Len(s) = k
    PROVE  PushAt(PushAll(s, inst), s, inst, k)
  <1> DEFINE ss == [i \in 1 .. k |-> <<s[i], inst>>]
             p == PushAll(s, inst)
  <1>1. ss \in Seq(Seq(Byte)) /\ Len(ss) = k
    <2>1. \A i \in 1 .. k : s[i] \in Byte
      OBVIOUS
    <2>2. \A i \in 1 .. k : <<s[i], inst>> \in Seq(Byte)
      BY <2>1
    <2>3. ss \in [1 .. k -> Seq(Byte)]
      BY <2>2
    <2>4. Len(ss) = k
      OBVIOUS
    <2> HIDE DEF ss
    <2> QED BY <2>3, <2>4, FunctionIsSeq
  <1>2. \A i \in 1 .. k : /\ Len(ss[i]) = 2
                          /\ ss[i][1] = s[i]
                          /\ ss[i][2] = inst
    OBVIOUS
  <1>3. p = FlattenSeq(ss)
    BY DEF PushAll
  <1> HIDE DEF ss, p
  <1>4. PICK o : Layout(ss, o, p)
    BY <1>1, <1>3, FlattenLayout
  <1>5. /\ o \in [0 .. k -> Nat] /\ o[0] = 0 /\ o[k] = Len(p)
        /\ \A i \in 1 .. k : o[i] = o[i - 1] + 2
        /\ \A i \in 1 .. k : p[o[i - 1] + 1] = s[i] /\ p[o[i - 1] + 2] = inst
    <2>1. /\ o \in [0 .. k -> Nat] /\ o[0] = 0 /\ o[k] = Len(p)
          /\ \A i \in 1 .. k : o[i] = o[i - 1] + Len(ss[i])
          /\ \A i \in 1 .. k : \A r \in 1 .. Len(ss[i]) : p[o[i - 1] + r] = ss[i][r]
      BY <1>1, <1>4 DEF Layout
    <2>2. ASSUME NEW i \in 1 .. k PROVE p[o[i - 1] + 1] = s[i] /\ p[o[i - 1] + 2] = inst
      <3>1. 1 \in 1 .. Len(ss[i]) /\ 2 \in 1 .. Len(ss[i])
        BY <1>2
      <3>2. \A r \in 1 .. Len(ss[i]) : p[o[i - 1] + r] = ss[i][r]
        BY <2>1
      <3>3. p[o[i - 1] + 1] = ss[i][1] /\ p[o[i - 1] + 2] = ss[i][2]
        BY <3>1, <3>2
      <3>4. ss[i][1] = s[i] /\ ss[i][2] = inst
        BY <1>2
      <3> QED BY <3>3, <3>4
    <2>3. ASSUME NEW i \in 1 .. k PROVE o[i] = o[i - 1] + 2
      <3>1. o[i] = o[i - 1] + Len(ss[i]) /\ Len(ss[i]) = 2
        BY <2>1, <1>2
      <3> QED BY <3>1
    <2> QED BY <2>1, <2>2, <2>3
  <1>6. \A i \in 0 .. k : o[i] = 2 * i
    <2> DEFINE Bad == {i \in 0 .. k : o[i] # 2 * i}
    <2>1. SUFFICES ASSUME Bad # {} PROVE FALSE
      OBVIOUS
    <2>2. Bad \in SUBSET Nat
      OBVIOUS
    <2>3. PICK m \in Bad : \A j \in Bad : m <= j
      BY <2>1, <2>2, LeastElement
    <2>4. m \in 1 .. k
      BY <2>3, <1>5
    <2>5. m - 1 \in 0 .. k /\ m - 1 \notin Bad
      BY <2>3, <2>4
    <2>6. o[m - 1] = 2 * (m - 1) /\ o[m] = o[m - 1] + 2
      BY <2>4, <2>5, <1>5
    <2>7. o[m] = 2 * m
      BY <2>4, <2>6
    <2> QED BY <2>3, <2>7
  <1>7. ASSUME NEW i \in 1 .. k PROVE p[2 * i - 1] = s[i] /\ p[2 * i] = inst
    <2>1. o[i - 1] = 2 * (i - 1)
      BY <1>6
    <2>2. o[i - 1] + 1 = 2 * i - 1 /\ o[i - 1] + 2 = 2 * i
      BY <2>1
    <2> QED BY <2>2, <1>5
  <1>8. Len(p) = 2 * k
    BY <1>5, <1>6
  <1> QED BY <1>7, <1>8 DEF p, PushAt

LEMMA KeyParts ==
    ASSUME NEW key \in Seq(Byte), Len(key) \in Byte, NEW k \in Nat, Len(key) = k
    PROVE  /\ KeyCode(key) \in Seq(Byte)
           /\ Len(KeyCode(key)) = 2 * k + 3
           /\ \A i \in 1 .. k : /\ KeyCode(key)[2 * i - 1] = key[i]
                                /\ KeyCode(key)[2 * i] = InstructionPushBytes
           /\ KeyCode(key)[2 * k + 1] = k
           /\ KeyCode(key)[2 * k + 2] = InstructionPushInt
           /\ KeyCode(key)[2 * k + 3] = InstructionPack
  <1> DEFINE p == PushAll(key, InstructionPushBytes)
             u == <<k, InstructionPushInt, InstructionPack>>
  <1>1. InstructionPushBytes \in Byte /\ InstructionPushInt \in Byte /\ InstructionPack \in Byte
    BY DEF InstructionPushBytes, InstructionPushInt, InstructionPack, Byte
  <1>2. /\ p \in Seq(Byte) /\ Len(p) = 2 * k
        /\ \A i \in 1 .. k : p[2 * i - 1] = key[i] /\ p[2 * i] = InstructionPushBytes
    <2>1. p \in Seq(Byte)
      BY <1>1, PushAllType
    <2>2. /\ Len(p) = 2 * k
          /\ \A i \in 1 .. k : p[2 * i - 1] = key[i] /\ p[2 * i] = InstructionPushBytes
      <3>1. PushAt(p, key, InstructionPushBytes, k)
        <4> HIDE DEF p
        <4>1. p = PushAll(key, InstructionPushBytes)
          BY DEF p
        <4> QED BY <1>1, <4>1, PushAllParts
      <3> HIDE DEF p
      <3> QED BY <3>1 DEF PushAt
    <2> QED BY <2>1, <2>2
  <1>3. /\ u \in Seq(Byte) /\ Len(u) = 3
        /\ u[1] = k /\ u[2] = InstructionPushInt /\ u[3] = InstructionPack
    BY <1>1
  <1>4. KeyCode(key) = p \o u
    BY DEF KeyCode
  <1>5. PICK d \in Nat : d = 2 * k
    OBVIOUS
  <1> HIDE DEF p, u
  <1>6. /\ p \o u \in Seq(Byte)
        /\ Len(p \o u) = 2 * k + 3
        /\ \A x \in 1 .. 2 * k : (p \o u)[x] = p[x]
        /\ \A x \in 1 .. 3 : (p \o u)[2 * k + x] = u[x]
    <2>1. Len(p) = d
      BY <1>2, <1>5
    <2>2. /\ p \o u \in Seq(Byte)
          /\ Len(p \o u) = d + 3
          /\ \A x \in 1 .. d : (p \o u)[x] = p[x]
          /\ \A x \in 1 .. 3 : (p \o u)[d + x] = u[x]
      <3>1. PICK s \in Seq(Byte), v \in Seq(Byte) : s = p /\ v = u /\ Len(s) = d /\ Len(v) = 3
        BY <1>2, <1>3, <2>1
      <3>2. /\ s \o v \in Seq(Byte)
            /\ Len(s \o v) = Len(s) + Len(v)
            /\ \A x \in 1 .. Len(s) : (s \o v)[x] = s[x]
            /\ \A x \in 1 .. Len(v) : (s \o v)[Len(s) + x] = v[x]
        BY Concat
      <3> QED BY <3>1, <3>2
    <2> QED BY <2>2, <1>5
  <1>7. \A i \in 1 .. k : 2 * i - 1 \in 1 .. 2 * k /\ 2 * i \in 1 .. 2 * k
    OBVIOUS
  <1>8. /\ (p \o u)[2 * k + 1] = k
        /\ (p \o u)[2 * k + 2] = InstructionPushInt
        /\ (p \o u)[2 * k + 3] = InstructionPack
    <2>1. 1 \in 1 .. 3 /\ 2 \in 1 .. 3 /\ 3 \in 1 .. 3
      OBVIOUS
    <2> QED BY <2>1, <1>3, <1>6
  <1>9. ASSUME NEW i \in 1 .. k
        PROVE  (p \o u)[2 * i - 1] = key[i] /\ (p \o u)[2 * i] = InstructionPushBytes
    BY <1>2, <1>6, <1>7
  <1> QED BY <1>4, <1>6, <1>8, <1>9

LEMMA SumParts ==
    ASSUME NEW ints \in Seq(Byte), NEW l \in Nat \ {0}, Len(ints) = l
    PROVE  /\ SumCode(ints) \in Seq(Byte)
           /\ Len(SumCode(ints)) = 3 * l - 1
           /\ \A i \in 1 .. l : /\ SumCode(ints)[2 * i - 1] = ints[i]
                                /\ SumCode(ints)[2 * i] = InstructionPushInt
           /\ \A a \in 1 .. l - 1 : SumCode(ints)[2 * l + a] = InstructionAddInt
  <1> DEFINE p == PushAll(ints, InstructionPushInt)
             u == [i \in 1 .. l - 1 |-> InstructionAddInt]
  <1>1. InstructionPushInt \in Byte /\ InstructionAddInt \in Byte
    BY DEF InstructionPushInt, InstructionAddInt, Byte
  <1>2. /\ p \in Seq(Byte) /\ Len(p) = 2 * l
        /\ \A i \in 1 .. l : p[2 * i - 1] = ints[i] /\ p[2 * i] = InstructionPushInt
    <2>1. p \in Seq(Byte)
      BY <1>1, PushAllType
    <2>2. /\ Len(p) = 2 * l
          /\ \A i \in 1 .. l : p[2 * i - 1] = ints[i] /\ p[2 * i] = InstructionPushInt
      <3>1. l \in Nat
        OBVIOUS
      <3>2. PushAt(p, ints, InstructionPushInt, l)
        <4> HIDE DEF p
        <4>1. p = PushAll(ints, InstructionPushInt)
          BY DEF p
        <4> QED BY <1>1, <3>1, <4>1, PushAllParts
      <3> HIDE DEF p
      <3> QED BY <3>2 DEF PushAt
    <2> QED BY <2>1, <2>2
  <1>3. PICK n \in Nat : n = l - 1
    OBVIOUS
  <1>4. u \in [1 .. n -> Byte] /\ \A x \in 1 .. n : u[x] = InstructionAddInt
    BY <1>1, <1>3
  <1>5. u \in Seq(Byte) /\ Len(u) = n
    <2> HIDE DEF u
    <2> QED BY <1>4, FunctionIsSeq
  <1>6. SumCode(ints) = p \o u
    BY DEF SumCode
  <1>7. PICK d \in Nat : d = 2 * l
    OBVIOUS
  <1> HIDE DEF p, u
  <1>8. /\ p \o u \in Seq(Byte)
        /\ Len(p \o u) = 2 * l + n
        /\ \A x \in 1 .. 2 * l : (p \o u)[x] = p[x]
        /\ \A x \in 1 .. n : (p \o u)[2 * l + x] = u[x]
    <2>1. Len(p) = d
      BY <1>2, <1>7
    <2>2. /\ p \o u \in Seq(Byte)
          /\ Len(p \o u) = d + n
          /\ \A x \in 1 .. d : (p \o u)[x] = p[x]
          /\ \A x \in 1 .. n : (p \o u)[d + x] = u[x]
      <3>1. PICK s \in Seq(Byte), v \in Seq(Byte) : s = p /\ v = u /\ Len(s) = d /\ Len(v) = n
        BY <1>2, <1>5, <2>1
      <3>2. /\ s \o v \in Seq(Byte)
            /\ Len(s \o v) = Len(s) + Len(v)
            /\ \A x \in 1 .. Len(s) : (s \o v)[x] = s[x]
            /\ \A x \in 1 .. Len(v) : (s \o v)[Len(s) + x] = v[x]
        BY Concat
      <3> QED BY <3>1, <3>2
    <2> QED BY <2>2, <1>7
  <1>9. \A i \in 1 .. l : 2 * i - 1 \in 1 .. 2 * l /\ 2 * i \in 1 .. 2 * l
    OBVIOUS
  <1>10. 2 * l + n = 3 * l - 1
    BY <1>3
  <1>11. Len(SumCode(ints)) = 3 * l - 1
    BY <1>6, <1>8, <1>10
  <1>12. \A a \in 1 .. l - 1 : (p \o u)[2 * l + a] = InstructionAddInt
    BY <1>3, <1>4, <1>8
  <1> QED BY <1>2, <1>6, <1>8, <1>9, <1>11, <1>12

LEMMA Single ==
    ASSUME NEW b \in Byte
    PROVE  <<b>> \in Seq(Byte) /\ Len(<<b>>) = 1 /\ <<b>>[1] = b
  OBVIOUS

(* What is asked of a statement, and the bytes of each kind of statement. *)
IsStatement(s) ==
    /\ s.op \in {"set", "get", "code"}
    /\ s.key \in Seq(Byte) /\ Len(s.key) \in Byte
    /\ s.ints \in Seq(Byte)
    /\ s.op = "set" => s.ints # <<>> /\ SumOf(s.ints) <= MaxInt

KeyAt(c, key, k) ==
    /\ \A i \in 1 .. k : c[2 * i - 1] = key[i] /\ c[2 * i] = InstructionPushBytes
    /\ c[2 * k + 1] = k
    /\ c[2 * k + 2] = InstructionPushInt
    /\ c[2 * k + 3] = InstructionPack

KeyAndRest(c, key, k, u) ==
    /\ c \in Seq(Byte)
    /\ Len(c) = 2 * k + 3 + Len(u)
    /\ KeyAt(c, key, k)
    /\ \A x \in 1 .. Len(u) : c[2 * k + 3 + x] = u[x]

LEMMA KeyThen ==
    ASSUME NEW key \in Seq(Byte), Len(key) \in Byte, NEW k \in Nat, Len(key) = k,
           NEW u \in Seq(Byte)
    PROVE  KeyAndRest(KeyCode(key) \o u, key, k, u)
  <1>1. PICK p \in Seq(Byte) :
           /\ p = KeyCode(key) /\ Len(p) = 2 * k + 3
           /\ \A i \in 1 .. k : p[2 * i - 1] = key[i] /\ p[2 * i] = InstructionPushBytes
           /\ p[2 * k + 1] = k
           /\ p[2 * k + 2] = InstructionPushInt
           /\ p[2 * k + 3] = InstructionPack
    BY KeyParts
  <1>2. /\ p \o u \in Seq(Byte)
        /\ Len(p \o u) = Len(p) + Len(u)
        /\ \A x \in 1 .. Len(p) : (p \o u)[x] = p[x]
        /\ \A x \in 1 .. Len(u) : (p \o u)[Len(p) + x] = u[x]
    BY Concat
  <1>3. /\ \A i \in 1 .. k : 2 * i - 1 \in 1 .. 2 * k + 3 /\ 2 * i \in 1 .. 2 * k + 3
        /\ 2 * k + 1 \in 1 .. 2 * k + 3
        /\ 2 * k + 2 \in 1 .. 2 * k + 3
        /\ 2 * k + 3 \in 1 .. 2 * k + 3
    OBVIOUS
  <1>4. \A x \in 1 .. 2 * k + 3 : (p \o u)[x] = p[x]
    BY <1>1, <1>2
  <1>5. \A i \in 1 .. k : (p \o u)[2 * i - 1] = key[i] /\ (p \o u)[2 * i] = InstructionPushBytes
    BY <1>1, <1>3, <1>4
  <1>6. /\ (p \o u)[2 * k + 1] = k
        /\ (p \o u)[2 * k + 2] = InstructionPushInt
        /\ (p \o u)[2 * k + 3] = InstructionPack
    BY <1>1, <1>3, <1>4
  <1>7. KeyAt(p \o u, key, k)
    BY <1>5, <1>6 DEF KeyAt
  <1> QED BY <1>1, <1>2, <1>7 DEF KeyAndRest

SetAt(c, ints, k, l) ==
    /\ \A i \in 1 .. l : /\ c[2 * k + 2 + 2 * i] = ints[i]
                         /\ c[2 * k + 3 + 2 * i] = InstructionPushInt
    /\ \A a \in 1 .. l - 1 : c[2 * k + 3 + 2 * l + a] = InstructionAddInt
    /\ c[2 * k + 3 + 3 * l] = InstructionStore

LEMMA SetParts ==
    ASSUME NEW s, IsStatement(s), s.op = "set",
           NEW k \in Nat, NEW l \in Nat \ {0}, Len(s.key) = k, Len(s.ints) = l
    PROVE  /\ Statement(s) \in Seq(Byte)
           /\ Len(Statement(s)) = 2 * k + 3 + 3 * l
           /\ KeyAt(Statement(s), s.key, k)
           /\ SetAt(Statement(s), s.ints, k, l)
  <1>1. PICK key \in Seq(Byte) : key = s.key /\ Len(key) = k /\ Len(key) \in Byte
    BY DEF IsStatement
  <1>2. PICK ints \in Seq(Byte) : ints = s.ints /\ Len(ints) = l
    BY DEF IsStatement
  <1>3. PICK u \in Seq(Byte) :
           /\ u = SumCode(ints) /\ Len(u) = 3 * l - 1
           /\ \A i \in 1 .. l : u[2 * i - 1] = ints[i] /\ u[2 * i] = InstructionPushInt
           /\ \A a \in 1 .. l - 1 : u[2 * l + a] = InstructionAddInt
    BY <1>2, SumParts
  <1>4. PICK q \in Seq(Byte) :
           /\ q = KeyCode(key) \o u
           /\ Len(q) = 2 * k + 3 + Len(u)
           /\ KeyAt(q, key, k)
           /\ \A x \in 1 .. Len(u) : q[2 * k + 3 + x] = u[x]
    <2>1. KeyAndRest(KeyCode(key) \o u, key, k, u)
      BY <1>1, KeyThen
    <2> QED BY <2>1 DEF KeyAndRest
  <1>5. PICK w \in Seq(Byte) : w = <<InstructionStore>> /\ Len(w) = 1 /\ w[1] = InstructionStore
    <2>1. InstructionStore \in Byte
      BY DEF InstructionStore, Byte
    <2> QED BY <2>1, Single
  <1>6. Statement(s) = q \o w
    BY <1>1, <1>2, <1>3, <1>4, <1>5 DEF Statement
  <1>7. /\ q \o w \in Seq(Byte)
        /\ Len(q \o w) = Len(q) + Len(w)
        /\ \A x \in 1 .. Len(q) : (q \o w)[x] = q[x]
        /\ \A x \in 1 .. Len(w) : (q \o w)[Len(q) + x] = w[x]
    BY Concat
  <1>8. PICK n \in Nat : n = Len(q) /\ n = 2 * k + 2 + 3 * l
    BY <1>3, <1>4
  <1>9. \A x \in 1 .. n : (q \o w)[x] = q[x]
    BY <1>7, <1>8
  <1>10. Len(q \o w) = 2 * k + 3 + 3 * l
    BY <1>5, <1>7, <1>8
  <1>11. (q \o w)[2 * k + 3 + 3 * l] = InstructionStore
    <2>1. 1 \in 1 .. Len(w) /\ Len(q) + 1 = 2 * k + 3 + 3 * l
      BY <1>5, <1>8
    <2> QED BY <2>1, <1>5, <1>7
  <1>12. KeyAt(q \o w, key, k)
    <2>1. /\ \A i \in 1 .. k : 2 * i - 1 \in 1 .. n /\ 2 * i \in 1 .. n
          /\ 2 * k + 1 \in 1 .. n
          /\ 2 * k + 2 \in 1 .. n
          /\ 2 * k + 3 \in 1 .. n
      BY <1>8
    <2>2. \A i \in 1 .. k : /\ (q \o w)[2 * i - 1] = key[i]
                            /\ (q \o w)[2 * i] = InstructionPushBytes
      BY <1>4, <1>9, <2>1 DEF KeyAt
    <2> QED BY <1>4, <1>9, <2>1, <2>2 DEF KeyAt
  <1>13. ASSUME NEW i \in 1 .. l
         PROVE  /\ (q \o w)[2 * k + 2 + 2 * i] = ints[i]
                /\ (q \o w)[2 * k + 3 + 2 * i] = InstructionPushInt
    <2>1. /\ 2 * i - 1 \in 1 .. Len(u) /\ 2 * k + 3 + (2 * i - 1) = 2 * k + 2 + 2 * i
          /\ 2 * i \in 1 .. Len(u)
          /\ 2 * k + 2 + 2 * i \in 1 .. n /\ 2 * k + 3 + 2 * i \in 1 .. n
      BY <1>3, <1>8
    <2>2. q[2 * k + 2 + 2 * i] = u[2 * i - 1] /\ q[2 * k + 3 + 2 * i] = u[2 * i]
      BY <1>4, <2>1
    <2> QED BY <1>3, <1>9, <2>1, <2>2
  <1>14. ASSUME NEW a \in 1 .. l - 1
         PROVE  (q \o w)[2 * k + 3 + 2 * l + a] = InstructionAddInt
    <2>1. /\ 2 * l + a \in 1 .. Len(u) /\ 2 * k + 3 + (2 * l + a) = 2 * k + 3 + 2 * l + a
          /\ 2 * k + 3 + 2 * l + a \in 1 .. n
      BY <1>3, <1>8
    <2>2. q[2 * k + 3 + 2 * l + a] = u[2 * l + a]
      BY <1>4, <2>1
    <2> QED BY <1>3, <1>9, <2>1, <2>2
  <1>15. SetAt(q \o w, ints, k, l)
    BY <1>11, <1>13, <1>14 DEF SetAt
  <1> QED BY <1>1, <1>2, <1>6, <1>7, <1>10, <1>12, <1>15

LEMMA GetParts ==
    ASSUME NEW s, IsStatement(s), s.op = "get", NEW k \in Nat, Len(s.key) = k
    PROVE  /\ Statement(s) \in Seq(Byte)
           /\ Len(Statement(s)) = 2 * k + 4
           /\ KeyAt(Statement(s), s.key, k)
           /\ Statement(s)[2 * k + 4] = InstructionGet
  <1>1. PICK key \in Seq(Byte) : key = s.key /\ Len(key) = k /\ Len(key) \in Byte
    BY DEF IsStatement
  <1>2. PICK w \in Seq(Byte) : w = <<InstructionGet>> /\ Len(w) = 1 /\ w[1] = InstructionGet
    <2>1. InstructionGet \in Byte
      BY DEF InstructionGet, Byte
    <2> QED BY <2>1, Single
  <1>3. Statement(s) = KeyCode(key) \o w
    BY <1>1, <1>2 DEF Statement
  <1>4. PICK q \in Seq(Byte) :
           /\ q = KeyCode(key) \o w
           /\ Len(q) = 2 * k + 3 + Len(w)
           /\ KeyAt(q, key, k)
           /\ \A x \in 1 .. Len(w) : q[2 * k + 3 + x] = w[x]
    <2>1. KeyAndRest(KeyCode(key) \o w, key, k, w)
      BY <1>1, KeyThen
    <2> QED BY <2>1 DEF KeyAndRest
  <1>5. Len(q) = 2 * k + 4
    BY <1>2, <1>4
  <1>6. q[2 * k + 4] = InstructionGet
    <2>1. 1 \in 1 .. Len(w) /\ 2 * k + 3 + 1 = 2 * k + 4
      BY <1>2
    <2> QED BY <2>1, <1>2, <1>4
  <1> QED BY <1>1, <1>3, <1>4, <1>5, <1>6

(***************************************************************************)
(* What the machine does at a byte: one action is possible, and its        *)
(* outcome follows from what is on top of the stack.                       *)
(***************************************************************************)
LEMMA Dispatch ==
    ASSUME Exec, NEW b, data[ip + 1] = b
    PROVE  /\ status = "running" /\ ip < Len(data)
           /\ b = InstructionPushInt => PushInt
           /\ b = InstructionAddInt => AddInt
           /\ b = InstructionPushBytes => PushBytes
           /\ b = InstructionPack => Pack
           /\ b = InstructionStore => Store
           /\ b = InstructionGet => Get
           /\ b \notin Instructions => Skip
  <1>1. PushInt => b = 10 /\ status = "running" /\ ip < Len(data)
    BY DEF PushInt, PushLiteral, Reaches, InstructionPushInt
  <1>2. AddInt => b = 11 /\ status = "running" /\ ip < Len(data)
    BY DEF AddInt, Reaches, InstructionAddInt
  <1>3. PushBytes => b = 12 /\ status = "running" /\ ip < Len(data)
    BY DEF PushBytes, PushLiteral, Reaches, InstructionPushBytes
  <1>4. Pack => b = 13 /\ status = "running" /\ ip < Len(data)
    BY DEF Pack, Reaches, InstructionPack
  <1>5. Store => b = 15 /\ status = "running" /\ ip < Len(data)
    BY DEF Store, Reaches, InstructionStore
  <1>6. Get => b = 16 /\ status = "running" /\ ip < Len(data)
    BY DEF Get, Reaches, InstructionGet
  <1>7. Skip => b \notin Instructions /\ status = "running" /\ ip < Len(data)
    BY DEF Skip, Reaches
  <1>8. Instructions = {10, 11, 12, 13, 15, 16}
    BY DEF Instructions, InstructionPushInt, InstructionAddInt, InstructionPushBytes,
           InstructionPack, InstructionStore, InstructionGet
  <1>9. PushInt \/ AddInt \/ PushBytes \/ Pack \/ Store \/ Get \/ Skip
    BY DEF Exec
  <1> QED BY <1>1, <1>2, <1>3, <1>4, <1>5, <1>6, <1>7, <1>8, <1>9
          DEF InstructionPushInt, InstructionAddInt, InstructionPushBytes,
              InstructionPack, InstructionStore, InstructionGet

Goes == ip' = ip + 1 /\ status' = IF ip + 1 >= Len(data) THEN "nil" ELSE "running"

Moves(st) == Goes /\ stack' = st

Fails == status' = "error" /\ contractState' = contractState

LEMMA SkipMoves ==
    ASSUME Skip
    PROVE  Moves(stack) /\ contractState' = contractState
  BY DEF Skip, Continue, Moves, Goes

LEMMA PushMoves ==
    ASSUME NEW st, NEW v, Push(st, v)
    PROVE  \/ Len(st) = Depth /\ Fails
           \/ Len(st) # Depth /\ Moves(Append(st, v)) /\ contractState' = contractState
  BY DEF Push, Full, Stop, Continue, Moves, Goes, Fails

LEMMA PushIntMoves ==
    ASSUME ProgramInv, ip > 0, PushInt, NEW n, data[ip] = n
    PROVE  \/ Len(stack) = Depth /\ Fails
           \/ /\ Len(stack) # Depth
              /\ Moves(Append(stack, Int_(n))) /\ contractState' = contractState
  <1>1. Push(stack, Int_(n))
    BY DEF PushInt, PushLiteral, Operand, ProgramInv
  <1> QED BY <1>1, PushMoves

LEMMA PushBytesMoves ==
    ASSUME ProgramInv, ip > 0, PushBytes, NEW b, data[ip] = b
    PROVE  \/ Len(stack) = Depth /\ Fails
           \/ /\ Len(stack) # Depth
              /\ Moves(Append(stack, Byte_(b))) /\ contractState' = contractState
  <1>1. Push(stack, Byte_(b))
    BY DEF PushBytes, PushLiteral, Operand, ProgramInv
  <1> QED BY <1>1, PushMoves

LEMMA SlotParts ==
    ASSUME NEW v
    PROVE  /\ Int_(v).type = "int" /\ Int_(v).val[1] = v
           /\ Byte_(v).type = "byte" /\ Byte_(v).val[1] = v
           /\ Bytes_(v).type = "bytes" /\ Bytes_(v).val = v
  BY DEF Int_, Byte_, Bytes_

(* The stack: `out' with n slots above it. *)
Above(st, out, n) ==
    /\ st \in Seq(Value)
    /\ Len(st) = Len(out) + n
    /\ \A x \in 1 .. Len(out) : st[x] = out[x]

LEMMA AboveZero ==
    ASSUME NEW out \in Seq(Value), NEW st, Above(st, out, 0)
    PROVE  st = out
  <1>1. PICK n \in Nat : n = Len(out)
    OBVIOUS
  <1>2. st \in Seq(Value) /\ Len(st) = n /\ \A x \in 1 .. n : st[x] = out[x]
    BY <1>1 DEF Above
  <1> QED BY <1>1, <1>2

Pushed(t, st, out, n, v) ==
    /\ Above(t, out, n + 1)
    /\ \A x \in 1 .. n : t[Len(out) + x] = st[Len(out) + x]
    /\ t[Len(out) + n + 1] = v

LEMMA AboveAppend ==
    ASSUME NEW out \in Seq(Value), NEW n \in Nat, NEW st, Above(st, out, n), NEW v \in Value
    PROVE  Pushed(Append(st, v), st, out, n, v)
  <1>1. PICK l \in Nat : l = Len(out)
    OBVIOUS
  <1>2. st \in Seq(Value) /\ Len(st) = l + n /\ \A x \in 1 .. l : st[x] = out[x]
    BY <1>1 DEF Above
  <1>3. PICK t \in Seq(Value) : t = Append(st, v)
    <2>1. Append(st, v) \in Seq(Value)
      BY <1>2, AppendProperties
    <2> QED BY <2>1
  <1>4. /\ Len(t) = l + n + 1 /\ t[l + n + 1] = v
        /\ \A x \in 1 .. l + n : t[x] = st[x]
    BY <1>2, <1>3
  <1>5. \A x \in 1 .. l : t[x] = out[x]
    BY <1>2, <1>4
  <1>6. \A x \in 1 .. n : t[l + x] = st[l + x]
    BY <1>4
  <1>7. Above(t, out, n + 1)
    BY <1>1, <1>4, <1>5 DEF Above
  <1> QED BY <1>1, <1>3, <1>4, <1>6, <1>7 DEF Pushed

Popped(t, u, st, out, n, d) ==
    /\ Above(t, out, n - d)
    /\ \A x \in 1 .. n - d : t[Len(out) + x] = st[Len(out) + x]
    /\ \A x \in 1 .. d : u[x] = st[Len(out) + n - d + x]

LEMMA AboveBelow ==
    ASSUME NEW out \in Seq(Value), NEW n \in Nat, NEW st, Above(st, out, n), NEW d \in 0 .. n
    PROVE  Popped(Below(st, d), Top(st, d), st, out, n, d)
  <1>1. PICK l \in Nat : l = Len(out)
    OBVIOUS
  <1>2. st \in Seq(Value) /\ Len(st) = l + n /\ \A x \in 1 .. l : st[x] = out[x]
    BY <1>1 DEF Above
  <1>3. PICK e \in Nat : e = n - d
    OBVIOUS
  <1>4. PICK t \in Seq(Value) :
           t = Below(st, d) /\ Len(t) = l + e /\ \A x \in 1 .. l + e : t[x] = st[x]
    <2>1. \A x \in 1 .. l + e : st[x] \in Value
      BY <1>2, <1>3
    <2>2. PICK h \in Nat : h = l + e
      OBVIOUS
    <2>3. Below(st, d) = SubSeq(st, 1, h)
      BY <1>2, <1>3, <2>2 DEF Below
    <2>4. /\ SubSeq(st, 1, h) \in Seq(Value)
          /\ Len(SubSeq(st, 1, h)) = h
          /\ \A x \in 1 .. h : SubSeq(st, 1, h)[x] = st[x]
      BY <2>1, <2>2, SubSeqProperties
    <2> QED BY <2>2, <2>3, <2>4
  <1>5. \A x \in 1 .. l : t[x] = out[x]
    BY <1>2, <1>4
  <1>6. \A x \in 1 .. e : t[l + x] = st[l + x]
    BY <1>4
  <1>7. Above(t, out, e)
    BY <1>1, <1>4, <1>5 DEF Above
  <1>8. d \in 0 .. Len(st)
    BY <1>2
  <1>9. ASSUME NEW x \in 1 .. d PROVE Top(st, d)[x] = st[l + n - d + x]
    <2>1. Top(st, d)[x] = st[Len(st) - d + x]
      BY <1>2, <1>8, Parts
    <2>2. Len(st) - d + x = l + n - d + x
      BY <1>2
    <2> QED BY <2>1, <2>2
  <1> QED BY <1>1, <1>3, <1>4, <1>6, <1>7, <1>9 DEF Popped

(***************************************************************************)
(* Where Run is in a statement, r bytes behind its beginning, and what it  *)
(* has put on the stack `out' since: the bytes of the key, their length,   *)
(* the packed key, the ints, and the sum of the last of them.              *)
(***************************************************************************)
KeysOn(st, out, key, i) == \A x \in 1 .. i : st[Len(out) + x] = Byte_(key[x])

IntsOn(st, out, ints, i) == \A x \in 1 .. i : st[Len(out) + 1 + x] = Int_(ints[x])

InCode(s, r, out) == s.op = "code" /\ stack = out

InKey(s, r, out) ==
    /\ s.op \in {"set", "get"}
    /\ \E i \in 0 .. Len(s.key) :
          /\ r \in {2 * i, 2 * i + 1}
          /\ Above(stack, out, i)
          /\ KeysOn(stack, out, s.key, i)

AtPack(s, r, out) ==
    /\ s.op \in {"set", "get"}
    /\ r = 2 * Len(s.key) + 2
    /\ Above(stack, out, Len(s.key) + 1)
    /\ KeysOn(stack, out, s.key, Len(s.key))
    /\ stack[Len(out) + Len(s.key) + 1] = Int_(Len(s.key))

KeyRoom(s, out) == Len(out) + Len(s.key) + 1 <= Depth

InInts(s, r, out) ==
    /\ s.op = "set" /\ KeyRoom(s, out)
    /\ \E i \in 0 .. Len(s.ints) - 1 :
          /\ r \in {2 * Len(s.key) + 3 + 2 * i, 2 * Len(s.key) + 4 + 2 * i}
          /\ Above(stack, out, i + 1)
          /\ stack[Len(out) + 1] = Bytes_(s.key)
          /\ IntsOn(stack, out, s.ints, i)

InAdds(s, r, out) ==
    /\ s.op = "set" /\ KeyRoom(s, out) /\ Len(out) + Len(s.ints) + 1 <= Depth
    /\ \E i \in 1 .. Len(s.ints) :
          /\ r = 2 * Len(s.key) + 3 + 3 * Len(s.ints) - i
          /\ Above(stack, out, i + 1)
          /\ stack[Len(out) + 1] = Bytes_(s.key)
          /\ IntsOn(stack, out, s.ints, i - 1)
          /\ stack[Len(out) + 1 + i] = Int_(SumOf(s.ints) - Sums(s.ints)[i - 1])

AtGet(s, r, out) ==
    /\ s.op = "get" /\ KeyRoom(s, out)
    /\ r = 2 * Len(s.key) + 3
    /\ Above(stack, out, 1)
    /\ stack[Len(out) + 1] = Bytes_(s.key)

(* The byte Run is at, and the one before it. *)
Site(s, r, out) ==
    /\ IsStatement(s) /\ Inert(s)
    /\ r \in Nat
    /\ data[ip + 1] = Statement(s)[r + 1]
    /\ r > 0 => ip > 0 /\ data[ip] = Statement(s)[r]
    /\ out \in Seq(Value)
    /\ Inv

LEMMA InertBytes ==
    ASSUME NEW s, IsStatement(s), Inert(s)
    PROVE  /\ \A x \in 1 .. Len(s.key) : s.key[x] \notin Instructions
           /\ Len(s.key) \notin Instructions
           /\ s.op = "set" => \A x \in 1 .. Len(s.ints) : s.ints[x] \notin Instructions
  <1>1. \A x \in 1 .. Len(s.key) : s.key[x] \in Elements(s.key)
    BY DEF IsStatement, Elements
  <1>2. \A x \in 1 .. Len(s.ints) : s.ints[x] \in Elements(s.ints)
    BY DEF IsStatement, Elements
  <1>3. /\ Elements(s.key) \intersect Instructions = {}
        /\ Len(s.key) \notin Instructions
        /\ s.op = "set" => Elements(s.ints) \intersect Instructions = {}
    BY DEF Inert
  <1> QED BY <1>1, <1>2, <1>3

LEMMA CodePhase ==
    ASSUME NEW s, NEW r, NEW out, Site(s, r, out), Exec,
           InCode(s, r, out), r < Len(Statement(s))
    PROVE  Moves(out) /\ contractState' = contractState
  <1>1. Statement(s) = s.key
    BY DEF InCode, Statement
  <1>2. r + 1 \in 1 .. Len(s.key)
    BY <1>1 DEF Site, IsStatement
  <1>3. s.key[r + 1] \notin Instructions
    BY <1>2, InertBytes DEF Site
  <1>4. Skip
    BY <1>1, <1>3, Dispatch DEF Site
  <1> QED BY <1>4, SkipMoves DEF InCode

LEMMA KeyStatement ==
    ASSUME NEW s, IsStatement(s), s.op \in {"set", "get"}
    PROVE  KeyAt(Statement(s), s.key, Len(s.key)) /\ Len(s.key) \in Nat
  <1>1. PICK k \in Nat : k = Len(s.key)
    BY DEF IsStatement
  <1>2. CASE s.op = "get"
    BY <1>1, <1>2, GetParts
  <1>3. CASE s.op = "set"
    <2>1. PICK l \in Nat \ {0} : l = Len(s.ints)
      BY <1>3 DEF IsStatement
    <2> QED BY <1>1, <1>3, <2>1, SetParts
  <1> QED BY <1>2, <1>3

LEMMA KeyPhase ==
    ASSUME NEW s, NEW r, NEW out, Site(s, r, out), Exec, InKey(s, r, out)
    PROVE  \/ /\ Goes /\ contractState' = contractState
              /\ InKey(s, r + 1, out)' \/ AtPack(s, r + 1, out)'
           \/ Fails /\ Len(out) + Len(s.key) >= Depth
  <1>1. PICK k \in Nat, key \in Seq(Byte) :
           k = Len(s.key) /\ key = s.key /\ KeyAt(Statement(s), key, k)
    BY KeyStatement DEF Site, IsStatement, InKey
  <1>2. PICK i \in 0 .. k :
           /\ r \in {2 * i, 2 * i + 1}
           /\ Above(stack, out, i)
           /\ KeysOn(stack, out, key, i)
    BY <1>1 DEF InKey
  <1>3. out \in Seq(Value) /\ ProgramInv /\ s.op \in {"set", "get"}
    BY DEF Site, Inv, InKey
  <1>4. PICK n \in Nat : n = Len(out)
    BY <1>3
  <1>5. stack \in Seq(Value) /\ Len(stack) = n + i
    BY <1>2, <1>4 DEF Above
  <1>6. CASE r = 2 * i
    <2>1. Statement(s)[r + 1] \notin Instructions
      <3>1. CASE i < k
        <4>1. i + 1 \in 1 .. k /\ 2 * (i + 1) - 1 = r + 1
          BY <1>6, <3>1
        <4>2. Statement(s)[r + 1] = key[i + 1]
          BY <1>1, <4>1 DEF KeyAt
        <4> QED BY <1>1, <4>1, <4>2, InertBytes DEF Site
      <3>2. CASE i = k
        <4>1. Statement(s)[r + 1] = k
          BY <1>1, <1>6, <3>2 DEF KeyAt
        <4> QED BY <1>1, <4>1, InertBytes DEF Site
      <3>3. i < k \/ i = k
        OBVIOUS
      <3> QED BY <3>1, <3>2, <3>3
    <2>2. Skip
      BY <2>1, Dispatch DEF Site
    <2>3. Goes /\ stack' = stack /\ contractState' = contractState
      BY <2>2, SkipMoves DEF Moves
    <2>4. r + 1 = 2 * i + 1
      BY <1>6
    <2>5. InKey(s, r + 1, out)'
      BY <1>1, <1>2, <1>3, <2>3, <2>4 DEF InKey
    <2> QED BY <2>3, <2>5
  <1>7. CASE r = 2 * i + 1 /\ i < k
    <2>1. i + 1 \in 1 .. k /\ 2 * (i + 1) - 1 = r /\ 2 * (i + 1) = r + 1 /\ r > 0
      BY <1>7
    <2>2. Statement(s)[r] = key[i + 1] /\ Statement(s)[r + 1] = InstructionPushBytes
      BY <1>1, <2>1 DEF KeyAt
    <2>3. PushBytes /\ ip > 0 /\ data[ip] = key[i + 1]
      BY <2>1, <2>2, Dispatch DEF Site
    <2>4. CASE Len(stack) = Depth /\ Fails
      BY <2>4, <1>1, <1>4, <1>5, <1>7
    <2>5. CASE /\ Moves(Append(stack, Byte_(key[i + 1])))
               /\ contractState' = contractState
      <3>1. Byte_(key[i + 1]) \in Value
        <4>1. key[i + 1] \in Byte
          BY <2>1, <1>1
        <4> QED BY <4>1, ByteValue
      <3>2. PICK st : st = Append(stack, Byte_(key[i + 1]))
        OBVIOUS
      <3>3. /\ Above(st, out, i + 1)
            /\ \A x \in 1 .. i : st[n + x] = stack[n + x]
            /\ st[n + i + 1] = Byte_(key[i + 1])
        <4>1. i \in Nat
          OBVIOUS
        <4>2. Pushed(st, stack, out, i, Byte_(key[i + 1]))
          BY <4>1, <1>2, <1>3, <3>1, <3>2, AboveAppend
        <4> QED BY <4>2, <1>4 DEF Pushed
      <3>4. KeysOn(st, out, key, i + 1)
        <4>1. ASSUME NEW x \in 1 .. i + 1 PROVE st[n + x] = Byte_(key[x])
          <5>1. CASE x = i + 1
            <6>1. n + x = n + i + 1
              BY <5>1
            <6> QED BY <5>1, <6>1, <3>3
          <5>2. CASE x \in 1 .. i
            BY <5>2, <1>2, <1>4, <3>3 DEF KeysOn
          <5> QED BY <5>1, <5>2
        <4> QED BY <4>1, <1>4 DEF KeysOn
      <3>5. Goes /\ stack' = st
        BY <2>5, <3>2 DEF Moves
      <3>6. InKey(s, r + 1, out)'
        BY <1>1, <1>3, <2>1, <3>3, <3>4, <3>5 DEF InKey
      <3> QED BY <2>5, <3>5, <3>6
    <2> QED BY <1>3, <2>3, <2>4, <2>5, PushBytesMoves
  <1>8. CASE r = 2 * i + 1 /\ i = k
    <2>1. Statement(s)[r] = k /\ Statement(s)[r + 1] = InstructionPushInt /\ r > 0
      <3>1. r = 2 * k + 1 /\ r + 1 = 2 * k + 2
        BY <1>8
      <3> QED BY <1>1, <3>1 DEF KeyAt
    <2>2. PushInt /\ ip > 0 /\ data[ip] = k
      BY <2>1, Dispatch DEF Site
    <2>3. CASE Len(stack) = Depth /\ Fails
      BY <2>3, <1>1, <1>4, <1>5, <1>8
    <2>4. CASE /\ Moves(Append(stack, Int_(k)))
               /\ contractState' = contractState
      <3>1. Int_(k) \in Value
        <4>1. k \in Byte
          BY <1>1 DEF Site, IsStatement
        <4> QED BY <4>1, Fits, IntValue
      <3>2. PICK st : st = Append(stack, Int_(k))
        OBVIOUS
      <3>3. /\ Above(st, out, k + 1)
            /\ \A x \in 1 .. k : st[n + x] = stack[n + x]
            /\ st[n + k + 1] = Int_(k)
        <4>1. Above(stack, out, k)
          BY <1>2, <1>8
        <4>2. Pushed(st, stack, out, k, Int_(k))
          BY <4>1, <1>3, <3>1, <3>2, AboveAppend
        <4> QED BY <4>2, <1>4 DEF Pushed
      <3>4. KeysOn(st, out, key, k)
        BY <1>2, <1>4, <1>8, <3>3 DEF KeysOn
      <3>5. Goes /\ stack' = st
        BY <2>4, <3>2 DEF Moves
      <3>6. r + 1 = 2 * k + 2
        BY <1>8
      <3>7. AtPack(s, r + 1, out)'
        BY <1>1, <1>3, <1>4, <3>3, <3>4, <3>5, <3>6 DEF AtPack
      <3> QED BY <2>4, <3>5, <3>7
    <2> QED BY <1>3, <2>2, <2>3, <2>4, PushIntMoves
  <1>9. i < k \/ i = k
    OBVIOUS
  <1> QED BY <1>2, <1>6, <1>7, <1>8, <1>9

LEMMA PackPhase ==
    ASSUME NEW s, NEW r, NEW out, Site(s, r, out), Exec, AtPack(s, r, out)
    PROVE  /\ Goes /\ contractState' = contractState
           /\ InInts(s, r + 1, out)' \/ AtGet(s, r + 1, out)'
  <1>1. PICK k \in Nat, key \in Seq(Byte) :
           k = Len(s.key) /\ key = s.key /\ KeyAt(Statement(s), key, k)
    BY KeyStatement DEF Site, IsStatement, AtPack
  <1>2. PICK n \in Nat : out \in Seq(Value) /\ n = Len(out)
    BY DEF Site
  <1>3. /\ s.op \in {"set", "get"} /\ r = 2 * k + 2
        /\ Above(stack, out, k + 1)
        /\ \A x \in 1 .. k : stack[n + x] = Byte_(key[x])
        /\ stack[n + k + 1] = Int_(k)
    BY <1>1, <1>2 DEF AtPack, KeysOn
  <1>4. stack \in Seq(Value) /\ Len(stack) = n + k + 1 /\ n + k + 1 <= Depth
    BY <1>2, <1>3 DEF Above, Site, Inv, StackInv
  <1>5. Pack
    <2>1. Statement(s)[r + 1] = InstructionPack
      <3>1. r + 1 = 2 * k + 3
        BY <1>3
      <3> QED BY <1>1, <3>1 DEF KeyAt
    <2> QED BY <2>1, Dispatch DEF Site
  <1>6. Last(stack) = Int_(k) /\ Last(stack).type = "int" /\ Last(stack).val[1] = k
    BY <1>3, <1>4 DEF Last, Int_
  <1>7. PICK st : st = Front(stack)
    OBVIOUS
  <1>8. PackBytes(st, k)
    <2>1. stack # <<>>
      BY <1>4
    <2> QED BY <1>5, <1>6, <1>7, <2>1 DEF Pack
  <1>9. /\ st \in Seq(Value) /\ Above(st, out, k) /\ Len(st) = n + k
        /\ \A x \in 1 .. k : st[n + x] = Byte_(key[x])
    <2>1. Popped(st, Top(stack, 1), stack, out, k + 1, 1)
      <3>1. st = Below(stack, 1)
        BY <1>7 DEF Front, Below
      <3> QED BY <3>1, <1>2, <1>3, AboveBelow
    <2>2. (k + 1) - 1 = k
      OBVIOUS
    <2>3. Above(st, out, k) /\ \A x \in 1 .. k : st[n + x] = stack[n + x]
      BY <2>1, <2>2, <1>2 DEF Popped
    <2> QED BY <2>3, <1>2, <1>3 DEF Above
  <1>10. \A i \in DOMAIN st : Len(st) - i < k => st[i].type = "byte"
    <2>1. SUFFICES ASSUME NEW i \in DOMAIN st, Len(st) - i < k PROVE st[i].type = "byte"
      OBVIOUS
    <2>2. PICK x \in 1 .. k : i = n + x
      <3>1. i \in 1 .. n + k /\ n + k - i < k
        BY <1>9, <2>1
      <3>2. i - n \in 1 .. k /\ i = n + (i - n)
        BY <3>1
      <3> QED BY <3>2
    <2>3. st[i] = Byte_(key[x])
      BY <2>2, <1>9
    <2> QED BY <2>3, SlotParts
  <1> DEFINE bs == [i \in 1 .. k |-> Top(st, k)[i].val[1]]
  <1>11. PushUnchecked(Below(st, k), Bytes_(bs)) /\ contractState' = contractState
    <2>1. ~(Len(st) < k)
      BY <1>9
    <2>2. k \in 0 .. MaxLen
      BY <1>1, Fits DEF Site, IsStatement
    <2> QED BY <1>8, <1>10, <2>1, <2>2 DEF PackBytes
  <1>12. Popped(Below(st, k), Top(st, k), st, out, k, k)
    <2>1. k \in 0 .. k
      OBVIOUS
    <2> QED BY <2>1, <1>2, <1>9, AboveBelow
  <1>13. bs = key
    <2>1. \A x \in 1 .. k : Top(st, k)[x] = Byte_(key[x])
      <3>1. \A x \in 1 .. k : Top(st, k)[x] = st[n + k - k + x]
        BY <1>2, <1>12 DEF Popped
      <3>2. \A x \in 1 .. k : n + k - k + x = n + x
        OBVIOUS
      <3> QED BY <3>1, <3>2, <1>9
    <2>2. ASSUME NEW x \in 1 .. k PROVE bs[x] = key[x]
      <3>1. bs[x] = Top(st, k)[x].val[1]
        OBVIOUS
      <3>2. Top(st, k)[x] = Byte_(key[x])
        BY <2>1
      <3> HIDE DEF bs
      <3> QED BY <3>1, <3>2, SlotParts
    <2>3. bs = [x \in 1 .. k |-> key[x]]
      BY <2>2
    <2>4. key = [x \in 1 .. k |-> key[x]]
      BY <1>1
    <2> QED BY <2>3, <2>4
  <1>14. Above(Below(st, k), out, 0)
    BY <1>12 DEF Popped
  <1>15. Len(Below(st, k)) = n
    BY <1>2, <1>14 DEF Above
  <1>16. Goes /\ stack' = Append(Below(st, k), Bytes_(key))
    <2>1. ~Full(Below(st, k))
      BY <1>4, <1>15, DepthAssumption DEF Full
    <2>2. PushUnchecked(Below(st, k), Bytes_(key))
      <3> HIDE DEF bs
      <3> QED BY <1>11, <1>13
    <2> QED BY <2>1, <2>2 DEF PushUnchecked, Continue, Goes
  <1>17. Pushed(Append(Below(st, k), Bytes_(key)), Below(st, k), out, 0, Bytes_(key))
    <2>1. Bytes_(key) \in Value
      BY BytesValue
    <2> QED BY <2>1, <1>2, <1>14, AboveAppend
  <1>18. Above(stack, out, 1)' /\ stack'[n + 1] = Bytes_(key)
    <2>1. 0 + 1 = 1 /\ n + 0 + 1 = n + 1
      OBVIOUS
    <2>2. /\ Above(Append(Below(st, k), Bytes_(key)), out, 1)
          /\ Append(Below(st, k), Bytes_(key))[n + 1] = Bytes_(key)
      BY <1>2, <1>17, <2>1 DEF Pushed
    <2> QED BY <1>16, <2>2
  <1>19. KeyRoom(s, out) /\ r + 1 = 2 * k + 3
    BY <1>1, <1>2, <1>3, <1>4 DEF KeyRoom
  <1>20. CASE s.op = "get"
    <2>1. AtGet(s, r + 1, out)'
      BY <1>1, <1>2, <1>18, <1>19, <1>20 DEF AtGet
    <2> QED BY <2>1, <1>11, <1>16
  <1>21. CASE s.op = "set"
    <2>1. PICK l \in Nat \ {0} : l = Len(s.ints)
      BY <1>21 DEF Site, IsStatement
    <2>2. 0 \in 0 .. l - 1 /\ 2 * k + 3 + 2 * 0 = 2 * k + 3 /\ 0 + 1 = 1
      BY <2>1
    <2>3. IntsOn(stack, out, s.ints, 0)'
      BY DEF IntsOn
    <2>4. InInts(s, r + 1, out)'
      BY <1>1, <1>2, <1>18, <1>19, <1>21, <2>1, <2>2, <2>3 DEF InInts
    <2> QED BY <2>4, <1>11, <1>16
  <1> QED BY <1>3, <1>20, <1>21

LEMMA IntPhase ==
    ASSUME NEW s, NEW r, NEW out, Site(s, r, out), Exec, InInts(s, r, out)
    PROVE  \/ /\ Goes /\ contractState' = contractState
              /\ InInts(s, r + 1, out)' \/ InAdds(s, r + 1, out)'
           \/ Fails /\ Len(out) + Len(s.ints) >= Depth
  <1>1. PICK k \in Nat, key \in Seq(Byte) : k = Len(s.key) /\ key = s.key
    BY DEF Site, IsStatement
  <1>2. PICK l \in Nat \ {0}, ints \in Seq(Byte) : l = Len(s.ints) /\ ints = s.ints
    BY DEF Site, IsStatement, InInts
  <1>3. PICK n \in Nat : out \in Seq(Value) /\ n = Len(out)
    BY DEF Site
  <1>4. SetAt(Statement(s), ints, k, l) /\ s.op = "set" /\ KeyRoom(s, out)
    BY <1>1, <1>2, SetParts DEF Site, InInts
  <1>5. PICK i \in 0 .. l - 1 :
           /\ r \in {2 * k + 3 + 2 * i, 2 * k + 4 + 2 * i}
           /\ Above(stack, out, i + 1)
           /\ stack[n + 1] = Bytes_(key)
           /\ IntsOn(stack, out, ints, i)
    BY <1>1, <1>2, <1>3 DEF InInts
  <1>6. stack \in Seq(Value) /\ Len(stack) = n + i + 1 /\ Len(stack) <= Depth /\ ProgramInv
    BY <1>3, <1>5 DEF Above, Site, Inv, StackInv
  <1>7. i + 1 \in 1 .. l /\ i \in Nat
    OBVIOUS
  <1>8. /\ Statement(s)[2 * k + 4 + 2 * i] = ints[i + 1]
        /\ Statement(s)[2 * k + 5 + 2 * i] = InstructionPushInt
    <2>1. /\ 2 * k + 2 + 2 * (i + 1) = 2 * k + 4 + 2 * i
          /\ 2 * k + 3 + 2 * (i + 1) = 2 * k + 5 + 2 * i
      OBVIOUS
    <2>2. /\ Statement(s)[2 * k + 2 + 2 * (i + 1)] = ints[i + 1]
          /\ Statement(s)[2 * k + 3 + 2 * (i + 1)] = InstructionPushInt
      BY <1>4, <1>7 DEF SetAt
    <2> QED BY <2>1, <2>2
  <1>9. CASE r = 2 * k + 3 + 2 * i
    <2>1. r + 1 = 2 * k + 4 + 2 * i
      BY <1>9
    <2>2. ints[i + 1] \notin Instructions
      BY <1>2, <1>4, <1>7, InertBytes DEF Site
    <2>3. Skip
      BY <1>8, <2>1, <2>2, Dispatch DEF Site
    <2>4. Goes /\ stack' = stack /\ contractState' = contractState
      BY <2>3, SkipMoves DEF Moves
    <2>5. InInts(s, r + 1, out)'
      BY <1>1, <1>2, <1>3, <1>4, <1>5, <2>1, <2>4 DEF InInts
    <2> QED BY <2>4, <2>5
  <1>10. CASE r = 2 * k + 4 + 2 * i
    <2>1. r + 1 = 2 * k + 5 + 2 * i /\ r > 0
      BY <1>10
    <2>2. PushInt /\ ip > 0 /\ data[ip] = ints[i + 1]
      BY <1>8, <1>10, <2>1, Dispatch DEF Site
    <2>3. CASE Len(stack) = Depth /\ Fails
      BY <2>3, <1>2, <1>3, <1>6
    <2>4. CASE /\ Len(stack) # Depth
               /\ Moves(Append(stack, Int_(ints[i + 1])))
               /\ contractState' = contractState
      <3>1. PICK b \in Nat : b = ints[i + 1] /\ Int_(b) \in Value
        <4>1. ints[i + 1] \in Byte
          BY <1>2, <1>7
        <4>2. ints[i + 1] \in Nat /\ ints[i + 1] \in MinInt .. MaxInt
          BY <4>1, ByteIsNat, Fits
        <4> QED BY <4>2, IntValue
      <3>2. PICK st : st = Append(stack, Int_(b))
        OBVIOUS
      <3>3. Pushed(st, stack, out, i + 1, Int_(b))
        <4>1. i + 1 \in Nat
          OBVIOUS
        <4> QED BY <4>1, <1>3, <1>5, <3>1, <3>2, AboveAppend
      <3>4. /\ Above(st, out, i + 2)
            /\ \A x \in 1 .. i + 1 : st[n + x] = stack[n + x]
            /\ st[n + i + 2] = Int_(b)
        <4>1. i + 1 + 1 = i + 2 /\ n + (i + 1) + 1 = n + i + 2
          OBVIOUS
        <4> QED BY <3>3, <4>1, <1>3 DEF Pushed
      <3>5. Goes /\ stack' = st
        BY <2>4, <3>1, <3>2 DEF Moves
      <3>6. st[n + 1] = Bytes_(key)
        BY <1>5, <1>7, <3>4
      <3>7. IntsOn(st, out, ints, i)
        <4>1. ASSUME NEW x \in 1 .. i PROVE st[n + 1 + x] = Int_(ints[x])
          <5>1. x + 1 \in 1 .. i + 1 /\ n + 1 + x = n + (x + 1)
            OBVIOUS
          <5>2. st[n + 1 + x] = stack[n + 1 + x]
            BY <5>1, <3>4
          <5>3. stack[n + 1 + x] = Int_(ints[x])
            BY <1>3, <1>5 DEF IntsOn
          <5> QED BY <5>2, <5>3
        <4> QED BY <4>1, <1>3 DEF IntsOn
      <3>8. CASE i + 1 < l
        <4>1. /\ i + 1 \in 0 .. l - 1 /\ r + 1 = 2 * k + 3 + 2 * (i + 1)
              /\ (i + 1) + 1 = i + 2
          BY <2>1, <3>8
        <4>2. IntsOn(st, out, ints, i + 1)
          <5>1. ASSUME NEW x \in 1 .. i + 1 PROVE st[n + 1 + x] = Int_(ints[x])
            <6>1. CASE x = i + 1
              <7>1. n + 1 + x = n + i + 2
                BY <6>1
              <7> QED BY <6>1, <7>1, <3>1, <3>4
            <6>2. CASE x \in 1 .. i
              BY <6>2, <1>3, <3>7 DEF IntsOn
            <6> QED BY <6>1, <6>2
          <5> QED BY <5>1, <1>3 DEF IntsOn
        <4>3. InInts(s, r + 1, out)'
          BY <1>1, <1>2, <1>3, <1>4, <3>4, <3>5, <3>6, <4>1, <4>2 DEF InInts
        <4> QED BY <2>4, <3>5, <4>3
      <3>9. CASE i + 1 = l
        <4>1. /\ r + 1 = 2 * k + 3 + 3 * l - l /\ l \in 1 .. l
              /\ i + 2 = l + 1 /\ n + i + 2 = n + 1 + l /\ i = l - 1
          BY <2>1, <3>9
        <4>2. n + l + 1 <= Depth
          BY <1>6, <2>4, <3>9, DepthAssumption
        <4>3. Int_(b) = Int_(SumOf(ints) - Sums(ints)[l - 1])
          <5>1. Sums(ints)[l] = Sums(ints)[l - 1] + ints[l]
            <6>1. \A x \in 1 .. Len(ints) : Sums(ints)[x] = Sums(ints)[x - 1] + ints[x]
              BY SumsDef
            <6>2. l \in 1 .. Len(ints)
              BY <1>2
            <6> QED BY <6>1, <6>2
          <5>2. l - 1 \in 0 .. l /\ l \in 0 .. l
            OBVIOUS
          <5>3. Sums(ints)[l - 1] \in Nat /\ Sums(ints)[l] \in Nat
            BY <1>2, <5>2, SumsDef
          <5>4. b = Sums(ints)[l] - Sums(ints)[l - 1]
            BY <3>1, <3>9, <5>1, <5>3
          <5> QED BY <5>4, <1>2 DEF SumOf
        <4>4. Above(st, out, l + 1) /\ IntsOn(st, out, ints, l - 1)
          BY <3>4, <3>7, <4>1
        <4>5. st[n + 1 + l] = Int_(SumOf(ints) - Sums(ints)[l - 1])
          BY <3>4, <4>1, <4>3
        <4>6. InAdds(s, r + 1, out)'
          BY <1>1, <1>2, <1>3, <1>4, <3>5, <3>6, <4>1, <4>2, <4>4, <4>5 DEF InAdds
        <4> QED BY <2>4, <3>5, <4>6
      <3> QED BY <1>7, <3>8, <3>9
    <2> QED BY <1>6, <2>2, <2>3, <2>4, PushIntMoves
  <1> QED BY <1>5, <1>9, <1>10

LEMMA AddPhase ==
    ASSUME NEW s, NEW r, NEW out, Site(s, r, out), Exec, InAdds(s, r, out)
    PROVE  \/ /\ Goes /\ contractState' = contractState
              /\ InAdds(s, r + 1, out)'
           \/ /\ Moves(out) /\ r + 1 = Len(Statement(s))
              /\ contractState' = Updated(contractState, s.key, Int_(SumOf(s.ints)))
              /\ Len(out) + Slots(s) <= Depth
  <1>1. PICK k \in Nat, key \in Seq(Byte) : k = Len(s.key) /\ key = s.key
    BY DEF Site, IsStatement
  <1>2. PICK l \in Nat \ {0}, ints \in Seq(Byte) : l = Len(s.ints) /\ ints = s.ints
    <2>1. s.ints \in Seq(Byte) /\ s.ints # <<>>
      BY DEF Site, IsStatement, InAdds
    <2> QED BY <2>1
  <1>3. PICK n \in Nat : out \in Seq(Value) /\ n = Len(out)
    BY DEF Site
  <1>4. /\ SetAt(Statement(s), ints, k, l) /\ s.op = "set" /\ KeyRoom(s, out)
        /\ n + l + 1 <= Depth /\ Len(Statement(s)) = 2 * k + 3 + 3 * l
    BY <1>1, <1>2, <1>3, SetParts DEF Site, InAdds
  <1>5. PICK i \in 1 .. l :
           /\ r = 2 * k + 3 + 3 * l - i
           /\ Above(stack, out, i + 1)
           /\ stack[n + 1] = Bytes_(key)
           /\ IntsOn(stack, out, ints, i - 1)
           /\ stack[n + 1 + i] = Int_(SumOf(ints) - Sums(ints)[i - 1])
    BY <1>1, <1>2, <1>3 DEF InAdds
  <1>6. stack \in Seq(Value) /\ Len(stack) = n + i + 1 /\ Len(stack) <= Depth
    BY <1>3, <1>5 DEF Above, Site, Inv, StackInv
  <1>7. 2 \in 0 .. i + 1 /\ i + 1 \in Nat /\ Len(stack) >= 2
    BY <1>6
  <1>8. Popped(Below(stack, 2), Top(stack, 2), stack, out, i + 1, 2)
    BY <1>3, <1>5, <1>7, AboveBelow
  <1>9. /\ Above(Below(stack, 2), out, i - 1)
        /\ \A x \in 1 .. i - 1 : Below(stack, 2)[n + x] = stack[n + x]
        /\ Top(stack, 2)[1] = stack[n + i]
        /\ Top(stack, 2)[2] = stack[n + 1 + i]
    <2>1. (i + 1) - 2 = i - 1 /\ n + (i + 1) - 2 + 1 = n + i /\ n + (i + 1) - 2 + 2 = n + 1 + i
      OBVIOUS
    <2>2. 1 \in 1 .. 2 /\ 2 \in 1 .. 2
      OBVIOUS
    <2> QED BY <1>3, <1>8, <2>1, <2>2 DEF Popped
  <1>10. Len(Below(stack, 2)) = n + i - 1
    BY <1>3, <1>9 DEF Above
  <1>11. /\ \A x \in 0 .. l : Sums(ints)[x] \in Nat
         /\ \A x \in 1 .. l : Sums(ints)[x] = Sums(ints)[x - 1] + ints[x]
         /\ Sums(ints)[0] = 0
    BY <1>2, SumsDef
  <1>12. PICK total \in Nat : total = SumOf(ints) /\ total <= MaxInt
    <2>1. SumOf(ints) \in Nat
      BY <1>2, <1>11 DEF SumOf
    <2>2. SumOf(ints) <= MaxInt
      BY <1>2, <1>4 DEF Site, IsStatement
    <2> QED BY <2>1, <2>2
  <1>13. CASE i # 1
    <2>1. PICK j \in 1 .. l - 1 : j = i - 1
      BY <1>13
    <2>2. AddInt
      <3>1. l - j \in 1 .. l - 1 /\ 2 * k + 3 + 2 * l + (l - j) = r + 1
        BY <1>5, <2>1
      <3>2. Statement(s)[r + 1] = InstructionAddInt
        BY <1>4, <3>1 DEF SetAt
      <3> QED BY <3>2, Dispatch DEF Site
    <2>3. Top(stack, 2)[1] = Int_(ints[j])
      <3>1. j \in 1 .. i - 1 /\ n + 1 + j = n + i
        BY <2>1
      <3> QED BY <3>1, <1>3, <1>5, <1>9 DEF IntsOn
    <2>4. Top(stack, 2)[2] = Int_(total - Sums(ints)[j])
      BY <1>5, <1>9, <1>12, <2>1
    <2>5. total - Sums(ints)[j] \in MinInt .. MaxInt
      <3>1. n + 1 + i \in 1 .. Len(stack)
        BY <1>6
      <3>2. Int_(total - Sums(ints)[j]) \in Value
        BY <1>6, <1>9, <2>4, <3>1
      <3> QED BY <3>2, IntIsInt, SlotParts
    <2>6. ints[j] \in Nat /\ Sums(ints)[j - 1] \in Nat /\ Sums(ints)[j] \in Nat
      <3>1. ints[j] \in Byte
        BY <1>2
      <3>2. j - 1 \in 0 .. l /\ j \in 0 .. l
        OBVIOUS
      <3> QED BY <1>11, <3>1, <3>2, ByteIsNat
    <2>7. ints[j] + (total - Sums(ints)[j]) = total - Sums(ints)[j - 1]
      <3>1. Sums(ints)[j] = Sums(ints)[j - 1] + ints[j]
        BY <1>11
      <3> QED BY <2>6, <3>1
    <2>8. total - Sums(ints)[j - 1] \in MinInt .. MaxInt
      <3>1. PICK a \in Nat, b \in Nat, d \in Nat :
               a = ints[j] /\ b = Sums(ints)[j - 1] /\ d = Sums(ints)[j]
        BY <2>6
      <3>2. a + (total - d) = total - b /\ total - d \in MinInt .. MaxInt
        BY <2>5, <2>7, <3>1
      <3>3. PICK low \in Int, high \in Nat : low = MinInt /\ high = MaxInt
        BY Fits
      <3>4. total - b >= low
        BY <3>2, <3>3
      <3>5. total - b <= high
        BY <1>12, <3>3
      <3>6. total - b \in MinInt .. MaxInt
        BY <3>3, <3>4, <3>5
      <3> QED BY <3>1, <3>6
    <2>9. PICK v \in Value : v = Int_(total - Sums(ints)[j - 1])
      <3> QED BY <2>8, IntValue
    <2>10. Push(Below(stack, 2), v)
      <3>1. /\ Top(stack, 2)[1].type = "int" /\ Top(stack, 2)[1].val[1] = ints[j]
            /\ Top(stack, 2)[2].type = "int"
            /\ Top(stack, 2)[2].val[1] = total - Sums(ints)[j]
        BY <2>3, <2>4, SlotParts
      <3>2. ~(Len(stack) < 2)
        BY <1>6
      <3>3. Push(Below(stack, 2),
                 Int_(Wrapped(Top(stack, 2)[1].val[1] + Top(stack, 2)[2].val[1])))
        <4>1. \A x \in 1 .. 2 : Top(stack, 2)[x].type = "int"
          <5>1. \A x \in 1 .. 2 : x = 1 \/ x = 2
            OBVIOUS
          <5> QED BY <3>1, <5>1
        <4> QED BY <2>2, <3>2, <4>1 DEF AddInt
      <3>4. Wrapped(ints[j] + (total - Sums(ints)[j])) = total - Sums(ints)[j - 1]
        BY <2>7, <2>8, Fits
      <3> QED BY <2>9, <3>1, <3>3, <3>4
    <2>11. Moves(Append(Below(stack, 2), v)) /\ contractState' = contractState
      <3>1. Len(Below(stack, 2)) # Depth
        BY <1>6, <1>10, DepthAssumption
      <3> QED BY <2>10, <3>1, PushMoves
    <2>12. PICK st : st = Append(Below(stack, 2), v)
      OBVIOUS
    <2>13. Pushed(st, Below(stack, 2), out, j, v)
      BY <1>3, <1>9, <2>1, <2>12, AboveAppend
    <2>14. /\ Above(st, out, j + 1)
           /\ \A x \in 1 .. j : st[n + x] = stack[n + x]
           /\ st[n + 1 + j] = v
      <3>1. n + j + 1 = n + 1 + j
        OBVIOUS
      <3> QED BY <1>3, <1>9, <2>1, <2>13, <3>1 DEF Pushed
    <2>15. IntsOn(st, out, ints, j - 1)
      <3>1. ASSUME NEW x \in 1 .. j - 1 PROVE st[n + 1 + x] = Int_(ints[x])
        <4>1. x + 1 \in 1 .. j /\ n + 1 + x = n + (x + 1) /\ x \in 1 .. i - 1
          BY <2>1
        <4>2. st[n + 1 + x] = stack[n + 1 + x]
          BY <4>1, <2>14
        <4>3. stack[n + 1 + x] = Int_(ints[x])
          BY <4>1, <1>3, <1>5 DEF IntsOn
        <4> QED BY <4>2, <4>3
      <3> QED BY <3>1, <1>3 DEF IntsOn
    <2>16. Goes /\ stack' = st
      BY <2>11, <2>12 DEF Moves
    <2>17. InAdds(s, r + 1, out)'
      <3>1. j \in 1 .. l /\ r + 1 = 2 * k + 3 + 3 * l - j
        BY <1>5, <2>1
      <3>2. st[n + 1] = Bytes_(key)
        BY <1>5, <2>1, <2>14
      <3> QED BY <1>1, <1>2, <1>3, <1>4, <1>12, <2>9, <2>14, <2>15, <2>16, <3>1, <3>2
              DEF InAdds
    <2> QED BY <2>11, <2>16, <2>17
  <1>14. CASE i = 1
    <2>1. r + 1 = 2 * k + 3 + 3 * l
      BY <1>5, <1>14
    <2>2. Store
      <3>1. Statement(s)[r + 1] = InstructionStore
        BY <1>4, <2>1 DEF SetAt
      <3> QED BY <3>1, Dispatch DEF Site
    <2>3. Top(stack, 2)[1] = Bytes_(key)
      BY <1>5, <1>9, <1>14
    <2>4. Top(stack, 2)[2] = Int_(total)
      <3>1. total - Sums(ints)[i - 1] = total
        BY <1>11, <1>14
      <3> QED BY <1>5, <1>9, <1>12, <3>1
    <2>5. Top(stack, 2)[1].type = "bytes" /\ Top(stack, 2)[1].val = key
      BY <2>3, SlotParts
    <2>6. contractState' = Updated(contractState, key, Int_(total)) /\ Continue(Below(stack, 2))
      <3>1. ~(Len(stack) < 2)
        BY <1>6
      <3> QED BY <2>2, <2>4, <2>5, <3>1 DEF Store, StoreValue
    <2>7. Below(stack, 2) = out
      <3>1. i - 1 = 0
        BY <1>14
      <3> QED BY <3>1, <1>3, <1>9, AboveZero
    <2>8. Moves(out)
      BY <2>6, <2>7 DEF Continue, Moves, Goes
    <2>9. Len(out) + Slots(s) <= Depth
      BY <1>1, <1>2, <1>3, <1>4, DepthAssumption DEF Slots, KeyRoom
    <2> QED BY <1>1, <1>2, <1>4, <1>12, <2>1, <2>6, <2>8, <2>9
  <1> QED BY <1>13, <1>14

LEMMA GetPhase ==
    ASSUME NEW s, NEW r, NEW out, Site(s, r, out), Exec, AtGet(s, r, out)
    PROVE  \/ /\ s.key \in DOMAIN contractState
              /\ Moves(Append(out, contractState[s.key])) /\ r + 1 = Len(Statement(s))
              /\ contractState' = contractState
              /\ Len(out) + Slots(s) <= Depth
           \/ s.key \notin DOMAIN contractState /\ Fails
  <1>1. PICK k \in Nat, key \in Seq(Byte) : k = Len(s.key) /\ key = s.key
    BY DEF Site, IsStatement
  <1>2. PICK n \in Nat : out \in Seq(Value) /\ n = Len(out)
    BY DEF Site
  <1>3. /\ s.op = "get" /\ n + k + 1 <= Depth
        /\ r = 2 * k + 3
        /\ Above(stack, out, 1)
        /\ stack[n + 1] = Bytes_(key)
        /\ Len(Statement(s)) = 2 * k + 4
        /\ Statement(s)[2 * k + 4] = InstructionGet
    BY <1>1, <1>2, GetParts DEF AtGet, KeyRoom, Site
  <1>4. stack \in Seq(Value) /\ Len(stack) = n + 1
    BY <1>2, <1>3 DEF Above
  <1>5. Get
    <2>1. r + 1 = 2 * k + 4
      BY <1>3
    <2> QED BY <1>3, <2>1, Dispatch DEF Site
  <1>6. Last(stack).type = "bytes" /\ Last(stack).val = key
    BY <1>3, <1>4, SlotParts DEF Last
  <1>7. Front(stack) = out
    <2>1. Popped(Front(stack), Top(stack, 1), stack, out, 1, 1)
      <3>1. Front(stack) = Below(stack, 1) /\ 1 \in 0 .. 1
        BY DEF Front, Below
      <3> QED BY <3>1, <1>2, <1>3, AboveBelow
    <2>2. Above(Front(stack), out, 0)
      BY <2>1 DEF Popped
    <2> QED BY <2>2, <1>2, AboveZero
  <1>8. stack # <<>>
    BY <1>4
  <1>9. CASE key \notin DOMAIN contractState /\ Stop("error")
    BY <1>1, <1>9 DEF Stop, Fails
  <1>10. CASE key \in DOMAIN contractState /\ Push(out, contractState[key])
    <2>1. Len(out) # Depth
      BY <1>2, <1>3, DepthAssumption
    <2>2. Moves(Append(out, contractState[key])) /\ contractState' = contractState
      BY <1>10, <2>1, PushMoves
    <2>3. Len(out) + Slots(s) <= Depth
      BY <1>1, <1>2, <1>3 DEF Slots
    <2>4. r + 1 = Len(Statement(s))
      BY <1>3
    <2> QED BY <1>1, <1>10, <2>2, <2>3, <2>4
  <1> QED BY <1>5, <1>6, <1>7, <1>8, <1>9, <1>10 DEF Get

(***************************************************************************)
(* The meaning of a text, statement by statement.                          *)
(***************************************************************************)
IsMeaning(m) == m = [ok |-> m.ok, state |-> m.state, out |-> m.out] /\ m.ok \in BOOLEAN

Refused(m, s) ==
    Len(m.out) + Slots(s) > Depth \/ (s.op = "get" /\ s.key \notin DOMAIN m.state)

LEMMA MeaningStep ==
    ASSUME NEW m, IsMeaning(m), NEW s, IsStatement(s)
    PROVE  /\ IsMeaning(MeaningOf(m, s))
           /\ ~m.ok \/ s.op = "code" => MeaningOf(m, s) = m
           /\ m.ok /\ s.op # "code" /\ Refused(m, s) =>
                 ~MeaningOf(m, s).ok /\ MeaningOf(m, s).state = m.state
           /\ m.ok /\ s.op = "set" /\ ~Refused(m, s) =>
                 /\ MeaningOf(m, s).ok /\ MeaningOf(m, s).out = m.out
                 /\ MeaningOf(m, s).state = Updated(m.state, s.key, Int_(SumOf(s.ints)))
           /\ m.ok /\ s.op = "get" /\ ~Refused(m, s) =>
                 /\ MeaningOf(m, s).ok /\ MeaningOf(m, s).state = m.state
                 /\ MeaningOf(m, s).out = Append(m.out, m.state[s.key])
  <1> DEFINE m1 == [m EXCEPT !.ok = FALSE]
             m2 == [m EXCEPT !.state = Updated(@, s.key, Int_(SumOf(s.ints)))]
             m3 == [m EXCEPT !.out = Append(@, m.state[s.key])]
  <1>0. PICK a, b, c : m = [ok |-> a, state |-> b, out |-> c]
    BY DEF IsMeaning
  <1>1. m1 = [ok |-> FALSE, state |-> m.state, out |-> m.out]
    <2>1. PICK d : d = FALSE
      OBVIOUS
    <2>2. [m EXCEPT !.ok = d] = [ok |-> d, state |-> m.state, out |-> m.out]
      BY <1>0
    <2> QED BY <2>1, <2>2, Zenon
  <1>2. m2 = [ok |-> m.ok,
              state |-> Updated(m.state, s.key, Int_(SumOf(s.ints))),
              out |-> m.out]
    BY <1>0
  <1>3. m3 = [ok |-> m.ok, state |-> m.state, out |-> Append(m.out, m.state[s.key])]
    <2>1. PICK d : d = Append(m.out, m.state[s.key])
      OBVIOUS
    <2>2. [m EXCEPT !.out = d] = [ok |-> m.ok, state |-> m.state, out |-> d]
      BY <1>0
    <2> QED BY <2>1, <2>2, Zenon
  <1>4. IsMeaning(m1) /\ IsMeaning(m2) /\ IsMeaning(m3)
    <2> HIDE DEF m1, m2, m3
    <2>1. m.ok \in BOOLEAN
      BY DEF IsMeaning
    <2> QED BY <1>1, <1>2, <1>3, <2>1 DEF IsMeaning
  <1>5. /\ ~m1.ok /\ m1.state = m.state
        /\ m2.ok = m.ok /\ m2.out = m.out
        /\ m2.state = Updated(m.state, s.key, Int_(SumOf(s.ints)))
        /\ m3.ok = m.ok /\ m3.state = m.state /\ m3.out = Append(m.out, m.state[s.key])
    <2> HIDE DEF m1, m2, m3
    <2> QED BY <1>1, <1>2, <1>3
  <1>6. MeaningOf(m, s) = IF ~m.ok \/ s.op = "code" THEN m
                          ELSE IF Refused(m, s) THEN m1
                          ELSE IF s.op = "set" THEN m2 ELSE m3
    BY DEF MeaningOf, Refused
  <1>7. s.op \in {"set", "get", "code"}
    BY DEF IsStatement
  <1> HIDE DEF m1, m2, m3
  <1> QED BY <1>4, <1>5, <1>6, <1>7

LEMMA TextStatements ==
    ASSUME NEW src \in Source
    PROVE  /\ Len(src) \in Nat /\ DOMAIN src = 1 .. Len(src)
           /\ \A i \in 1 .. Len(src) : IsStatement(src[i])
  <1> DEFINE Text == [op : {"set", "get", "code"}, key : Seq(Byte), ints : Seq(Byte)]
  <1>1. src \in Seq(Text)
    BY SourceAssumption
  <1>2. Len(src) \in Nat /\ DOMAIN src = 1 .. Len(src)
    <2> HIDE DEF Text
    <2> QED BY <1>1
  <1>3. ASSUME NEW i \in 1 .. Len(src) PROVE IsStatement(src[i])
    <2>1. src[i] \in Text
      <3> HIDE DEF Text
      <3> QED BY <1>1
    <2>2. Len(src[i].key) \in Byte /\ (src[i].op = "set" => src[i].ints # <<>>)
      <3>1. i \in DOMAIN src
        BY <1>2
      <3> QED BY <3>1, SourceAssumption
    <2>3. src[i].op = "set" => SumOf(src[i].ints) <= MaxInt
      BY <1>2, SumAssumption
    <2> QED BY <2>1, <2>2, <2>3 DEF IsStatement
  <1> QED BY <1>2, <1>3

LEMMA MeaningsAre ==
    ASSUME NEW src \in Source, NEW state, NEW i \in 0 .. Len(src)
    PROVE  IsMeaning(Meanings(src, state)[i])
  <1> DEFINE ms == Meanings(src, state)
             Bad == {j \in 0 .. Len(src) : ~IsMeaning(ms[j])}
  <1>1. Len(src) \in Nat /\ \A j \in 1 .. Len(src) : IsStatement(src[j])
    BY TextStatements
  <1>2. /\ ms[0] = [ok |-> TRUE, state |-> state, out |-> <<>>]
        /\ \A j \in 1 .. Len(src) : ms[j] = MeaningOf(ms[j - 1], src[j])
    BY <1>1, MeaningsDef
  <1> HIDE DEF ms
  <1>3. SUFFICES ASSUME Bad # {} PROVE FALSE
    BY DEF ms
  <1>4. Bad \in SUBSET Nat
    OBVIOUS
  <1>5. PICK j \in Bad : \A x \in Bad : j <= x
    BY <1>3, <1>4, LeastElement
  <1>6. j # 0
    <2>1. PICK z : z = ms[0]
      OBVIOUS
    <2>2. z = [ok |-> TRUE, state |-> state, out |-> <<>>]
      BY <1>2, <2>1
    <2>3. IsMeaning(z)
      BY <2>2 DEF IsMeaning
    <2> QED BY <1>5, <2>1, <2>3
  <1>7. j \in 1 .. Len(src) /\ j - 1 \in 0 .. Len(src) /\ j - 1 \notin Bad
    BY <1>1, <1>5, <1>6
  <1>8. IsMeaning(ms[j - 1]) /\ IsStatement(src[j])
    BY <1>1, <1>7
  <1>9. IsMeaning(ms[j])
    BY <1>2, <1>7, <1>8, MeaningStep
  <1> QED BY <1>5, <1>9

(* What fails stays failed. *)
LEMMA FailedStays ==
    ASSUME NEW src \in Source, NEW state, NEW j \in 0 .. Len(src),
           ~Meanings(src, state)[j].ok
    PROVE  Meanings(src, state)[Len(src)] = Meanings(src, state)[j]
  <1> DEFINE ms == Meanings(src, state)
             Bad == {x \in 0 .. Len(src) : x >= j /\ ms[x] # ms[j]}
  <1>1. Len(src) \in Nat /\ \A x \in 1 .. Len(src) : IsStatement(src[x])
    BY TextStatements
  <1>2. \A x \in 1 .. Len(src) : ms[x] = MeaningOf(ms[x - 1], src[x])
    BY <1>1, MeaningsDef
  <1>3. \A x \in 0 .. Len(src) : IsMeaning(ms[x])
    BY MeaningsAre
  <1> HIDE DEF ms
  <1>4. SUFFICES ASSUME Bad # {} PROVE FALSE
    <2>1. Len(src) \in 0 .. Len(src) /\ Len(src) >= j
      BY <1>1
    <2> QED BY <2>1 DEF ms
  <1>5. Bad \in SUBSET Nat
    OBVIOUS
  <1>6. PICK x \in Bad : \A y \in Bad : x <= y
    BY <1>4, <1>5, LeastElement
  <1>7. /\ x \in 1 .. Len(src) /\ x - 1 \in 0 .. Len(src) /\ x - 1 >= j /\ x - 1 \notin Bad
    BY <1>1, <1>6
  <1>8. ms[x - 1] = ms[j]
    BY <1>7
  <1>9. ~ms[x - 1].ok
    BY <1>8 DEF ms
  <1>10. ms[x] = ms[x - 1]
    BY <1>1, <1>2, <1>3, <1>7, <1>9, MeaningStep
  <1> QED BY <1>6, <1>8, <1>10

(***************************************************************************)
(* A step inside a statement: Run goes on in it, ends it with what it      *)
(* means, or fails where its meaning does.                                 *)
(***************************************************************************)
Phase(s, r, out) ==
    \/ InCode(s, r, out)
    \/ InKey(s, r, out)
    \/ AtPack(s, r, out)
    \/ InInts(s, r, out)
    \/ InAdds(s, r, out)
    \/ AtGet(s, r, out)

LEMMA Lengths ==
    ASSUME NEW s, IsStatement(s)
    PROVE  /\ Len(Statement(s)) \in Nat /\ Len(s.key) \in Nat
           /\ s.op = "set" => /\ Len(s.ints) \in Nat \ {0}
                              /\ Len(Statement(s)) = 2 * Len(s.key) + 3 + 3 * Len(s.ints)
           /\ s.op = "get" => Len(Statement(s)) = 2 * Len(s.key) + 4
  <1>1. PICK k \in Nat : k = Len(s.key)
    BY DEF IsStatement
  <1>2. CASE s.op = "set"
    <2>1. PICK l \in Nat \ {0} : l = Len(s.ints)
      BY <1>2 DEF IsStatement
    <2>2. Len(Statement(s)) = 2 * k + 3 + 3 * l
      BY <1>1, <1>2, <2>1, SetParts
    <2>3. 2 * k + 3 + 3 * l \in Nat
      OBVIOUS
    <2>4. Len(Statement(s)) = 2 * Len(s.key) + 3 + 3 * Len(s.ints)
      BY <1>1, <2>1, <2>2
    <2>5. Len(Statement(s)) \in Nat
      BY <2>2, <2>3
    <2> QED BY <1>1, <1>2, <2>1, <2>4, <2>5
  <1>3. CASE s.op = "get"
    <2>1. Len(Statement(s)) = 2 * k + 4
      BY <1>1, <1>3, GetParts
    <2> QED BY <1>1, <1>3, <2>1
  <1>4. CASE s.op = "code"
    <2>1. Statement(s) = s.key
      BY <1>4 DEF Statement
    <2> QED BY <1>1, <1>4, <2>1
  <1> QED BY <1>2, <1>3, <1>4 DEF IsStatement

LEMMA NextByte ==
    ASSUME NEW s, NEW r \in Nat, NEW out, IsStatement(s), Inert(s)
    PROVE  /\ InKey(s, r, out)' \/ AtPack(s, r, out)' => r < Len(Statement(s))
           /\ InInts(s, r, out)' \/ InAdds(s, r, out)' => r < Len(Statement(s))
           /\ AtGet(s, r, out)' => r < Len(Statement(s))
  <1>1. PICK k \in Nat, n \in Nat : k = Len(s.key) /\ n = Len(Statement(s))
    BY Lengths
  <1>2. ASSUME s.op \in {"set", "get"} PROVE 2 * k + 4 <= n
    <2>1. CASE s.op = "set"
      <3>1. PICK l \in Nat \ {0} : n = 2 * k + 3 + 3 * l
        BY <1>1, <2>1, Lengths
      <3> QED BY <3>1
    <2>2. CASE s.op = "get"
      <3>1. n = 2 * k + 4
        BY <1>1, <2>2, Lengths
      <3> QED BY <3>1
    <2>3. s.op = "set" \/ s.op = "get"
      BY <1>2
    <2> QED BY <2>1, <2>2, <2>3
  <1>3. InKey(s, r, out)' => /\ s.op \in {"set", "get"}
                             /\ \E i \in 0 .. k : r \in {2 * i, 2 * i + 1}
    BY <1>1 DEF InKey
  <1>4. InKey(s, r, out)' => r < n
    BY <1>2, <1>3
  <1>5. AtPack(s, r, out)' => s.op \in {"set", "get"} /\ r = 2 * k + 2
    BY <1>1 DEF AtPack
  <1>6. AtGet(s, r, out)' => s.op = "get" /\ r = 2 * k + 3
    BY <1>1 DEF AtGet
  <1>7. AtPack(s, r, out)' \/ AtGet(s, r, out)' => r < n
    <2>1. r = 2 * k + 2 /\ 2 * k + 4 <= n => r < n
      OBVIOUS
    <2>2. r = 2 * k + 3 /\ 2 * k + 4 <= n => r < n
      OBVIOUS
    <2>3. s.op = "get" => s.op \in {"set", "get"}
      OBVIOUS
    <2> QED BY <1>2, <1>5, <1>6, <2>1, <2>2, <2>3, Zenon
  <1>8. CASE s.op = "set"
    <2>1. PICK l \in Nat \ {0} : l = Len(s.ints) /\ n = 2 * k + 3 + 3 * l
      BY <1>1, <1>8, Lengths
    <2>2. InInts(s, r, out)' =>
             \E i \in 0 .. l - 1 : r \in {2 * k + 3 + 2 * i, 2 * k + 4 + 2 * i}
      BY <1>1, <2>1 DEF InInts
    <2>3. InAdds(s, r, out)' => \E i \in 1 .. l : r = 2 * k + 3 + 3 * l - i
      BY <1>1, <2>1 DEF InAdds
    <2>4. n = 2 * k + 3 + 3 * l
      BY <2>1
    <2>5. \A i \in 0 .. l - 1 : r \in {2 * k + 3 + 2 * i, 2 * k + 4 + 2 * i} => r < n
      BY <2>4
    <2>6. \A i \in 1 .. l : r = 2 * k + 3 + 3 * l - i => r < n
      BY <2>4
    <2> QED BY <1>1, <1>4, <1>7, <2>2, <2>3, <2>5, <2>6, Zenon
  <1>9. CASE s.op # "set"
    <2>1. ~InInts(s, r, out)' /\ ~InAdds(s, r, out)'
      BY <1>9 DEF InInts, InAdds
    <2> QED BY <1>1, <1>4, <1>7, <2>1
  <1> QED BY <1>8, <1>9

GoesOn(s, r, out) ==
    /\ Goes /\ contractState' = contractState
    /\ Phase(s, r + 1, out)' /\ r + 1 < Len(Statement(s))

Ends(s, r, m) ==
    /\ Moves(m.out) /\ r + 1 = Len(Statement(s))
    /\ m.ok /\ contractState' = m.state

FailsAs(m) == Fails /\ ~m.ok /\ m.state = contractState

LEMMA PhaseStep ==
    ASSUME NEW s, NEW r, NEW out, Site(s, r, out), Exec, Phase(s, r, out),
           r < Len(Statement(s)),
           NEW m, IsMeaning(m), m.ok, m.out = out, m.state = contractState
    PROVE  \/ GoesOn(s, r, out)
           \/ Ends(s, r, MeaningOf(m, s))
           \/ FailsAs(MeaningOf(m, s))
  <1>1. IsStatement(s) /\ Inert(s) /\ r \in Nat /\ r + 1 \in Nat /\ out \in Seq(Value)
    BY DEF Site
  <1>2. PICK k \in Nat, n \in Nat, d \in Nat :
           k = Len(s.key) /\ n = Len(Statement(s)) /\ d = Len(out)
    <2>1. Len(out) \in Nat
      BY <1>1
    <2> QED BY <1>1, <2>1, Lengths
  <1>3. s.op = "set" => Slots(s) >= k + 1 /\ Slots(s) >= Len(s.ints) + 1 /\ Slots(s) \in Nat
    BY <1>1, <1>2, Lengths DEF Slots
  <1>4. s.op = "get" => Slots(s) = k + 1
    BY <1>2 DEF Slots
  <1>5. CASE InCode(s, r, out)
    <2>1. Moves(out) /\ contractState' = contractState
      BY <1>5, CodePhase
    <2>2. s.op = "code" /\ MeaningOf(m, s) = m
      BY <1>1, <1>5, MeaningStep DEF InCode
    <2>3. CASE r + 1 < n
      <3>1. InCode(s, r + 1, out)'
        BY <2>1, <2>2 DEF InCode, Moves
      <3> QED BY <1>2, <2>1, <2>3, <3>1 DEF GoesOn, Phase, Moves
    <2>4. CASE r + 1 = n
      BY <1>2, <2>1, <2>2, <2>4 DEF Ends
    <2>5. r + 1 < n \/ r + 1 = n
      BY <1>1, <1>2
    <2> QED BY <2>3, <2>4, <2>5
  <1>6. CASE InKey(s, r, out)
    <2>1. CASE /\ Goes /\ contractState' = contractState
               /\ InKey(s, r + 1, out)' \/ AtPack(s, r + 1, out)'
      BY <1>1, <2>1, NextByte DEF GoesOn, Phase
    <2>2. CASE Fails /\ Len(out) + Len(s.key) >= Depth
      <3>1. s.op \in {"set", "get"}
        BY <1>6 DEF InKey
      <3>2. Refused(m, s)
        BY <1>2, <1>3, <1>4, <2>2, <3>1, DepthAssumption DEF Refused
      <3> QED BY <1>1, <2>2, <3>1, <3>2, MeaningStep DEF FailsAs
    <2> QED BY <1>6, <2>1, <2>2, KeyPhase
  <1>7. CASE AtPack(s, r, out)
    <2>1. /\ Goes /\ contractState' = contractState
          /\ InInts(s, r + 1, out)' \/ AtGet(s, r + 1, out)'
      BY <1>7, PackPhase
    <2> QED BY <1>1, <2>1, NextByte DEF GoesOn, Phase
  <1>8. CASE InInts(s, r, out)
    <2>1. CASE /\ Goes /\ contractState' = contractState
               /\ InInts(s, r + 1, out)' \/ InAdds(s, r + 1, out)'
      BY <1>1, <2>1, NextByte DEF GoesOn, Phase
    <2>2. CASE Fails /\ Len(out) + Len(s.ints) >= Depth
      <3>1. s.op = "set"
        BY <1>8 DEF InInts
      <3>2. Refused(m, s)
        <4>1. PICK l \in Nat : l = Len(s.ints)
          BY <1>1, <3>1, Lengths
        <4> QED BY <1>2, <1>3, <2>2, <3>1, <4>1, DepthAssumption DEF Refused
      <3> QED BY <1>1, <2>2, <3>1, <3>2, MeaningStep DEF FailsAs
    <2> QED BY <1>8, <2>1, <2>2, IntPhase
  <1>9. CASE InAdds(s, r, out)
    <2>1. CASE /\ Goes /\ contractState' = contractState
               /\ InAdds(s, r + 1, out)'
      BY <1>1, <2>1, NextByte DEF GoesOn, Phase
    <2>2. CASE /\ Moves(out) /\ r + 1 = Len(Statement(s))
               /\ contractState' = Updated(contractState, s.key, Int_(SumOf(s.ints)))
               /\ Len(out) + Slots(s) <= Depth
      <3>1. s.op = "set"
        BY <1>9 DEF InAdds
      <3>2. ~Refused(m, s)
        BY <1>2, <1>3, <2>2, <3>1, DepthAssumption DEF Refused
      <3>3. /\ MeaningOf(m, s).ok /\ MeaningOf(m, s).out = m.out
            /\ MeaningOf(m, s).state = Updated(m.state, s.key, Int_(SumOf(s.ints)))
        BY <1>1, <3>1, <3>2, MeaningStep
      <3> QED BY <2>2, <3>3 DEF Ends
    <2> QED BY <1>9, <2>1, <2>2, AddPhase
  <1>10. CASE AtGet(s, r, out)
    <2>1. s.op = "get"
      BY <1>10 DEF AtGet
    <2>2. CASE /\ s.key \in DOMAIN contractState
               /\ Moves(Append(out, contractState[s.key])) /\ r + 1 = Len(Statement(s))
               /\ contractState' = contractState
               /\ Len(out) + Slots(s) <= Depth
      <3>1. ~Refused(m, s)
        BY <1>2, <1>4, <2>1, <2>2, DepthAssumption DEF Refused
      <3>2. /\ MeaningOf(m, s).ok /\ MeaningOf(m, s).state = m.state
            /\ MeaningOf(m, s).out = Append(m.out, m.state[s.key])
        BY <1>1, <2>1, <3>1, MeaningStep
      <3> QED BY <2>2, <3>2 DEF Ends
    <2>3. CASE s.key \notin DOMAIN contractState /\ Fails
      <3>1. Refused(m, s)
        BY <2>1, <2>3 DEF Refused
      <3> QED BY <1>1, <2>1, <2>3, <3>1, MeaningStep DEF FailsAs
    <2> QED BY <1>10, <2>2, <2>3, GetPhase
  <1> QED BY <1>5, <1>6, <1>7, <1>8, <1>9, <1>10 DEF Phase

(***************************************************************************)
(* Where the statements of a text lie in its bytes.                        *)
(***************************************************************************)
Statements(src) == [i \in DOMAIN src |-> Statement(src[i])]

LEMMA StatementsLie ==
    ASSUME NEW src \in Source
    PROVE  /\ Len(Statements(src)) = Len(src)
           /\ \A i \in 1 .. Len(src) : Statements(src)[i] = Statement(src[i])
           /\ \E o : Layout(Statements(src), o, Compile(src))
  <1>1. PICK n \in Nat : n = Len(src) /\ DOMAIN src = 1 .. n
    BY TextStatements
  <1>2. \A i \in 1 .. n : IsStatement(src[i])
    BY <1>1, TextStatements
  <1>3. ASSUME NEW i \in 1 .. n PROVE Statement(src[i]) \in Seq(Byte)
    <2>1. PICK s : s = src[i] /\ IsStatement(s)
      BY <1>2
    <2>2. PICK k \in Nat : k = Len(s.key)
      BY <2>1 DEF IsStatement
    <2>3. CASE s.op = "set"
      <3>1. PICK l \in Nat \ {0} : l = Len(s.ints)
        BY <2>1, <2>3 DEF IsStatement
      <3> QED BY <2>1, <2>2, <2>3, <3>1, SetParts
    <2>4. CASE s.op = "get"
      BY <2>1, <2>2, <2>4, GetParts
    <2>5. CASE s.op = "code"
      BY <2>1, <2>5 DEF Statement, IsStatement
    <2> QED BY <2>1, <2>3, <2>4, <2>5 DEF IsStatement
  <1>4. Statements(src) = [i \in 1 .. n |-> Statement(src[i])]
    BY <1>1 DEF Statements
  <1>5. Statements(src) \in [1 .. n -> Seq(Byte)]
    BY <1>3, <1>4
  <1>6. PICK ss \in Seq(Seq(Byte)) : ss = Statements(src)
    BY <1>5, FunctionIsSeq
  <1>7. Len(ss) = n
    BY <1>4, <1>6
  <1>8. \A i \in 1 .. n : ss[i] = Statement(src[i])
    BY <1>4, <1>6
  <1>9. \E o : Layout(ss, o, FlattenSeq(ss))
    BY FlattenLayout
  <1> QED BY <1>1, <1>6, <1>7, <1>8, <1>9 DEF Compile, Statements

(* The beginnings of the statements of a text. *)
Begins(src, o) ==
    /\ o \in [0 .. Len(src) -> Nat]
    /\ o[0] = 0
    /\ o[Len(src)] = Len(Compile(src))
    /\ \A i \in 1 .. Len(src) :
          /\ o[i] = o[i - 1] + Len(Statement(src[i]))
          /\ \A r \in 1 .. Len(Statement(src[i])) :
                Compile(src)[o[i - 1] + r] = Statement(src[i])[r]

LEMMA TextBegins ==
    ASSUME NEW src \in Source
    PROVE  \E o : Begins(src, o)
  <1>1. PICK o, ss : ss = Statements(src) /\ Layout(ss, o, Compile(src))
    BY StatementsLie
  <1>2. Len(ss) = Len(src) /\ \A i \in 1 .. Len(src) : ss[i] = Statement(src[i])
    BY <1>1, StatementsLie
  <1>3. Begins(src, o)
    BY <1>1, <1>2 DEF Begins, Layout
  <1> QED BY <1>3

LEMMA Monotone ==
    ASSUME NEW src \in Source, NEW o, Begins(src, o),
           NEW i \in 0 .. Len(src), NEW j \in 0 .. Len(src), i <= j
    PROVE  o[i] <= o[j]
  <1> DEFINE Bad == {x \in 0 .. Len(src) : i <= x /\ ~(o[i] <= o[x])}
  <1>1. PICK n \in Nat : n = Len(src)
    BY TextStatements
  <1>2. SUFFICES ASSUME Bad # {} PROVE FALSE
    OBVIOUS
  <1>3. Bad \in SUBSET Nat
    OBVIOUS
  <1>4. PICK x \in Bad : \A y \in Bad : x <= y
    BY <1>2, <1>3, LeastElement
  <1>5. \A y \in 0 .. n : o[y] \in Nat
    BY <1>1 DEF Begins
  <1>6. x # i
    BY <1>1, <1>5
  <1>7. x \in 1 .. n /\ x - 1 \in 0 .. n /\ i <= x - 1
    BY <1>1, <1>6
  <1>8. x - 1 \notin Bad
    <2>1. ~(x <= x - 1)
      BY <1>7
    <2> QED BY <1>4, <2>1
  <1>9. o[i] <= o[x - 1]
    BY <1>1, <1>7, <1>8
  <1>10. o[x] = o[x - 1] + Len(Statement(src[x])) /\ Len(Statement(src[x])) \in Nat
    BY <1>1, <1>7, TextStatements, Lengths DEF Begins
  <1>11. o[i] <= o[x]
    <2>1. PICK a \in Nat, b \in Nat, d \in Nat :
             a = o[i] /\ b = o[x - 1] /\ d = Len(Statement(src[x]))
      BY <1>1, <1>5, <1>7, <1>10
    <2> QED BY <1>9, <1>10, <2>1
  <1> QED BY <1>4, <1>11

(* Statements without bytes say nothing. *)
LEMMA EmptyTail ==
    ASSUME NEW src \in Source, NEW o, Begins(src, o), NEW state,
           NEW i \in 0 .. Len(src), NEW j \in 0 .. Len(src), i <= j, o[i] = o[j]
    PROVE  Meanings(src, state)[i] = Meanings(src, state)[j]
  <1> DEFINE ms == Meanings(src, state)
             Bad == {x \in 0 .. Len(src) : i <= x /\ x <= j /\ ms[x] # ms[i]}
  <1>1. PICK n \in Nat : n = Len(src)
    BY TextStatements
  <1>2. \A x \in 1 .. n : ms[x] = MeaningOf(ms[x - 1], src[x])
    BY <1>1, MeaningsDef
  <1>3. \A x \in 0 .. n : IsMeaning(ms[x])
    BY <1>1, MeaningsAre
  <1> HIDE DEF ms
  <1>4. SUFFICES ASSUME Bad # {} PROVE FALSE
    BY DEF ms
  <1>5. Bad \in SUBSET Nat
    OBVIOUS
  <1>6. PICK x \in Bad : \A y \in Bad : x <= y
    BY <1>4, <1>5, LeastElement
  <1>7. x # i
    OBVIOUS
  <1>8. /\ x \in 1 .. n /\ x \in 0 .. n /\ x - 1 \in 0 .. n
        /\ i <= x - 1 /\ x - 1 <= x /\ x <= j /\ x - 1 <= j
    BY <1>1, <1>7
  <1>9. x - 1 \notin Bad
    <2>1. ~(x <= x - 1)
      BY <1>8
    <2> QED BY <1>6, <2>1
  <1>10. ms[x - 1] = ms[i]
    BY <1>1, <1>8, <1>9
  <1>11. o[i] <= o[x - 1] /\ o[x] <= o[j]
    BY <1>1, <1>8, Monotone
  <1>12. PICK s : s = src[x] /\ IsStatement(s)
    BY <1>1, <1>8, TextStatements
  <1>13. o[x] = o[x - 1] + Len(Statement(s)) /\ Len(Statement(s)) \in Nat
    BY <1>1, <1>8, <1>12, Lengths DEF Begins
  <1>14. Len(Statement(s)) = 0
    <2>1. o[i] \in Nat /\ o[x - 1] \in Nat /\ o[x] \in Nat
      BY <1>1, <1>8 DEF Begins
    <2>2. PICK a \in Nat, b \in Nat, d \in Nat, l \in Nat :
             a = o[i] /\ b = o[x - 1] /\ d = o[x] /\ l = Len(Statement(s))
      BY <1>13, <2>1
    <2>3. a <= b /\ d <= a /\ d = b + l
      BY <1>11, <1>13, <2>2
    <2>4. l = 0
      BY <2>3
    <2> QED BY <2>2, <2>4
  <1>15. s.op = "code"
    <2>1. s.op # "set"
      <3>1. SUFFICES ASSUME s.op = "set" PROVE FALSE
        OBVIOUS
      <3>2. PICK k \in Nat, l \in Nat \ {0} :
               k = Len(s.key) /\ l = Len(s.ints) /\ Len(Statement(s)) = 2 * k + 3 + 3 * l
        BY <1>12, <3>1, Lengths
      <3>3. 0 = 2 * k + 3 + 3 * l
        BY <3>2, <1>14
      <3> QED BY <3>3
    <2>2. s.op # "get"
      <3>1. SUFFICES ASSUME s.op = "get" PROVE FALSE
        OBVIOUS
      <3>2. PICK k \in Nat : 0 = 2 * k + 4
        BY <1>12, <1>14, <3>1, Lengths
      <3> QED BY <3>2
    <2> QED BY <1>12, <2>1, <2>2 DEF IsStatement
  <1>16. ms[x] = ms[x - 1]
    BY <1>2, <1>3, <1>8, <1>12, <1>15, MeaningStep
  <1> QED BY <1>6, <1>10, <1>16

(***************************************************************************)
(* Run and the text: between two statements or within one, with what the   *)
(* statements before it mean on the stack and in the contract state.       *)
(***************************************************************************)
Legal ==
    /\ source \in Source /\ data = Compile(source) /\ data # <<>>
    /\ \A i \in DOMAIN source : Inert(source[i])

Said(j) == Meanings(source, before)[j]

Between(o, j) ==
    /\ j \in 0 .. Len(source)
    /\ ip = o[j]
    /\ Said(j).ok
    /\ stack = Said(j).out
    /\ contractState = Said(j).state

Within(o, j) ==
    /\ j \in 1 .. Len(source)
    /\ o[j - 1] <= ip /\ ip < o[j]
    /\ Said(j - 1).ok
    /\ contractState = Said(j - 1).state
    /\ \E s, r, out :
          /\ s = source[j] /\ r = ip - o[j - 1] /\ out = Said(j - 1).out
          /\ out \in Seq(Value) /\ Phase(s, r, out)

Failed(j) ==
    /\ j \in 1 .. Len(source)
    /\ ~Said(j).ok
    /\ contractState = Said(j).state

Follows(o) ==
    \/ /\ status = "error"
       /\ \E j : Failed(j)
    \/ /\ status \in {"running", "nil"}
       /\ status = "running" <=> ip < Len(data)
       /\ \E j : Between(o, j) \/ Within(o, j)

Doing == Legal => \E o : Begins(source, o) /\ Follows(o)

(* At the end of a statement Run is in the next one that has bytes. *)
LEMMA Advance ==
    ASSUME Inv, Legal, NEW o, Begins(source, o), NEW j, Between(o, j), ip < Len(data)
    PROVE  \E i : Within(o, i)
  <1> DEFINE I == {i \in 1 .. Len(source) : ip < o[i]}
  <1>1. PICK src \in Source, n \in Nat, p \in Nat :
           src = source /\ n = Len(src) /\ p = ip
    BY TextStatements DEF Legal, Inv, ProgramInv
  <1>2. \A x \in 0 .. n : o[x] \in Nat
    BY <1>1 DEF Begins
  <1>3. o[0] = 0 /\ p < o[n]
    BY <1>1 DEF Begins, Legal
  <1>4. n \in 1 .. n
    <2>1. n # 0
      BY <1>3
    <2> QED BY <2>1
  <1>5. I # {} /\ I \in SUBSET Nat
    BY <1>1, <1>3, <1>4
  <1>6. PICK i \in I : \A y \in I : i <= y
    BY <1>5, LeastElement
  <1>7. i \in 1 .. n /\ i - 1 \in 0 .. n /\ p < o[i]
    BY <1>1, <1>6
  <1>8. o[i - 1] <= p
    <2>1. CASE i - 1 = 0
      BY <1>3, <2>1
    <2>2. CASE i - 1 \in 1 .. n
      <3>1. i - 1 \notin I
        <4>1. ~(i <= i - 1)
          BY <1>7
        <4> QED BY <1>6, <4>1
      <3>2. ~(p < o[i - 1])
        BY <1>1, <2>2, <3>1
      <3> QED BY <1>2, <1>7, <3>2
    <2>3. i - 1 = 0 \/ i - 1 \in 1 .. n
      BY <1>7
    <2> QED BY <2>1, <2>2, <2>3
  <1>9. /\ j \in 0 .. n /\ p = o[j]
        /\ Said(j).ok /\ stack = Said(j).out /\ contractState = Said(j).state
    BY <1>1 DEF Between
  <1>10. j <= i - 1
    <2>1. SUFFICES ASSUME ~(j <= i - 1) PROVE FALSE
      OBVIOUS
    <2>2. i <= j /\ i \in 0 .. n
      BY <2>1, <1>7, <1>9
    <2>3. o[i] <= o[j]
      BY <1>1, <1>9, <2>2, Monotone
    <2> QED BY <1>2, <1>7, <1>9, <2>2, <2>3
  <1>11. o[j] <= o[i - 1]
    BY <1>1, <1>7, <1>9, <1>10, Monotone
  <1>12. o[j] = o[i - 1]
    BY <1>2, <1>7, <1>8, <1>9, <1>11
  <1>13. Said(j) = Said(i - 1)
    BY <1>1, <1>7, <1>9, <1>10, <1>12, EmptyTail DEF Said
  <1>14. stack \in Seq(Value)
    BY DEF Inv, StackInv
  <1>15. PICK s : s = source[i] /\ IsStatement(s)
    BY <1>1, <1>7, TextStatements
  <1>16. Phase(s, 0, stack)
    <2>1. CASE s.op = "code"
      BY <2>1 DEF Phase, InCode
    <2>2. CASE s.op \in {"set", "get"}
      <3>1. Above(stack, stack, 0) /\ KeysOn(stack, stack, s.key, 0)
        <4>1. PICK d \in Nat : d = Len(stack)
          BY <1>14
        <4> QED BY <1>14, <4>1 DEF Above, KeysOn
      <3>2. 0 \in 0 .. Len(s.key) /\ 0 \in {2 * 0, 2 * 0 + 1}
        BY <1>15 DEF IsStatement
      <3>3. InKey(s, 0, stack)
        BY <2>2, <3>1, <3>2 DEF InKey
      <3> QED BY <3>3 DEF Phase
    <2> QED BY <1>15, <2>1, <2>2 DEF IsStatement
  <1>17. ip - o[i - 1] = 0
    BY <1>1, <1>2, <1>7, <1>9, <1>12
  <1>18. Within(o, i)
    BY <1>1, <1>7, <1>8, <1>9, <1>13, <1>14, <1>15, <1>16, <1>17 DEF Within
  <1> QED BY <1>18

LEMMA ExecMoves ==
    ASSUME Exec
    PROVE  UNCHANGED program /\ status = "running" /\ ip < Len(data)
  <1>1. \/ PushInt \/ AddInt \/ PushBytes \/ Pack \/ Store \/ Get \/ Skip
    BY DEF Exec
  <1>2. PushInt \/ PushBytes => UNCHANGED program /\ status = "running" /\ ip < Len(data)
    BY DEF PushInt, PushBytes, PushLiteral, Reaches, Push, Stop, Continue
  <1>3. AddInt => UNCHANGED program /\ status = "running" /\ ip < Len(data)
    BY DEF AddInt, Reaches, Push, Stop, Continue
  <1>4. Pack => UNCHANGED program /\ status = "running" /\ ip < Len(data)
    BY DEF Pack, Reaches, PackBytes, PushUnchecked, Stop, Continue
  <1>5. Store => UNCHANGED program /\ status = "running" /\ ip < Len(data)
    BY DEF Store, Reaches, Stop, Continue
  <1>6. Get => UNCHANGED program /\ status = "running" /\ ip < Len(data)
    BY DEF Get, Reaches, Push, Stop, Continue
  <1>7. Skip => UNCHANGED program /\ status = "running" /\ ip < Len(data)
    BY DEF Skip, Reaches, Continue
  <1> QED BY <1>1, <1>2, <1>3, <1>4, <1>5, <1>6, <1>7

(* A step of Run within a statement. *)
LEMMA StepWithin ==
    ASSUME Inv, Legal, NEW o, Begins(source, o), NEW j, Within(o, j), Exec
    PROVE  Follows(o)'
  <1>0. PICK st : st = before
    OBVIOUS
  <1>1. PICK src \in Source, n \in Nat, p \in Nat :
           src = source /\ n = Len(src) /\ p = ip /\ st = before
    BY <1>0, TextStatements DEF Legal, Inv, ProgramInv
  <1>2. source' = src /\ before' = st /\ data' = data
    BY <1>1, ExecMoves DEF program
  <1>3. \A x \in 0 .. n : o[x] \in Nat
    BY <1>1 DEF Begins
  <1>4. j \in 1 .. n /\ j - 1 \in 0 .. n /\ j \in 0 .. n
    BY <1>1 DEF Within
  <1>5. PICK s : s = src[j] /\ IsStatement(s) /\ Inert(s)
    <2>1. j \in DOMAIN src
      BY <1>1, <1>4, TextStatements
    <2> QED BY <1>1, <1>4, <2>1, TextStatements DEF Legal
  <1>6. PICK b \in Nat, e \in Nat, l \in Nat :
           b = o[j - 1] /\ e = o[j] /\ l = Len(Statement(s))
    BY <1>3, <1>4, <1>5, Lengths
  <1>7. e = b + l /\ b <= p /\ p < e
    BY <1>1, <1>4, <1>5, <1>6 DEF Begins, Within
  <1>8. PICK r \in Nat : r = p - b /\ r < l
    BY <1>7
  <1>9. PICK m, out : m = Meanings(src, st)[j - 1] /\ out = m.out
    OBVIOUS
  <1>10. /\ m.ok /\ out \in Seq(Value) /\ m.state = contractState /\ IsMeaning(m)
         /\ Phase(s, r, out)
    <2>1. m = Said(j - 1)
      BY <1>1, <1>9 DEF Said
    <2>2. IsMeaning(m)
      BY <1>1, <1>4, <1>9, MeaningsAre
    <2>3. ip - o[j - 1] = r /\ source[j] = s
      BY <1>1, <1>5, <1>6, <1>8
    <2> QED BY <1>9, <2>1, <2>2, <2>3 DEF Within
  <1>11. Meanings(src, st)[j] = MeaningOf(m, s)
    BY <1>1, <1>4, <1>5, <1>9, MeaningsDef
  <1>12. Site(s, r, out)
    <2>1. \A x \in 1 .. l : data[b + x] = Statement(s)[x]
      BY <1>1, <1>4, <1>5, <1>6 DEF Begins, Legal
    <2>2. r + 1 \in 1 .. l /\ b + (r + 1) = p + 1
      BY <1>7, <1>8
    <2>3. data[ip + 1] = Statement(s)[r + 1]
      BY <1>1, <2>1, <2>2
    <2>4. r > 0 => r \in 1 .. l /\ b + r = p /\ p > 0
      BY <1>7, <1>8
    <2>5. r > 0 => ip > 0 /\ data[ip] = Statement(s)[r]
      BY <1>1, <2>1, <2>4
    <2> QED BY <1>5, <1>10, <2>3, <2>5 DEF Site
  <1>13. \/ GoesOn(s, r, out)
         \/ Ends(s, r, MeaningOf(m, s))
         \/ FailsAs(MeaningOf(m, s))
    BY <1>6, <1>8, <1>9, <1>10, <1>12, PhaseStep
  <1>14. Goes => /\ ip' = p + 1
                 /\ status' \in {"running", "nil"}
                 /\ status' = "running" <=> ip' < Len(data')
    <2>1. Len(data) \in Nat
      BY DEF Inv, ProgramInv
    <2> QED BY <1>1, <1>2, <2>1 DEF Goes
  <1>15. CASE GoesOn(s, r, out)
    <2>1. Goes /\ contractState' = contractState /\ Phase(s, r + 1, out)' /\ r + 1 < l
      BY <1>6, <1>15 DEF GoesOn
    <2>2. ip' = p + 1
      BY <1>14, <2>1
    <2>3. b <= p + 1 /\ p + 1 < e /\ (p + 1) - b = r + 1
      BY <1>7, <1>8, <2>1
    <2>4. Within(o, j)'
      <3>1. Said(j - 1)' = m
        BY <1>2, <1>9 DEF Said
      <3>2. j \in 1 .. Len(source')
        BY <1>1, <1>2, <1>4
      <3>3. o[j - 1] <= ip' /\ ip' < o[j]
        BY <1>6, <2>2, <2>3
      <3>4. contractState' = m.state
        BY <1>10, <2>1
      <3>5. source'[j] = s /\ ip' - o[j - 1] = r + 1
        BY <1>2, <1>5, <1>6, <2>2, <2>3
      <3>6. PICK q : q = r + 1
        OBVIOUS
      <3>7. Phase(s, q, out)'
        BY <2>1, <3>6
      <3> QED BY <1>9, <1>10, <3>1, <3>2, <3>3, <3>4, <3>5, <3>6, <3>7 DEF Within
    <2> QED BY <1>14, <2>1, <2>4 DEF Follows
  <1>16. CASE Ends(s, r, MeaningOf(m, s))
    <2>1. PICK d : d = MeaningOf(m, s)
      OBVIOUS
    <2>2. Goes /\ stack' = d.out /\ r + 1 = l /\ d.ok /\ contractState' = d.state
      BY <1>6, <1>16, <2>1 DEF Ends, Moves
    <2>3. Said(j)' = d
      BY <1>2, <1>11, <2>1 DEF Said
    <2>4. ip' = o[j]
      <3>1. p + 1 = e
        BY <1>7, <1>8, <2>2
      <3> QED BY <1>6, <1>14, <2>2, <3>1
    <2>5. j \in 0 .. Len(source')
      BY <1>1, <1>2, <1>4
    <2>6. Between(o, j)'
      BY <2>2, <2>3, <2>4, <2>5 DEF Between
    <2> QED BY <1>14, <2>2, <2>6 DEF Follows
  <1>17. CASE FailsAs(MeaningOf(m, s))
    <2>1. Said(j)' = MeaningOf(m, s)
      BY <1>2, <1>11 DEF Said
    <2>2. j \in 1 .. Len(source')
      BY <1>1, <1>2, <1>4
    <2>3. Failed(j)'
      BY <1>17, <2>1, <2>2 DEF Failed, FailsAs, Fails
    <2>4. status' = "error"
      BY <1>17 DEF FailsAs, Fails
    <2> QED BY <2>3, <2>4 DEF Follows
  <1> QED BY <1>13, <1>15, <1>16, <1>17

LEMMA ExecKeeps ==
    ASSUME Inv, Doing, Exec
    PROVE  Doing'
  <1>1. SUFFICES ASSUME Legal' PROVE (\E o : Begins(source, o) /\ Follows(o))'
    BY DEF Doing
  <1>2. source' = source /\ data' = data /\ status = "running" /\ ip < Len(data)
    BY ExecMoves DEF program
  <1>3. Legal
    BY <1>1, <1>2 DEF Legal
  <1>4. PICK o : Begins(source, o) /\ Follows(o)
    BY <1>3 DEF Doing
  <1>5. PICK j : Within(o, j)
    <2>1. PICK j : Between(o, j) \/ Within(o, j)
      BY <1>2, <1>4 DEF Follows
    <2>2. CASE Between(o, j)
      BY <1>2, <1>3, <1>4, <2>2, Advance
    <2> QED BY <2>1, <2>2
  <1>6. Follows(o)'
    BY <1>3, <1>4, <1>5, StepWithin
  <1>7. Begins(source, o)'
    BY <1>2, <1>4
  <1> QED BY <1>6, <1>7

(***************************************************************************)
(* The invariant: the bytes are those of the text, and Run follows it.     *)
(***************************************************************************)
ProgramText == data = <<>> \/ (source \in Source /\ data = Compile(source))

TextInv == Inv /\ ProgramText /\ Doing

LEMMA TextInit == Init => TextInv
  <1> SUFFICES ASSUME Init PROVE TextInv
    OBVIOUS
  <1>1. data = <<>>
    BY DEF Init
  <1> QED BY <1>1, InvInit DEF TextInv, ProgramText, Doing, Legal

(* The next program starts between the statements of its text. *)
LEMMA NewVMKeeps ==
    ASSUME Inv, NEW src \in Source, NewVM(src)
    PROVE  ProgramText' /\ Doing'
  <1>1. /\ source' = src /\ data' = Compile(src) /\ before' = contractState
        /\ ip' = 0 /\ stack' = <<>> /\ status' = "running" /\ contractState' = contractState
    BY DEF NewVM, Start
  <1>2. ProgramText'
    BY <1>1 DEF ProgramText
  <1>3. SUFFICES ASSUME Legal' PROVE (\E o : Begins(source, o) /\ Follows(o))'
    BY <1>2 DEF Doing
  <1>4. PICK o : Begins(src, o)
    BY TextBegins
  <1>5. PICK st : st = contractState
    OBVIOUS
  <1>6. Meanings(src, st)[0] = [ok |-> TRUE, state |-> st, out |-> <<>>]
    BY TextStatements, MeaningsDef
  <1>7. PICK m : m = Said(0)' /\ m = [ok |-> TRUE, state |-> st, out |-> <<>>]
    BY <1>1, <1>5, <1>6 DEF Said
  <1>8. m.ok /\ m.state = st /\ m.out = <<>>
    BY <1>7
  <1>9. Between(o, 0)'
    <2>1. 0 \in 0 .. Len(source') /\ ip' = o[0]
      BY <1>1, <1>4, TextStatements DEF Begins
    <2> QED BY <1>1, <1>5, <1>7, <1>8, <2>1 DEF Between
  <1>10. ip' < Len(data')
    <2>1. Compile(src) \in Seq(Byte) /\ Compile(src) # <<>>
      BY <1>1, <1>3, CompileType DEF Legal
    <2>2. Len(Compile(src)) \in Nat \ {0}
      BY <2>1
    <2> QED BY <1>1, <2>2
  <1>11. Follows(o)'
    BY <1>1, <1>9, <1>10 DEF Follows
  <1> QED BY <1>1, <1>4, <1>11

LEMMA TextNext == TextInv /\ [Next]_vars => TextInv'
  <1> SUFFICES ASSUME TextInv, [Next]_vars PROVE TextInv'
    OBVIOUS
  <1>1. Inv' /\ Inv /\ ProgramText /\ Doing
    BY InvNext DEF TextInv
  <1>2. CASE RunEmpty
    <2>1. data' = <<>>
      BY <1>2 DEF RunEmpty, Stop, program
    <2> QED BY <1>1, <2>1 DEF TextInv, ProgramText, Doing, Legal
  <1>3. CASE Exec
    <2>1. ProgramText'
      BY <1>1, <1>3, ExecMoves DEF ProgramText, program
    <2> QED BY <1>1, <1>3, <2>1, ExecKeeps DEF TextInv
  <1>4. ASSUME NEW src \in Source, NewVM(src) PROVE TextInv'
    BY <1>1, <1>4, NewVMKeeps DEF TextInv
  <1>5. CASE UNCHANGED vars
    <2>1. ProgramText'
      BY <1>1, <1>5 DEF vars, ProgramText
    <2>2. Doing'
      <3>1. SUFFICES ASSUME Legal' PROVE (\E o : Begins(source, o) /\ Follows(o))'
        BY DEF Doing
      <3>2. PICK o : Begins(source, o) /\ Follows(o)
        BY <1>1, <1>5, <3>1 DEF vars, Doing, Legal
      <3>3. Begins(source, o)'
        BY <1>5, <3>2 DEF vars
      <3>4. /\ source' = source /\ before' = before /\ data' = data /\ ip' = ip
            /\ stack' = stack /\ contractState' = contractState /\ status' = status
        BY <1>5 DEF vars
      <3>5. \A j : Failed(j) => Failed(j)'
        BY <3>4 DEF Failed, Said
      <3>6. \A j : Between(o, j) => Between(o, j)'
        BY <3>4 DEF Between, Said
      <3>7. ASSUME NEW s, NEW r, NEW out, Phase(s, r, out) PROVE Phase(s, r, out)'
        <4>1. InCode(s, r, out) => InCode(s, r, out)'
          BY <3>4 DEF InCode
        <4>2. InKey(s, r, out) => InKey(s, r, out)'
          BY <3>4 DEF InKey
        <4>3. AtPack(s, r, out) => AtPack(s, r, out)'
          BY <3>4 DEF AtPack
        <4>4. InInts(s, r, out) => InInts(s, r, out)'
          BY <3>4 DEF InInts
        <4>5. InAdds(s, r, out) => InAdds(s, r, out)'
          BY <3>4 DEF InAdds
        <4>6. AtGet(s, r, out) => AtGet(s, r, out)'
          BY <3>4 DEF AtGet
        <4> QED BY <3>7, <4>1, <4>2, <4>3, <4>4, <4>5, <4>6 DEF Phase
      <3>8. \A j : Within(o, j) => Within(o, j)'
        BY <3>4, <3>7 DEF Within, Said
      <3>9. Follows(o)'
        BY <3>2, <3>4, <3>5, <3>6, <3>8 DEF Follows
      <3> QED BY <3>3, <3>9
    <2> QED BY <1>1, <2>1, <2>2 DEF TextInv
  <1> QED BY <1>2, <1>3, <1>4, <1>5 DEF Next

LEMMA TextEnds == TextInv => CompiledRuns
  <1> SUFFICES ASSUME TextInv, \A i \in DOMAIN source : Inert(source[i]),
                      status # "running", data # <<>>
               PROVE  /\ contractState = Meaning.state
                      /\ Meaning.ok => status = "nil" /\ stack = Meaning.out
                      /\ ~Meaning.ok => status = "error"
    BY DEF CompiledRuns
  <1>1. Legal /\ Inv
    BY DEF TextInv, ProgramText, Legal
  <1>2. PICK o : Begins(source, o) /\ Follows(o)
    BY <1>1 DEF TextInv, Doing
  <1>3. PICK src \in Source, n \in Nat : src = source /\ n = Len(src) /\ n \in 0 .. n
    BY <1>1, TextStatements DEF Legal
  <1>4. CASE status = "error"
    <2>1. PICK j : Failed(j)
      BY <1>2, <1>4 DEF Follows
    <2>2. j \in 0 .. n /\ ~Meanings(src, before)[j].ok /\ contractState = Said(j).state
      BY <1>3, <2>1 DEF Failed, Said
    <2>3. Meaning = Said(j)
      BY <1>3, <2>2, FailedStays DEF Meaning, Said
    <2> QED BY <1>3, <1>4, <2>2, <2>3 DEF Said
  <1>5. CASE status # "error"
    <2>1. PICK j : Between(o, j) \/ Within(o, j)
      BY <1>2, <1>5 DEF Follows
    <2>2. status = "nil" /\ ~(ip < Len(data))
      BY <1>2, <1>5 DEF Follows
    <2>3. ip = Len(data) /\ ip = o[n]
      BY <1>1, <1>2, <1>3, <2>2 DEF Inv, ProgramInv, Begins, Legal
    <2>4. ~Within(o, j)
      <3>1. SUFFICES ASSUME j \in 1 .. n, ip < o[j] PROVE FALSE
        BY <1>3 DEF Within
      <3>2. o[j] <= o[n]
        BY <1>2, <1>3, <3>1, Monotone
      <3>3. o[j] \in Nat /\ o[n] \in Nat
        <4>1. o \in [0 .. n -> Nat]
          BY <1>2, <1>3 DEF Begins
        <4>2. j \in 0 .. n /\ n \in 0 .. n
          BY <3>1
        <4> QED BY <4>1, <4>2
      <3> QED BY <2>3, <3>1, <3>2, <3>3
    <2>5. /\ j \in 0 .. n /\ o[j] = o[n]
          /\ Said(j).ok /\ stack = Said(j).out /\ contractState = Said(j).state
      BY <1>3, <2>1, <2>3, <2>4 DEF Between
    <2>6. Said(j) = Meaning
      BY <1>2, <1>3, <2>5, EmptyTail DEF Meaning, Said
    <2> QED BY <2>2, <2>5, <2>6
  <1> QED BY <1>4, <1>5

(* Whatever the texts, the depth and the programs before it are: a program
   whose operands are no instructions ends as its text says, or fails exactly
   where a statement finds no slot or no key. *)
THEOREM ProgramsDoWhatTheySay == Spec => []CompiledRuns
  <1> QED BY TextInit, TextNext, TextEnds, PTL DEF Spec
=============================================================================
