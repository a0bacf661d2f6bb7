---------------------------- MODULE MessagesProofs ----------------------------
(***************************************************************************)
(* Proofs about Params and Messages: what the writers of a message make of *)
(* the values, what its reader makes of the bytes, for every sequence of   *)
(* values and types, every content and every bound.                        *)
(***************************************************************************)
EXTENDS Messages, FiniteSetTheorems, SequenceTheorems, WellFoundedInduction, TLAPS

Byte == 0 .. Base - 1

-------------------------------------------------------------------------------
(* Induction on the natural numbers, over a set instead of a predicate. *)

LEMMA LeastNumber ==
  ASSUME NEW T \in SUBSET Nat, T # {}
  PROVE  \E n \in T : \A m \in T : n <= m
  <1> DEFINE R == OpToRel(<, Nat)
  <1>1. IsWellFoundedOn(R, Nat)
    BY NatLessThanWellFounded
  <1>2. \A m, n \in Nat : m < n => << m, n >> \in R
    BY DEF OpToRel
  <1> HIDE DEF R
  <1>3. PICK n \in T : \A m \in T : ~(<< m, n >> \in R)
    BY <1>1, WFMin
  <1>4. ASSUME NEW m \in T PROVE n <= m
    <2>1. m \in Nat /\ n \in Nat /\ ~(m < n)
      BY <1>2, <1>3
    <2>2. QED BY <2>1
  <1>5. QED BY <1>3, <1>4

(* What holds of 0 and is handed on from i - 1 to i holds up to n. *)
LEMMA UpTo ==
  ASSUME NEW n \in Nat, NEW S, 0 \in S, \A i \in 1 .. n : i - 1 \in S => i \in S
  PROVE  \A i \in 0 .. n : i \in S
  <1> DEFINE T == {i \in 0 .. n : i \notin S}
  <1> SUFFICES ASSUME T # {} PROVE FALSE
    OBVIOUS
  <1>1. T \in SUBSET Nat
    OBVIOUS
  <1>2. PICK least \in T : \A i \in T : least <= i
    BY <1>1, LeastNumber
  <1>3. least \in 1 .. n /\ least \notin S
    BY <1>2
  <1>4. least - 1 \in 0 .. n /\ ~(least <= least - 1)
    BY <1>3
  <1>5. least - 1 \in S
    BY <1>2, <1>4
  <1>6. QED BY <1>3, <1>5

(* A sequence of functions can be applied one after the other. *)
Steps(n, X) == [1 .. n -> [X -> X]]
IsPath(g, X, x0, n, F) ==
  g \in [0 .. n -> X] /\ g[0] = x0 /\ \A i \in 1 .. n : g[i] = F[i][g[i - 1]]

LEMMA Iterated ==
  ASSUME NEW X, NEW x0 \in X, NEW n \in Nat, NEW F \in Steps(n, X)
  PROVE  \E g : IsPath(g, X, x0, n, F)
  <1> USE DEF Steps
  <1> DEFINE S == {k \in 0 .. n : \E g \in [0 .. k -> X] :
                     g[0] = x0 /\ \A i \in 1 .. k : g[i] = F[i][g[i - 1]]}
  <1>1. 0 \in S
    <2> DEFINE g0 == [i \in 0 .. 0 |-> x0]
    <2>1. g0 \in [0 .. 0 -> X] /\ g0[0] = x0 /\ \A i \in 1 .. 0 : g0[i] = F[i][g0[i - 1]]
      OBVIOUS
    <2> HIDE DEF g0
    <2>2. QED BY <2>1
  <1>2. ASSUME NEW k \in 1 .. n, k - 1 \in S PROVE k \in S
    <2>1. PICK g \in [0 .. k - 1 -> X] :
                  g[0] = x0 /\ \A i \in 1 .. k - 1 : g[i] = F[i][g[i - 1]]
      BY <1>2
    <2> DEFINE h == [i \in 0 .. k |-> IF i = k THEN F[k][g[k - 1]] ELSE g[i]]
    <2>2. g[k - 1] \in X /\ F[k][g[k - 1]] \in X
      OBVIOUS
    <2>3. h \in [0 .. k -> X] /\ h[0] = x0
      BY <2>1, <2>2
    <2>4. \A i \in 1 .. k : h[i] = F[i][h[i - 1]]
      <3> SUFFICES ASSUME NEW i \in 1 .. k PROVE h[i] = F[i][h[i - 1]]
        OBVIOUS
      <3>1. i - 1 \in 0 .. k - 1 /\ i - 1 # k /\ h[i - 1] = g[i - 1]
        OBVIOUS
      <3>2. CASE i = k
        BY <3>1, <3>2
      <3>3. CASE i # k
        <4>1. i \in 1 .. k - 1 /\ h[i] = g[i]
          BY <3>3
        <4>2. QED BY <2>1, <3>1, <4>1
      <3>4. QED BY <3>2, <3>3
    <2> HIDE DEF h
    <2>5. \E f \in [0 .. k -> X] : f[0] = x0 /\ \A i \in 1 .. k : f[i] = F[i][f[i - 1]]
      BY <2>3, <2>4, Zenon
    <2>6. k \in 0 .. n
      OBVIOUS
    <2>7. QED BY <2>5, <2>6
  <1> HIDE DEF S
  <1>3. \A k \in 0 .. n : k \in S
    BY <1>1, <1>2, UpTo
  <1>4. n \in S
    BY <1>3
  <1>5. QED BY <1>4 DEF S, IsPath

-------------------------------------------------------------------------------
(* Writing. *)

(* The values that can be written, those of the script and those of a message read. *)
Written == [type : DOMAIN Width \cup {"STRING"}, bytes : Seq(Byte)]

LEMMA EncodeIsBytes ==
  ASSUME NEW v \in Written
  PROVE  Encode(v) \in Seq(Byte) /\ Len(Encode(v)) = SizeOf(v) /\ SizeOf(v) \in Nat
  <1>1. v.bytes \in Seq(Byte) /\ Len(v.bytes) \in Nat
    BY DEF Written
  <1>2. CASE v.type = "STRING"
    <2>1. CountBytes(Len(v.bytes)) \in Seq(Byte) /\ Len(CountBytes(Len(v.bytes))) = 2
      <3>1. Len(v.bytes) % Base \in Byte /\ (Len(v.bytes) \div Base) % Base \in Byte
        <4>1. \A a \in Nat : a % Base \in 0 .. Base - 1 /\ a \div Base \in Nat
          BY ParamsAssumption
        <4>2. QED BY <1>1, <4>1 DEF Byte
      <3>2. QED BY <3>1 DEF CountBytes
    <2>2. Encode(v) = CountBytes(Len(v.bytes)) \o v.bytes
      BY <1>2 DEF Encode
    <2>3. SizeOf(v) = Len(v.bytes) + 2
      BY <1>2 DEF SizeOf
    <2> DEFINE count == CountBytes(Len(v.bytes))
    <2>4. count \in Seq(Byte) /\ Len(count) = 2 /\ Encode(v) = count \o v.bytes
          /\ v.bytes \in Seq(Byte)
      BY <1>1, <2>1, <2>2
    <2> HIDE DEF count
    <2>5. count \o v.bytes \in Seq(Byte) /\ Len(count \o v.bytes) = Len(count) + Len(v.bytes)
      BY <2>4, ConcatProperties
    <2>6. QED BY <1>1, <2>3, <2>4, <2>5
  <1>3. CASE v.type # "STRING"
    BY <1>1, <1>3 DEF Encode, SizeOf
  <1>4. QED BY <1>2, <1>3

(* EncodeSome as the end of a sequence of steps. *)
LEMMA EncodeSteps ==
  ASSUME NEW values \in Seq(Written), NEW some
  PROVE  \E u \in [0 .. Len(values) -> Seq(Byte)] :
           /\ u[0] = << >>
           /\ \A i \in 1 .. Len(values) :
                u[i] = u[i - 1] \o (IF i \in some THEN Encode(values[i]) ELSE << >>)
           /\ EncodeSome(values, some) = u[Len(values)]
  <1> DEFINE n == Len(values)
             Part(i) == IF i \in some THEN Encode(values[i]) ELSE << >>
             F == [i \in 1 .. n |-> [s \in Seq(Byte) |-> s \o Part(i)]]
             Right(u) == u = [i \in 0 .. n |-> IF i = 0 THEN << >> ELSE u[i - 1] \o Part(i)]
  <1>1. n \in Nat /\ << >> \in Seq(Byte)
    OBVIOUS
  <1>2. \A i \in 1 .. n : Part(i) \in Seq(Byte)
    <2>1. \A i \in 1 .. n : values[i] \in Written
      OBVIOUS
    <2>2. QED BY <1>1, <2>1, EncodeIsBytes
  <1> HIDE DEF Part
  <1>3. F \in [1 .. n -> [Seq(Byte) -> Seq(Byte)]]
    BY <1>2
  <1>4. PICK g \in [0 .. n -> Seq(Byte)] : g[0] = << >> /\ \A i \in 1 .. n : g[i] = F[i][g[i - 1]]
    <2> HIDE DEF F, n
    <2>1. F \in Steps(n, Seq(Byte))
      BY <1>3 DEF Steps
    <2>2. PICK f : IsPath(f, Seq(Byte), << >>, n, F)
      BY <1>1, <2>1, Iterated, Zenon
    <2>3. QED BY <2>2 DEF IsPath
  <1>5. \A i \in 1 .. n : g[i] = g[i - 1] \o Part(i)
    <2> SUFFICES ASSUME NEW i \in 1 .. n PROVE g[i] = g[i - 1] \o Part(i)
      OBVIOUS
    <2>1. g[i - 1] \in Seq(Byte)
      BY <1>1, <1>4
    <2>2. QED BY <1>4, <2>1
  <1>6. Right(g)
    <2> DEFINE h == [i \in 0 .. n |-> IF i = 0 THEN << >> ELSE g[i - 1] \o Part(i)]
    <2>1. \A i \in 0 .. n : g[i] = h[i]
      BY <1>1, <1>4, <1>5
    <2>2. QED BY <1>4, <2>1
  <1> DEFINE u == CHOOSE f : Right(f)
  <1>7. Right(u)
    BY <1>6
  <1>8. EncodeSome(values, some) = u[n]
    BY DEF EncodeSome, Part
  <1> HIDE DEF u
  <1>9. DOMAIN u = 0 .. n /\ u[0] = << >> /\ \A i \in 1 .. n : u[i] = u[i - 1] \o Part(i)
    <2> HIDE DEF n
    <2>1. u = [i \in 0 .. n |-> IF i = 0 THEN << >> ELSE u[i - 1] \o Part(i)]
      BY <1>7
    <2>2. DOMAIN u = 0 .. n /\ u[0] = << >>
      BY <1>1, <2>1
    <2>3. \A i \in 1 .. n : i \in 0 .. n /\ i # 0
      BY <1>1
    <2>4. \A i \in 1 .. n : u[i] = u[i - 1] \o Part(i)
      BY <2>1, <2>3, Zenon
    <2>5. QED BY <2>2, <2>4
  <1>10. \A i \in 0 .. n : u[i] = g[i]
    <2> DEFINE S == {i \in 0 .. n : u[i] = g[i]}
    <2>1. 0 \in S
      BY <1>1, <1>4, <1>9
    <2>2. ASSUME NEW i \in 1 .. n, i - 1 \in S PROVE i \in S
      <3>1. u[i - 1] = g[i - 1] /\ i \in 0 .. n
        BY <1>1, <2>2
      <3>2. u[i] = g[i]
        BY <1>5, <1>9, <3>1, Zenon
      <3>3. QED BY <3>1, <3>2
    <2> HIDE DEF S
    <2>3. \A i \in 0 .. n : i \in S
      BY <1>1, <2>1, <2>2, UpTo
    <2>4. QED BY <2>3 DEF S
  <1>11. EncodeSome(values, some) = g[n]
    BY <1>1, <1>8, <1>10
  <1>12. QED BY <1>4, <1>5, <1>11 DEF Part

(* What is appended is encoded last; of some only the places of values matter. *)
LEMMA EncodeAppend ==
  ASSUME NEW values \in Seq(Written), NEW v \in Written, NEW some, NEW other,
         \A i \in 1 .. Len(values) : i \in other <=> i \in some
  PROVE  EncodeSome(Append(values, v), other)
           = EncodeSome(values, some)
             \o (IF Len(values) + 1 \in other THEN Encode(v) ELSE << >>)
  <1> DEFINE n == Len(values)
             longer == Append(values, v)
             Part(i) == IF i \in some THEN Encode(values[i]) ELSE << >>
             PartLonger(i) == IF i \in other THEN Encode(longer[i]) ELSE << >>
  <1>1. n \in Nat /\ longer \in Seq(Written) /\ Len(longer) = n + 1 /\ longer[n + 1] = v
    BY AppendProperties
  <1>2. \A i \in 1 .. n : longer[i] = values[i]
    BY AppendProperties
  <1> HIDE DEF longer
  <1>3. PICK u \in [0 .. n -> Seq(Byte)] :
          /\ u[0] = << >> /\ \A i \in 1 .. n : u[i] = u[i - 1] \o Part(i)
          /\ EncodeSome(values, some) = u[n]
    BY EncodeSteps
  <1>4. PICK w \in [0 .. n + 1 -> Seq(Byte)] :
          /\ w[0] = << >> /\ \A i \in 1 .. n + 1 : w[i] = w[i - 1] \o PartLonger(i)
          /\ EncodeSome(longer, other) = w[n + 1]
    <2>1. \E w \in [0 .. Len(longer) -> Seq(Byte)] :
            /\ w[0] = << >> /\ \A i \in 1 .. Len(longer) : w[i] = w[i - 1] \o PartLonger(i)
            /\ EncodeSome(longer, other) = w[Len(longer)]
      BY <1>1, EncodeSteps
    <2>2. QED BY <1>1, <2>1
  <1>5. \A i \in 1 .. n : Part(i) = PartLonger(i)
    BY <1>2
  <1> HIDE DEF Part
  <1> DEFINE S == {i \in 0 .. n : w[i] = u[i]}
  <1>6. 0 \in S
    BY <1>1, <1>3, <1>4
  <1>7. ASSUME NEW i \in 1 .. n, i - 1 \in S PROVE i \in S
    <2>1. w[i - 1] = u[i - 1] /\ i \in 1 .. n + 1 /\ i \in 0 .. n
      BY <1>1, <1>7
    <2>2. w[i] = w[i - 1] \o PartLonger(i) /\ u[i] = u[i - 1] \o Part(i)
      BY <1>3, <1>4, <2>1
    <2>3. w[i] = u[i]
      BY <1>5, <2>1, <2>2, Zenon
    <2>4. QED BY <2>1, <2>3
  <1> HIDE DEF S
  <1>8. \A i \in 0 .. n : i \in S
    BY <1>1, <1>6, <1>7, UpTo
  <1>9. w[n] = u[n]
    BY <1>1, <1>8 DEF S
  <1> HIDE DEF PartLonger
  <1>10. n + 1 \in 1 .. n + 1 /\ n + 1 - 1 = n
    BY <1>1
  <1>11. w[n + 1] = w[n] \o PartLonger(n + 1)
    <2>1. \A i \in 1 .. n + 1 : w[i] = w[i - 1] \o PartLonger(i)
      BY <1>4
    <2> HIDE DEF n
    <2>2. \A i \in 1 .. n + 1 : i = n + 1 => w[i] = w[n] \o PartLonger(i)
      <3> SUFFICES ASSUME NEW i \in 1 .. n + 1, i = n + 1 PROVE w[i] = w[n] \o PartLonger(i)
        OBVIOUS
      <3>1. i - 1 = n
        BY <1>1
      <3>2. w[i] = w[i - 1] \o PartLonger(i)
        BY <2>1, Zenon
      <3>3. QED BY <3>1, <3>2, Zenon
    <2>3. QED BY <1>10, <2>2, Zenon
  <1>12. EncodeSome(longer, other) = EncodeSome(values, some) \o PartLonger(n + 1)
    BY <1>3, <1>4, <1>9, <1>11
  <1>13. PartLonger(n + 1) = IF Len(values) + 1 \in other THEN Encode(v) ELSE << >>
    BY <1>1 DEF PartLonger
  <1>14. QED BY <1>12, <1>13 DEF longer

LEMMA EncodeAllAppend ==
  ASSUME NEW values \in Seq(Written), NEW v \in Written
  PROVE  EncodeAll(Append(values, v)) = EncodeAll(values) \o Encode(v)
  <1> DEFINE n == Len(values)
             longer == Append(values, v)
             before == DOMAIN values
             after == DOMAIN longer
             last == IF n + 1 \in after THEN Encode(v) ELSE << >>
  <1>1. n \in Nat /\ before = 1 .. n /\ after = 1 .. n + 1
    BY AppendProperties
  <1>2. \A i \in 1 .. n : i \in after <=> i \in before
    BY <1>1
  <1>3. last = Encode(v)
    BY <1>1
  <1> HIDE DEF before, after
  <1>4. EncodeSome(longer, after) = EncodeSome(values, before) \o last
    BY <1>2, EncodeAppend
  <1>5. EncodeAll(longer) = EncodeSome(longer, after) /\ EncodeAll(values) = EncodeSome(values, before)
    BY DEF EncodeAll, before, after
  <1> HIDE DEF last, longer
  <1>6. EncodeAll(longer) = EncodeAll(values) \o Encode(v)
    BY <1>3, <1>4, <1>5
  <1>7. QED BY <1>6 DEF longer

LEMMA EncodeNone ==
  ASSUME NEW values \in Seq(Written), Len(values) = 0, NEW some
  PROVE  EncodeSome(values, some) = << >>
  <1>1. PICK u \in [0 .. Len(values) -> Seq(Byte)] :
          /\ u[0] = << >>
          /\ \A i \in 1 .. Len(values) :
               u[i] = u[i - 1] \o (IF i \in some THEN Encode(values[i]) ELSE << >>)
          /\ EncodeSome(values, some) = u[Len(values)]
    BY EncodeSteps
  <1>2. QED BY <1>1

LEMMA EncodeSomeIsBytes ==
  ASSUME NEW values \in Seq(Written), NEW some
  PROVE  EncodeSome(values, some) \in Seq(Byte)
  <1>1. PICK u \in [0 .. Len(values) -> Seq(Byte)] :
          /\ u[0] = << >>
          /\ \A i \in 1 .. Len(values) :
               u[i] = u[i - 1] \o (IF i \in some THEN Encode(values[i]) ELSE << >>)
          /\ EncodeSome(values, some) = u[Len(values)]
    BY EncodeSteps
  <1>2. Len(values) \in 0 .. Len(values)
    OBVIOUS
  <1>3. QED BY <1>1, <1>2

-------------------------------------------------------------------------------
(* The invariant.  The runs that fill messages are nested as the messages   *)
(* are, and there is a package while a message is open; what may have lost  *)
(* its package lies beneath what has not; bytes and size are what the       *)
(* values make; and each message that has not lost it has its package at    *)
(* its own place of the stack.                                              *)

Package == [player : Player, datasize : 0 .. Wrap - 1, body : Seq(Byte)]
Message == [run : Nat, player : Player, values : Seq(Value), bytes : Seq(Byte),
            size : Nat, tainted : BOOLEAN]

InRuns ==
  /\ \A i \in DOMAIN open : open[i].run \in 1 .. Depth
  /\ \A i, j \in DOMAIN open : i <= j => open[j].run <= open[i].run
  /\ open # << >> => packages # << >>

TaintBelow == \A i, j \in DOMAIN open : i <= j /\ open[i].tainted => open[j].tainted

Adds(m) ==
  /\ m.bytes = EncodeAll(m.values)
  /\ HeadSize <= m.size
  /\ \A k \in DOMAIN m.values : HeadSize + SizeOf(m.values[k]) <= m.size

Strings(values) == {k \in DOMAIN values : values[k].type = "STRING"}

Holds(p, m) ==
  /\ p.player = m.player
  /\ HeadSize <= p.datasize
  /\ Fits(m) => p.datasize = m.size /\ p.body = m.bytes
  /\ p.datasize < MaxSend =>
       /\ Len(p.body) = p.datasize - HeadSize
       /\ \E out \in SUBSET Strings(m.values) :
            p.body = EncodeSome(Cut(m.values), DOMAIN m.values \ out)

OnTop ==
  \A i \in DOMAIN open : ~open[i].tainted => i <= Len(packages) /\ Holds(packages[i], open[i])

AddsAll ==
  /\ \A i \in DOMAIN open : Adds(open[i])
  /\ \A i \in DOMAIN sent : Adds(sent[i].meant) /\ sent[i].meant \in Message

MessagesInv ==
  /\ MessagesTypeOK /\ InRuns /\ TaintBelow /\ AddsAll /\ OnTop /\ SentAsAdded
  /\ msgcfg = ReadMsgConfigure(Nodes)

-------------------------------------------------------------------------------
(* The additions. *)

LEMMA ValueFacts ==
  ASSUME NEW v \in Value
  PROVE  /\ v \in Written /\ v.bytes \in Seq(Byte)
         /\ v.type # "STRING" => v.type \in DOMAIN Width /\ SizeOf(v) > 0
         /\ v.type = "STRING" => v.type \notin DOMAIN Width /\ SizeOf(v) = Len(v.bytes) + 2
         /\ SizeOf(v) \in Nat
  <1>1. v \in Written
    BY MessagesAssumption DEF Written, Byte
  <1>2. v.type # "STRING" => Len(v.bytes) = Width[v.type] /\ v.type \in DOMAIN Width
    BY <1>1, MessagesAssumption DEF Written
  <1>3. v.type # "STRING" => Len(v.bytes) > 0 /\ SizeOf(v) = Len(v.bytes)
    <2>1. \A type \in DOMAIN Width : Width[type] > 0
      BY ParamsAssumption
    <2>2. SizeOf(v) = Len(v.bytes) + (IF v.type = "STRING" THEN 2 ELSE 0) /\ Len(v.bytes) \in Nat
      BY <1>1 DEF SizeOf, Written
    <2>3. QED BY <1>2, <2>1, <2>2
  <1>4. v.type = "STRING" => SizeOf(v) = Len(v.bytes) + 2 /\ v.type \notin DOMAIN Width
    BY ParamsAssumption DEF SizeOf
  <1>5. QED BY <1>1, <1>2, <1>3, <1>4, EncodeIsBytes DEF Written

(* What a message becomes when a value is added to it. *)
Grown(m, v) == [m EXCEPT !.values = Append(@, v), !.bytes = @ \o Encode(v), !.size = @ + SizeOf(v)]
Cutting(v) == IF v.type = "STRING" THEN Kept(v) ELSE v

LEMMA KeptFacts ==
  ASSUME NEW v \in Value, v.type = "STRING"
  PROVE  /\ Kept(v) \in Written /\ Kept(v).type = "STRING"
         /\ SizeOf(Kept(v)) \in Nat /\ SizeOf(Kept(v)) = Len(Kept(v).bytes) + 2
         /\ SizeOf(v) < Wrap => Kept(v) = v
  <1> DEFINE n == Len(v.bytes) % Wrap
  <1>1. v \in Written /\ v.bytes \in Seq(Byte) /\ SizeOf(v) = Len(v.bytes) + 2
    BY ValueFacts
  <1>2. n \in 0 .. Len(v.bytes) /\ (Len(v.bytes) < Wrap => n = Len(v.bytes))
    <2>1. \A a, b \in Nat : b > 0 => a % b \in 0 .. a /\ (a < b => a % b = a)
      OBVIOUS
    <2>2. Wrap \in Nat /\ Wrap > 0 /\ Len(v.bytes) \in Nat
      BY <1>1, MessagesAssumption
    <2>3. QED BY <2>1, <2>2
  <1>3. Kept(v) = [v EXCEPT !.bytes = SubSeq(v.bytes, 1, n)]
    BY DEF Kept
  <1> HIDE DEF n
  <1>4. SubSeq(v.bytes, 1, n) \in Seq(Byte)
    <2>1. \A k \in 1 .. n : v.bytes[k] \in Byte
      BY <1>1, <1>2
    <2>2. QED BY <1>1, <1>2, <2>1
  <1>5. Kept(v) \in Written /\ Kept(v).type = "STRING"
    BY <1>1, <1>3, <1>4 DEF Written
  <1>6. Len(v.bytes) < Wrap => Kept(v) = v
    <2>1. SubSeq(v.bytes, 1, Len(v.bytes)) = v.bytes
      BY <1>1
    <2>2. QED BY <1>1, <1>2, <1>3, <2>1 DEF Written
  <1>7. SizeOf(Kept(v)) = Len(Kept(v).bytes) + 2
    BY <1>5 DEF SizeOf
  <1>8. Len(v.bytes) \in Nat /\ Wrap \in Nat
    BY <1>1, MessagesAssumption
  <1>9. QED BY <1>1, <1>5, <1>6, <1>7, <1>8, EncodeIsBytes

LEMMA CuttingFacts ==
  ASSUME NEW v \in Value
  PROVE  /\ Cutting(v) \in Written /\ SizeOf(Cutting(v)) \in Nat
         /\ Encode(Cutting(v)) \in Seq(Byte) /\ Len(Encode(Cutting(v))) = SizeOf(Cutting(v))
         /\ SizeOf(v) < Wrap => Cutting(v) = v
  <1>1. Cutting(v) \in Written
    BY KeptFacts, ValueFacts DEF Cutting
  <1>2. SizeOf(v) < Wrap => Cutting(v) = v
    BY KeptFacts DEF Cutting
  <1>3. QED BY <1>1, <1>2, EncodeIsBytes

LEMMA CutIsWritten ==
  ASSUME NEW values \in Seq(Value)
  PROVE  /\ Cut(values) \in Seq(Written) /\ Len(Cut(values)) = Len(values)
         /\ \A i \in 1 .. Len(values) : Cut(values)[i] = Cutting(values[i])
  <1> DEFINE n == Len(values)
  <1>1. n \in Nat /\ DOMAIN values = 1 .. n
    OBVIOUS
  <1>2. \A i \in 1 .. n : values[i] \in Value /\ Cutting(values[i]) \in Written
    BY CuttingFacts
  <1>3. Cut(values) = [i \in 1 .. n |-> Cutting(values[i])]
    BY <1>1 DEF Cut, Cutting
  <1>4. QED BY <1>1, <1>2, <1>3

LEMMA CutAppend ==
  ASSUME NEW values \in Seq(Value), NEW v \in Value
  PROVE  Cut(Append(values, v)) = Append(Cut(values), Cutting(v))
  <1> DEFINE n == Len(values)
             longer == Append(values, v)
  <1>1. n \in Nat /\ longer \in Seq(Value) /\ Len(longer) = n + 1 /\ longer[n + 1] = v
        /\ \A i \in 1 .. n : longer[i] = values[i]
    BY AppendProperties
  <1>2. DOMAIN values = 1 .. n /\ DOMAIN longer = 1 .. n + 1
    BY <1>1
  <1>3. \A i \in 1 .. n : Cut(values)[i] = Cutting(values[i])
    BY CutIsWritten
  <1>5. Cut(longer) = [i \in 1 .. n + 1 |-> Cutting(longer[i])]
    BY <1>2 DEF Cut, Cutting
  <1> HIDE DEF longer
  <1>6. Cut(values) \in Seq(Written) /\ Len(Cut(values)) = n
    BY CutIsWritten
  <1>7. Cutting(v) \in Written
    BY CuttingFacts
  <1> DEFINE shorter == Cut(values)
             both == Append(shorter, Cutting(v))
  <1>8. both \in Seq(Written) /\ Len(both) = n + 1 /\ both[n + 1] = Cutting(v)
        /\ \A i \in 1 .. n : both[i] = shorter[i]
    <2> HIDE DEF shorter
    <2>1. shorter \in Seq(Written) /\ Len(shorter) = n
      BY <1>6 DEF shorter
    <2>2. QED BY <1>7, <2>1, AppendProperties
  <1>9. both = [i \in 1 .. n + 1 |-> both[i]]
    <2> HIDE DEF both
    <2>1. QED BY <1>1, <1>8
  <1> HIDE DEF both
  <1>10. \A i \in 1 .. n + 1 : both[i] = Cutting(longer[i])
    <2>1. \A i \in 1 .. n + 1 : i \in 1 .. n \/ i = n + 1
      BY <1>1
    <2>2. \A i \in 1 .. n : both[i] = Cutting(longer[i])
      BY <1>1, <1>3, <1>8
    <2>3. both[n + 1] = Cutting(longer[n + 1])
      BY <1>1, <1>8
    <2>4. QED BY <2>1, <2>2, <2>3, Zenon
  <1>11. Cut(longer) = both
    BY <1>5, <1>9, <1>10, Zenon
  <1>12. QED BY <1>11 DEF longer, both

LEMMA AddIsPackage ==
  ASSUME NEW p \in Package, NEW v \in Value
  PROVE  Add(p, v) \in Package /\ Add(p, v).player = p.player
  <1>1. Wrap \in Nat /\ Wrap > 0 /\ MaxSend \in Nat /\ MaxSend < Wrap
    BY MessagesAssumption
  <1>2. p.body \in Seq(Byte) /\ p.datasize \in Nat
    BY DEF Package
  <1>3. CASE v.type = "STRING"
    <2>1. Kept(v) \in Written /\ SizeOf(Kept(v)) \in Nat
      BY <1>3, KeptFacts
    <2>2. Encode(Kept(v)) \in Seq(Byte)
      BY <2>1, EncodeIsBytes
    <2>3. p.body \o Encode(Kept(v)) \in Seq(Byte)
      BY <1>2, <2>2, ConcatProperties
    <2>4. p.datasize + SizeOf(Kept(v)) < MaxSend => p.datasize + SizeOf(Kept(v)) \in 0 .. Wrap - 1
      BY <1>1, <1>2, <2>1
    <2>5. p.datasize + SizeOf(Kept(v)) >= MaxSend \/ p.datasize + SizeOf(Kept(v)) < MaxSend
      BY <1>1, <1>2, <2>1
    <2>6. AddValueString(p, v) \in Package /\ AddValueString(p, v).player = p.player
      BY <2>3, <2>4, <2>5 DEF AddValueString, Package
    <2>7. QED BY <1>3, <2>6 DEF Add
  <1>4. CASE v.type # "STRING"
    <2>1. v \in Written /\ SizeOf(v) \in Nat
      BY ValueFacts
    <2>2. Encode(v) \in Seq(Byte)
      BY <2>1, EncodeIsBytes
    <2>3. p.body \o Encode(v) \in Seq(Byte)
      BY <1>2, <2>2, ConcatProperties
    <2>4. (p.datasize + SizeOf(v)) % Wrap \in 0 .. Wrap - 1
      BY <1>1, <1>2, <2>1
    <2>5. AddValue(p, v) \in Package /\ AddValue(p, v).player = p.player
      BY <2>3, <2>4 DEF AddValue, Package
    <2>6. QED BY <1>4, <2>5 DEF Add
  <1>5. QED BY <1>3, <1>4

LEMMA ValuesAreWritten ==
  ASSUME NEW values \in Seq(Value)
  PROVE  values \in Seq(Written)
  <1>1. \A i \in 1 .. Len(values) : values[i] \in Written
    BY ValueFacts
  <1>2. QED BY <1>1

LEMMA GrownIsMessage ==
  ASSUME NEW m \in Message, NEW v \in Value, Adds(m)
  PROVE  Grown(m, v) \in Message /\ Adds(Grown(m, v))
  <1> DEFINE g == Grown(m, v)
             n == Len(m.values)
             longer == Append(m.values, v)
  <1>1. m.values \in Seq(Value) /\ m.bytes \in Seq(Byte) /\ m.size \in Nat
    BY DEF Message
  <1>2. v \in Written /\ SizeOf(v) \in Nat /\ Encode(v) \in Seq(Byte)
    BY ValueFacts, EncodeIsBytes
  <1>3. n \in Nat /\ longer \in Seq(Value) /\ Len(longer) = n + 1 /\ longer[n + 1] = v
        /\ \A i \in 1 .. n : longer[i] = m.values[i]
    BY <1>1, AppendProperties
  <1> HIDE DEF n
  <1>4. g = [m EXCEPT !.values = longer, !.bytes = m.bytes \o Encode(v), !.size = m.size + SizeOf(v)]
    BY DEF Grown
  <1> HIDE DEF longer, g
  <1>5. m.bytes \o Encode(v) \in Seq(Byte)
    BY <1>1, <1>2, ConcatProperties
  <1>6. g \in Message /\ g.values = longer /\ g.bytes = m.bytes \o Encode(v)
        /\ g.size = m.size + SizeOf(v)
    <2> DEFINE bytes == m.bytes \o Encode(v)
               size == m.size + SizeOf(v)
    <2>1. bytes \in Seq(Byte) /\ size \in Nat /\ longer \in Seq(Value)
      BY <1>1, <1>2, <1>3, <1>5
    <2>2. g = [m EXCEPT !.values = longer, !.bytes = bytes, !.size = size]
      BY <1>4
    <2> HIDE DEF bytes, size
    <2>3. g \in Message /\ g.values = longer /\ g.bytes = bytes /\ g.size = size
      BY <2>1, <2>2 DEF Message
    <2>4. QED BY <2>3 DEF bytes, size
  <1>7. EncodeAll(longer) = EncodeAll(m.values) \o Encode(v)
    BY <1>1, <1>2, ValuesAreWritten, EncodeAllAppend DEF longer
  <1>8. \A k \in DOMAIN longer : HeadSize + SizeOf(longer[k]) <= m.size + SizeOf(v)
    <2>1. DOMAIN longer = 1 .. n + 1 /\ DOMAIN m.values = 1 .. n
      BY <1>1, <1>3 DEF n
    <2>2. HeadSize \in Nat /\ HeadSize <= m.size
      BY MessagesAssumption DEF Adds
    <2>3. \A k \in 1 .. n : HeadSize + SizeOf(m.values[k]) <= m.size /\ SizeOf(m.values[k]) \in Nat
      <3>1. \A k \in 1 .. n : m.values[k] \in Value
        BY <1>1, <2>1 DEF n
      <3>2. \A k \in 1 .. n : SizeOf(m.values[k]) \in Nat
        BY <3>1, ValueFacts
      <3>3. \A k \in DOMAIN m.values : HeadSize + SizeOf(m.values[k]) <= m.size
        BY DEF Adds
      <3>4. QED BY <2>1, <3>2, <3>3, Zenon
    <2>4. \A k \in 1 .. n : HeadSize + SizeOf(longer[k]) <= m.size + SizeOf(v)
      <3> SUFFICES ASSUME NEW k \in 1 .. n
                   PROVE  HeadSize + SizeOf(longer[k]) <= m.size + SizeOf(v)
        OBVIOUS
      <3>1. longer[k] = m.values[k]
        BY <1>3
      <3>2. HeadSize + SizeOf(m.values[k]) <= m.size /\ SizeOf(m.values[k]) \in Nat
        BY <2>3
      <3>3. HeadSize + SizeOf(m.values[k]) <= m.size + SizeOf(v)
        BY <1>1, <1>2, <2>2, <3>2
      <3>4. QED BY <3>1, <3>3, Zenon
    <2>5. HeadSize + SizeOf(longer[n + 1]) <= m.size + SizeOf(v)
      BY <1>1, <1>2, <1>3, <2>2
    <2>6. \A k \in 1 .. n + 1 : k \in 1 .. n \/ k = n + 1
      BY <1>3
    <2>7. QED BY <2>1, <2>4, <2>5, <2>6, Zenon
  <1>9. HeadSize <= m.size + SizeOf(v)
    BY <1>1, <1>2, MessagesAssumption DEF Adds
  <1>10. g.bytes = EncodeAll(longer)
    BY <1>6, <1>7 DEF Adds
  <1>11. QED BY <1>6, <1>8, <1>9, <1>10 DEF Adds, g

(* The strings among the values; what is sent without some of them. *)
LEMMA StringsAppend ==
  ASSUME NEW values \in Seq(Value), NEW v \in Value
  PROVE  /\ Strings(values) \in SUBSET (1 .. Len(values))
         /\ Strings(values) \subseteq Strings(Append(values, v))
         /\ v.type = "STRING" => Len(values) + 1 \in Strings(Append(values, v))
         /\ DOMAIN values = 1 .. Len(values)
         /\ DOMAIN Append(values, v) = 1 .. Len(values) + 1
  <1> DEFINE n == Len(values)
             longer == Append(values, v)
  <1>1. n \in Nat /\ longer \in Seq(Value) /\ Len(longer) = n + 1 /\ longer[n + 1] = v
        /\ \A i \in 1 .. n : longer[i] = values[i]
    BY AppendProperties
  <1>2. DOMAIN values = 1 .. n /\ DOMAIN longer = 1 .. n + 1
    BY <1>1
  <1> HIDE DEF n, longer
  <1>3. Strings(values) \in SUBSET (1 .. n)
    BY <1>2 DEF Strings
  <1>4. Strings(values) \subseteq Strings(longer)
    BY <1>1, <1>2 DEF Strings
  <1>5. v.type = "STRING" => n + 1 \in Strings(longer)
    BY <1>1, <1>2 DEF Strings
  <1>6. QED BY <1>2, <1>3, <1>4, <1>5 DEF n, longer

LEMMA WithoutAppend ==
  ASSUME NEW values \in Seq(Value), NEW v \in Value, NEW out \in SUBSET Strings(values)
  PROVE  /\ EncodeSome(Cut(Append(values, v)), DOMAIN Append(values, v) \ out)
              = EncodeSome(Cut(values), DOMAIN values \ out) \o Encode(Cutting(v))
         /\ EncodeSome(Cut(Append(values, v)), DOMAIN Append(values, v) \ (out \cup {Len(values) + 1}))
              = EncodeSome(Cut(values), DOMAIN values \ out)
  <1> DEFINE n == Len(values)
             longer == Append(values, v)
             cut == Cut(values)
             c == Cutting(v)
             some == DOMAIN values \ out
             other == DOMAIN longer \ out
             less == DOMAIN longer \ (out \cup {n + 1})
             sentOf == EncodeSome(cut, some)
             last == IF n + 1 \in other THEN Encode(c) ELSE << >>
             none == IF n + 1 \in less THEN Encode(c) ELSE << >>
  <1>1. cut \in Seq(Written) /\ Len(cut) = n /\ c \in Written /\ Cut(longer) = Append(cut, c)
    BY CutAppend, CutIsWritten, CuttingFacts
  <1>2. n \in Nat /\ out \subseteq 1 .. n /\ DOMAIN values = 1 .. n /\ DOMAIN longer = 1 .. n + 1
    <2>1. Strings(values) \subseteq 1 .. n /\ DOMAIN longer = 1 .. n + 1
      BY StringsAppend
    <2>2. QED BY <2>1
  <1>3. \A i \in 1 .. n : i \in other <=> i \in some
    BY <1>2
  <1>4. \A i \in 1 .. n : i \in less <=> i \in some
    BY <1>2
  <1>5. n + 1 \in other /\ n + 1 \notin less
    BY <1>2
  <1>6. last = Encode(c) /\ none = << >>
    BY <1>5
  <1> HIDE DEF some, other, less, cut, c
  <1>7. EncodeSome(Append(cut, c), other) = sentOf \o last
    <2>1. \A i \in 1 .. Len(cut) : i \in other <=> i \in some
      BY <1>1, <1>3
    <2>2. EncodeSome(Append(cut, c), other)
            = EncodeSome(cut, some) \o (IF Len(cut) + 1 \in other THEN Encode(c) ELSE << >>)
      BY <1>1, <2>1, EncodeAppend
    <2>3. QED BY <1>1, <2>2
  <1>8. EncodeSome(Append(cut, c), less) = sentOf \o none
    <2>1. \A i \in 1 .. Len(cut) : i \in less <=> i \in some
      BY <1>1, <1>4
    <2>2. EncodeSome(Append(cut, c), less)
            = EncodeSome(cut, some) \o (IF Len(cut) + 1 \in less THEN Encode(c) ELSE << >>)
      BY <1>1, <2>1, EncodeAppend
    <2>3. QED BY <1>1, <2>2
  <1>9. sentOf \in Seq(Byte)
    BY <1>1, EncodeSomeIsBytes
  <1> HIDE DEF sentOf, last, none
  <1>10. sentOf \o << >> = sentOf
    BY <1>9, ConcatEmptySeq
  <1>11. EncodeSome(Cut(longer), other) = sentOf \o Encode(c)
    BY <1>1, <1>6, <1>7
  <1>12. EncodeSome(Cut(longer), less) = sentOf
    BY <1>1, <1>6, <1>8, <1>10
  <1>13. QED BY <1>11, <1>12 DEF some, other, less, cut, c, sentOf

(* A package that holds what a message's run added to it still does when a value is added, *)
(* unless its size wraps round.                                                            *)
LEMMA AddHolds ==
  ASSUME NEW p \in Package, NEW m \in Message, NEW v \in Value,
         Adds(m), Holds(p, m), ~Wraps(p, v)
  PROVE  Holds(Add(p, v), Grown(m, v))
  <1> DEFINE g == Grown(m, v)
             n == Len(m.values)
             q == Add(p, v)
             c == Cutting(v)
  <1>1. /\ m.values \in Seq(Value) /\ m.size \in Nat /\ p.datasize \in Nat /\ p.body \in Seq(Byte)
        /\ p.datasize < Wrap
    BY MessagesAssumption DEF Message, Package
  <1>2. /\ HeadSize \in Nat /\ MaxSend \in Nat /\ Wrap \in Nat /\ MaxSend < Wrap
    BY MessagesAssumption
  <1>3. /\ SizeOf(v) \in Nat /\ SizeOf(c) \in Nat /\ Encode(c) \in Seq(Byte)
        /\ Len(Encode(c)) = SizeOf(c) /\ (SizeOf(v) < Wrap => c = v)
    BY ValueFacts, CuttingFacts
  <1>4. g.player = m.player /\ g.values = Append(m.values, v) /\ g.size = m.size + SizeOf(v)
        /\ g.bytes = m.bytes \o Encode(v)
    BY DEF Grown, Message
  <1>5. q.player = g.player /\ q.datasize \in Nat
    BY <1>4, AddIsPackage, MessagesAssumption DEF Holds, Package
  <1>6. p.datasize + SizeOf(c) >= MaxSend \/ p.datasize + SizeOf(c) < MaxSend
    BY <1>1, <1>2, <1>3
  <1>7. v.type # "STRING" => c = v /\ p.datasize + SizeOf(v) < Wrap
    <2>1. v.type # "STRING" => v.type \in DOMAIN Width
      BY ValueFacts
    <2>2. QED BY <1>1, <1>2, <1>3, <2>1 DEF Wraps, Cutting
  <1> DEFINE sum == p.datasize + SizeOf(c)
             Stored == sum < MaxSend /\ q.datasize = sum /\ q.body = p.body \o Encode(c)
             Skipped == sum >= MaxSend /\ q.body = p.body
                        /\ ((q.datasize = p.datasize /\ v.type = "STRING") \/ q.datasize >= MaxSend)
  <1>8. Stored \/ Skipped
    <2>1. CASE v.type = "STRING"
      <3>1. c = Kept(v) /\ q = AddValueString(p, v)
        BY <2>1 DEF Cutting, Add
      <3> HIDE DEF c, q
      <3>2. CASE sum >= MaxSend
        <4>1. q = p
          BY <3>1, <3>2 DEF AddValueString
        <4>2. QED BY <2>1, <3>2, <4>1
      <3>3. CASE sum < MaxSend
        <4>1. ~(sum >= MaxSend)
          BY <1>1, <1>2, <1>3, <3>3
        <4>2. q = [p EXCEPT !.datasize = p.datasize + SizeOf(c), !.body = p.body \o Encode(c)]
          BY <3>1, <4>1 DEF AddValueString
        <4> HIDE DEF sum
        <4>3. q = [p EXCEPT !.datasize = sum, !.body = p.body \o Encode(c)]
          BY <4>2 DEF sum
        <4>4. q.datasize = sum /\ q.body = p.body \o Encode(c)
          BY <4>3 DEF Package
        <4>5. QED BY <3>3, <4>4
      <3>4. QED BY <1>6, <3>2, <3>3
    <2>2. CASE v.type # "STRING"
      <3>1. q = AddValue(p, v) /\ c = v
        BY <1>7, <2>2 DEF Add
      <3>2. (p.datasize + SizeOf(v)) % Wrap = p.datasize + SizeOf(v)
        <4> DEFINE a == p.datasize + SizeOf(v)
        <4>1. a \in Nat /\ a < Wrap
          BY <1>1, <1>3, <1>7, <2>2
        <4> HIDE DEF a
        <4>2. a % Wrap = a
          BY <1>2, <4>1
        <4>3. QED BY <4>2 DEF a
      <3> HIDE DEF c, q
      <3>3. q = [p EXCEPT !.datasize = sum,
                          !.body = IF sum >= MaxSend THEN p.body ELSE p.body \o Encode(c)]
        BY <3>1, <3>2 DEF AddValue
      <3>4. sum >= MaxSend \/ (sum < MaxSend /\ ~(sum >= MaxSend))
        BY <1>1, <1>2, <1>3
      <3> HIDE DEF sum
      <3>5. q.datasize = sum /\ q.body = IF sum >= MaxSend THEN p.body ELSE p.body \o Encode(c)
        BY <3>3 DEF Package
      <3>6. QED BY <3>4, <3>5
    <2>3. QED BY <2>1, <2>2
  <1> HIDE DEF g, q, c
  <1>9. HeadSize <= q.datasize
    <2>1. HeadSize <= p.datasize
      BY DEF Holds
    <2>2. QED BY <1>1, <1>2, <1>3, <1>5, <1>8, <2>1, MessagesAssumption
  <1>10. Fits(g) => q.datasize = g.size /\ q.body = g.bytes
    <2> SUFFICES ASSUME Fits(g) PROVE q.datasize = g.size /\ q.body = g.bytes
      OBVIOUS
    <2>1. m.size + SizeOf(v) < MaxSend
      BY <1>4 DEF Fits
    <2>2. m.size < MaxSend /\ SizeOf(v) < Wrap
      BY <1>1, <1>2, <1>3, <2>1
    <2>3. p.datasize = m.size /\ p.body = m.bytes
      BY <2>2 DEF Holds, Fits
    <2>4. c = v
      BY <1>3, <2>2
    <2>5. ~(p.datasize + SizeOf(c) >= MaxSend)
      BY <1>1, <1>2, <1>3, <2>1, <2>3, <2>4
    <2>6. QED BY <1>4, <1>8, <2>3, <2>4, <2>5
  <1>11. ASSUME q.datasize < MaxSend
         PROVE  /\ Len(q.body) = q.datasize - HeadSize
                /\ \E out \in SUBSET Strings(g.values) :
                     q.body = EncodeSome(Cut(g.values), DOMAIN g.values \ out)
    <2>1. p.datasize < MaxSend
      BY <1>1, <1>2, <1>3, <1>5, <1>8, <1>11
    <2>2. Len(p.body) = p.datasize - HeadSize
      BY <2>1 DEF Holds
    <2>3. PICK out \in SUBSET Strings(m.values) :
            p.body = EncodeSome(Cut(m.values), DOMAIN m.values \ out)
      BY <2>1 DEF Holds
    <2>4. /\ EncodeSome(Cut(g.values), DOMAIN g.values \ out) = p.body \o Encode(c)
          /\ EncodeSome(Cut(g.values), DOMAIN g.values \ (out \cup {n + 1})) = p.body
      <3> DEFINE values == m.values
                 longer == Append(values, v)
                 sentOf == EncodeSome(Cut(values), DOMAIN values \ out)
      <3>1. values \in Seq(Value) /\ out \in SUBSET Strings(values)
        BY <1>1
      <3> HIDE DEF values, sentOf, longer
      <3>2. /\ EncodeSome(Cut(longer), DOMAIN longer \ out) = sentOf \o Encode(Cutting(v))
            /\ EncodeSome(Cut(longer), DOMAIN longer \ (out \cup {Len(values) + 1})) = sentOf
        BY <3>1, WithoutAppend DEF sentOf, longer
      <3>3. QED BY <1>4, <2>3, <3>2 DEF c, values, sentOf, longer
    <2>5. /\ Strings(m.values) \subseteq Strings(g.values)
          /\ v.type = "STRING" => n + 1 \in Strings(g.values)
      BY <1>1, <1>4, StringsAppend
    <2>6. CASE q.datasize = p.datasize + SizeOf(c) /\ q.body = p.body \o Encode(c)
      <3> DEFINE body == p.body
                 bytes == Encode(c)
      <3> HIDE DEF body, bytes
      <3>0. body \in Seq(Byte) /\ bytes \in Seq(Byte)
        BY <1>1, <1>3 DEF body, bytes
      <3>1. Len(p.body \o Encode(c)) = Len(p.body) + SizeOf(c)
        <4>1. Len(body \o bytes) = Len(body) + Len(bytes)
          BY <3>0, ConcatProperties
        <4>2. QED BY <1>3, <4>1 DEF body, bytes
      <3>2. Len(q.body) = q.datasize - HeadSize
        <4> DEFINE a == Len(p.body)
        <4>1. Len(q.body) = a + SizeOf(c) /\ a = p.datasize - HeadSize
          BY <2>2, <2>6, <3>1
        <4> HIDE DEF a
        <4>2. QED BY <1>1, <1>2, <1>3, <2>6, <4>1
      <3>3. out \in SUBSET Strings(g.values)
        BY <2>5
      <3>4. q.body = EncodeSome(Cut(g.values), DOMAIN g.values \ out)
        BY <2>4, <2>6
      <3>5. QED BY <3>2, <3>3, <3>4, Zenon
    <2>7. CASE q.body = p.body /\ q.datasize = p.datasize /\ v.type = "STRING"
      <3> DEFINE more == out \cup {n + 1}
      <3>1. more \in SUBSET Strings(g.values)
        BY <2>5, <2>7
      <3>2. q.body = EncodeSome(Cut(g.values), DOMAIN g.values \ more)
        BY <2>4, <2>7
      <3>3. Len(q.body) = q.datasize - HeadSize
        BY <2>2, <2>7
      <3> HIDE DEF more
      <3>4. QED BY <3>1, <3>2, <3>3, Zenon
    <2>8. CASE q.datasize >= MaxSend
      BY <1>2, <1>5, <1>11, <2>8
    <2>9. QED BY <1>8, <2>6, <2>7, <2>8
  <1>12. QED BY <1>5, <1>9, <1>10, <1>11 DEF Holds, q, g

-------------------------------------------------------------------------------
(* Sequences that grow and shrink at the front. *)

LEMMA Prepended ==
  ASSUME NEW X, NEW e \in X, NEW s \in Seq(X)
  PROVE  /\ << e >> \o s \in Seq(X) /\ Len(<< e >> \o s) = Len(s) + 1
         /\ (<< e >> \o s)[1] = e
         /\ \A i \in 2 .. Len(s) + 1 : i - 1 \in 1 .. Len(s) /\ (<< e >> \o s)[i] = s[i - 1]
  <1> DEFINE f == << e >>
  <1>1. f \in Seq(X) /\ Len(f) = 1 /\ f[1] = e
    OBVIOUS
  <1> HIDE DEF f
  <1>2. /\ f \o s \in Seq(X) /\ Len(f \o s) = Len(f) + Len(s)
        /\ \A i \in 1 .. Len(f) + Len(s) : (f \o s)[i] = IF i <= Len(f) THEN f[i] ELSE s[i - Len(f)]
    BY <1>1, ConcatProperties
  <1>3. QED BY <1>1, <1>2 DEF f

LEMMA TailFacts ==
  ASSUME NEW X, NEW s \in Seq(X), s # << >>
  PROVE  /\ Len(s) \in Nat /\ Len(s) >= 1 /\ s[1] \in X /\ DOMAIN s = 1 .. Len(s)
         /\ Tail(s) \in Seq(X) /\ Len(Tail(s)) = Len(s) - 1
         /\ \A i \in 1 .. Len(s) - 1 : i + 1 \in 1 .. Len(s) /\ Tail(s)[i] = s[i + 1]
  <1>1. Len(s) \in Nat /\ Len(s) >= 1 /\ DOMAIN s = 1 .. Len(s)
    BY EmptySeq
  <1>2. s[1] \in X
    BY <1>1
  <1>3. Tail(s) \in Seq(X) /\ Len(Tail(s)) = Len(s) - 1
        /\ \A i \in 1 .. Len(s) - 1 : Tail(s)[i] = s[i + 1]
    BY <1>1
  <1>4. QED BY <1>1, <1>2, <1>3

LEMMA TaintFacts ==
  ASSUME NEW s \in Seq(Message)
  PROVE  /\ Taint(s) \in Seq(Message) /\ Len(Taint(s)) = Len(s)
         /\ \A i \in 1 .. Len(s) :
              /\ Taint(s)[i].tainted
              /\ Taint(s)[i].run = s[i].run /\ Taint(s)[i].values = s[i].values
              /\ Taint(s)[i].bytes = s[i].bytes /\ Taint(s)[i].size = s[i].size
  <1>1. DOMAIN s = 1 .. Len(s) /\ Len(s) \in Nat
    OBVIOUS
  <1>2. \A i \in 1 .. Len(s) : [s[i] EXCEPT !.tainted = TRUE] \in Message
    <2>1. \A m \in Message : [m EXCEPT !.tainted = TRUE] \in Message
      BY DEF Message
    <2>2. \A i \in 1 .. Len(s) : s[i] \in Message
      OBVIOUS
    <2>3. QED BY <2>1, <2>2, Zenon
  <1>3. Taint(s) = [i \in 1 .. Len(s) |-> [s[i] EXCEPT !.tainted = TRUE]]
    BY <1>1 DEF Taint
  <1>4. Taint(s) \in Seq(Message) /\ Len(Taint(s)) = Len(s)
    BY <1>1, <1>2, <1>3
  <1>5. \A i \in 1 .. Len(s) : s[i] \in Message
    OBVIOUS
  <1>6. \A m \in Message : LET t == [m EXCEPT !.tainted = TRUE]
                          IN  t.tainted /\ t.run = m.run /\ t.values = m.values
                              /\ t.bytes = m.bytes /\ t.size = m.size
    BY DEF Message
  <1>7. \A i \in 1 .. Len(s) : Taint(s)[i] = [s[i] EXCEPT !.tainted = TRUE]
    BY <1>3
  <1>8. ASSUME NEW i \in 1 .. Len(s)
        PROVE  /\ Taint(s)[i].tainted
               /\ Taint(s)[i].run = s[i].run /\ Taint(s)[i].values = s[i].values
               /\ Taint(s)[i].bytes = s[i].bytes /\ Taint(s)[i].size = s[i].size
    <2>1. s[i] \in Message
      BY <1>5
    <2> DEFINE m == s[i]
               t == [m EXCEPT !.tainted = TRUE]
    <2>2. t.tainted /\ t.run = m.run /\ t.values = m.values /\ t.bytes = m.bytes /\ t.size = m.size
      BY <2>1, <1>6
    <2>3. Taint(s)[i] = t
      BY <1>7
    <2> HIDE DEF t
    <2>4. QED BY <2>2, <2>3
  <1>9. QED BY <1>4, <1>8

-------------------------------------------------------------------------------
(* The steps. *)

LEMMA TypeFacts ==
  MessagesTypeOK <=> /\ packages \in Seq(Package) /\ open \in Seq(Message)
                     /\ runs \in Seq({"message", "other", "nested"}) /\ left \in Nat
  BY DEF MessagesTypeOK, Package, Message, Byte

(* Nothing is sent in a step without an end. *)
LEMMA NothingSent ==
  ASSUME sent' = << >>
  PROVE  SentAsAdded' /\ \A i \in DOMAIN sent' : FALSE
  BY DEF SentAsAdded

(* No message is open between the runs. *)
LEMMA NoneOpen ==
  ASSUME MessagesInv, runs = << >>
  PROVE  open = << >>
  <1>1. open \in Seq(Message) /\ Depth = 0
    BY TypeFacts DEF MessagesInv, Depth
  <1>2. \A i \in DOMAIN open : i \in {}
    BY <1>1 DEF MessagesInv, InRuns
  <1>3. QED BY <1>1, <1>2, EmptySeq

LEMMA ClearIsPackage ==
  ASSUME NEW p \in Package
  PROVE  Clear(p) \in Package
  <1>1. 0 \in 0 .. Wrap - 1
    BY MessagesAssumption
  <1>2. QED BY <1>1 DEF Clear, Package

LEMMA CheckPackErrorIsPackages ==
  ASSUME packages \in Seq(Package)
  PROVE  CheckPackError \in Seq(Package) /\ (packages # << >> => CheckPackError # << >>)
  <1>1. CASE packages = << >>
    BY <1>1 DEF CheckPackError
  <1>2. CASE packages # << >>
    <2>1. packages[1] \in Package
      BY <1>2, TailFacts
    <2>2. CheckPackError = << Clear(packages[1]) >>
      BY <1>2 DEF CheckPackError
    <2>3. Clear(packages[1]) \in Package
      BY <2>1, ClearIsPackage
    <2>4. QED BY <2>2, <2>3
  <1>3. QED BY <1>1, <1>2

(* What is open stays as it is, and no run ends that has a message open. *)
LEMMA OpenKept ==
  ASSUME MessagesInv, UNCHANGED << msgcfg, packages, open >>, sent' = << >>, left' \in Nat,
         runs' \in Seq({"message", "other", "nested"}),
         \A i \in DOMAIN open : open[i].run \in 1 .. Len(runs')
  PROVE  MessagesInv'
  <1>1. MessagesTypeOK'
    BY DEF MessagesInv, MessagesTypeOK
  <1>2. InRuns'
    BY DEF MessagesInv, InRuns, Depth
  <1>3. TaintBelow'
    BY DEF MessagesInv, TaintBelow
  <1>4. AddsAll'
    BY NothingSent DEF MessagesInv, AddsAll
  <1>5. OnTop'
    BY DEF MessagesInv, OnTop
  <1>6. QED BY <1>1, <1>2, <1>3, <1>4, <1>5, NothingSent DEF MessagesInv

LEMMA OtherRunBeginsKeeps ==
  ASSUME MessagesInv, OtherRunBegins
  PROVE  MessagesInv'
  <1>1. open = << >>
    BY NoneOpen DEF OtherRunBegins
  <1>2. UNCHANGED << msgcfg, packages, open >> /\ sent' = << >> /\ left' \in Nat
    BY TypeFacts DEF OtherRunBegins, Quiet, MessagesInv
  <1>3. runs' \in Seq({"message", "other", "nested"})
    BY DEF OtherRunBegins
  <1>4. \A i \in DOMAIN open : open[i].run \in 1 .. Len(runs')
    BY <1>1
  <1>5. QED BY <1>2, <1>3, <1>4, OpenKept

LEMMA NestedRunBeginsKeeps ==
  ASSUME MessagesInv, NestedRunBegins
  PROVE  MessagesInv'
  <1>1. UNCHANGED << msgcfg, packages, open >> /\ sent' = << >> /\ left' \in Nat
    BY TypeFacts DEF NestedRunBegins, Quiet, MessagesInv
  <1>2. runs' \in Seq({"message", "other", "nested"}) /\ Len(runs') = Depth + 1 /\ Depth \in Nat
    BY TypeFacts DEF NestedRunBegins, MessagesInv, Depth
  <1>3. \A i \in DOMAIN open : open[i].run \in 1 .. Len(runs')
    BY <1>2 DEF MessagesInv, InRuns
  <1>4. QED BY <1>1, <1>2, <1>3, OpenKept

(* The runs of the open messages when the latest run has none, or they are below its own. *)
LEMMA NoneOfLatest ==
  ASSUME MessagesInv, NEW i \in DOMAIN open, open[i].run # Depth
  PROVE  open[i].run \in 1 .. Depth - 1
  <1>1. open[i].run \in 1 .. Depth /\ Depth \in Nat
    BY TypeFacts DEF MessagesInv, InRuns, Depth
  <1>2. QED BY <1>1

LEMMA NotInMessage ==
  ASSUME MessagesInv, ~InMessage
  PROVE  \A i \in DOMAIN open : open[i].run \in 1 .. Depth - 1
  <1> SUFFICES ASSUME NEW i \in DOMAIN open PROVE open[i].run \in 1 .. Depth - 1
    OBVIOUS
  <1>1. open \in Seq(Message) /\ 1 \in DOMAIN open /\ i \in Nat /\ 1 <= i /\ open # << >>
    BY TypeFacts DEF MessagesInv
  <1>2. open[1].run # Depth /\ open[1].run \in 1 .. Depth
    BY <1>1 DEF InMessage, MessagesInv, InRuns
  <1>3. open[i].run \in 1 .. Depth /\ open[i].run <= open[1].run
    BY <1>1 DEF MessagesInv, InRuns
  <1>4. Depth \in Nat
    BY TypeFacts DEF MessagesInv, Depth
  <1>5. QED BY <1>2, <1>3, <1>4

LEMMA RunsFront ==
  ASSUME MessagesInv, runs # << >>, runs' = SubSeq(runs, 1, Depth - 1)
  PROVE  runs' \in Seq({"message", "other", "nested"}) /\ Len(runs') = Depth - 1
  <1>1. runs \in Seq({"message", "other", "nested"}) /\ Depth = Len(runs) /\ Depth \in Nat /\ Depth >= 1
    BY TypeFacts, EmptySeq DEF MessagesInv, Depth
  <1>2. QED BY <1>1

LEMMA ScriptReturnsKeeps ==
  ASSUME MessagesInv, ScriptReturns
  PROVE  MessagesInv'
  <1>1. UNCHANGED << msgcfg, packages, open >> /\ sent' = << >> /\ left' \in Nat
    BY TypeFacts DEF ScriptReturns, Quiet, MessagesInv
  <1>2. runs' \in Seq({"message", "other", "nested"}) /\ Len(runs') = Depth - 1
    BY RunsFront DEF ScriptReturns
  <1>3. \A i \in DOMAIN open : open[i].run \in 1 .. Len(runs')
    BY <1>2, NotInMessage DEF ScriptReturns
  <1>4. QED BY <1>1, <1>2, <1>3, OpenKept

(* Nothing is open after the step. *)
LEMMA NoneLeftOpen ==
  ASSUME MessagesInv, UNCHANGED msgcfg, open' = << >>, sent' = << >>, left' \in Nat,
         packages' \in Seq(Package), runs' \in Seq({"message", "other", "nested"})
  PROVE  MessagesInv'
  <1>1. MessagesTypeOK'
    BY DEF MessagesTypeOK, Package, Byte
  <1>2. InRuns' /\ TaintBelow' /\ OnTop'
    BY DEF InRuns, TaintBelow, OnTop
  <1>3. AddsAll'
    BY NothingSent DEF AddsAll
  <1>4. QED BY <1>1, <1>2, <1>3, NothingSent DEF MessagesInv

LEMMA HandleLuaFunKeeps ==
  ASSUME MessagesInv, NEW msg \in Incoming, HandleLuaFun(msg)
  PROVE  MessagesInv'
  <1>1. packages \in Seq(Package) /\ left \in Nat /\ runs \in Seq({"message", "other", "nested"})
    BY TypeFacts DEF MessagesInv
  <1>2. open' = << >> /\ sent' = << >> /\ UNCHANGED msgcfg
    BY NoneOpen DEF HandleLuaFun
  <1>3. packages' \in Seq(Package) /\ left' \in Nat
    BY <1>1, CheckPackErrorIsPackages DEF HandleLuaFun
  <1>4. runs' \in Seq({"message", "other", "nested"})
    <2>1. << "message" >> \in Seq({"message", "other", "nested"})
      OBVIOUS
    <2>2. runs' = << "message" >> \/ runs' = runs
      BY DEF HandleLuaFun
    <2>3. QED BY <1>1, <2>1, <2>2, Zenon
  <1>5. QED BY <1>2, <1>3, <1>4, NoneLeftOpen

(* A new package is what a new message expects. *)
LEMMA BeginHolds ==
  ASSUME NEW player \in Player, NEW m \in Message, m.player = player, m.values = << >>,
         m.bytes = << >>, m.size = HeadSize
  PROVE  MessageBegin(player) \in Package /\ Holds(MessageBegin(player), m) /\ Adds(m)
  <1> DEFINE p == MessageBegin(player)
             values == m.values
  <1>1. HeadSize \in Nat /\ HeadSize < MaxSend /\ MaxSend \in Nat /\ HeadSize \in 0 .. Wrap - 1
    BY MessagesAssumption
  <1>2. p \in Package /\ p.player = player /\ p.datasize = HeadSize /\ p.body = << >>
    BY <1>1 DEF MessageBegin, Package
  <1>3. values \in Seq(Value) /\ Len(values) = 0 /\ DOMAIN values = {}
    BY DEF Message
  <1>4. \A some : EncodeSome(Cut(values), some) = << >>
    <2>1. Cut(values) \in Seq(Written) /\ Len(Cut(values)) = 0
      BY <1>3, CutIsWritten
    <2>2. QED BY <2>1, EncodeNone
  <1>5. EncodeAll(values) = << >>
    <2>1. values \in Seq(Written)
      BY <1>3, ValuesAreWritten
    <2> HIDE DEF values
    <2>2. QED BY <1>3, <2>1, EncodeNone DEF EncodeAll
  <1> HIDE DEF p
  <1>6. \E out \in SUBSET Strings(m.values) :
          p.body = EncodeSome(Cut(m.values), DOMAIN m.values \ out)
    <2>1. {} \in SUBSET Strings(m.values)
      OBVIOUS
    <2>2. p.body = EncodeSome(Cut(m.values), DOMAIN m.values \ {})
      BY <1>2, <1>4
    <2>3. QED BY <2>1, <2>2, Zenon
  <1>7. Len(p.body) = p.datasize - HeadSize
    BY <1>1, <1>2
  <1>8. Holds(p, m)
    <2>1. p.player = m.player /\ HeadSize <= p.datasize /\ p.datasize = m.size /\ p.body = m.bytes
      BY <1>1, <1>2
    <2>2. QED BY <1>6, <1>7, <2>1, Zenon DEF Holds
  <1>9. Adds(m)
    BY <1>1, <1>3, <1>5 DEF Adds
  <1>10. QED BY <1>2, <1>8, <1>9 DEF p

LEMMA ScriptBeginsKeeps ==
  ASSUME MessagesInv, NEW player \in Player, ScriptBegins(player)
  PROVE  MessagesInv'
  <1> DEFINE p == MessageBegin(player)
             m == [run |-> Depth, player |-> player, values |-> << >>,
                   bytes |-> << >>, size |-> HeadSize, tainted |-> FALSE]
  <1>1. /\ packages \in Seq(Package) /\ open \in Seq(Message) /\ left \in Nat
        /\ runs \in Seq({"message", "other", "nested"}) /\ Depth \in Nat /\ Depth >= 1
    BY TypeFacts, EmptySeq DEF MessagesInv, ScriptBegins, Depth
  <1>2. m \in Message
    <2>1. << >> \in Seq(Value) /\ << >> \in Seq(Byte) /\ HeadSize \in Nat
      BY MessagesAssumption
    <2>2. QED BY <1>1, <2>1 DEF Message
  <1>3. m.run = Depth /\ ~m.tainted /\ m.player = player /\ m.values = << >>
        /\ m.bytes = << >> /\ m.size = HeadSize
    OBVIOUS
  <1>4. open' = << m >> \o open /\ packages' = GetPackager(p)
    BY DEF ScriptBegins
  <1>5. UNCHANGED << msgcfg, runs, left >> /\ sent' = << >>
    BY DEF ScriptBegins, Quiet
  <1> HIDE DEF m
  <1>6. p \in Package /\ Holds(p, m) /\ Adds(m)
    BY <1>2, <1>3, BeginHolds
  <1> HIDE DEF p
  <1>7. /\ open' \in Seq(Message) /\ Len(open') = Len(open) + 1 /\ open'[1] = m
        /\ \A i \in 2 .. Len(open) + 1 : i - 1 \in 1 .. Len(open) /\ open'[i] = open[i - 1]
    BY <1>1, <1>2, <1>4, Prepended
  <1>8. DOMAIN open = 1 .. Len(open) /\ DOMAIN open' = 1 .. Len(open) + 1 /\ Len(open) \in Nat
        /\ \A i \in 1 .. Len(open) + 1 : i = 1 \/ i \in 2 .. Len(open) + 1
    BY <1>1, <1>7
  <1>9. ASSUME packages # << >>, packages[1].datasize = 0
         PROVE  packages' \in Seq(Package) /\ packages' # << >> /\ OnTop'
    <2>1. packages' = << p >> \o Tail(packages)
      BY <1>4, <1>9 DEF GetPackager
    <2>2. packages' \in Seq(Package) /\ packages'[1] = p /\ Len(packages') = Len(Tail(packages)) + 1
          /\ Tail(packages) \in Seq(Package)
      BY <1>1, <1>6, <1>9, <2>1, TailFacts, Prepended
    <2>3. \A i \in DOMAIN open : open[i].tainted
      <3> SUFFICES ASSUME NEW i \in DOMAIN open, ~open[i].tainted PROVE FALSE
        OBVIOUS
      <3>1. 1 \in DOMAIN open /\ 1 <= i
        BY <1>1
      <3>2. ~open[1].tainted
        BY <3>1 DEF MessagesInv, TaintBelow
      <3>3. HeadSize <= packages[1].datasize
        BY <3>1, <3>2 DEF MessagesInv, OnTop, Holds
      <3>4. QED BY <1>9, <3>3, MessagesAssumption
    <2>4. OnTop'
      <3> SUFFICES ASSUME NEW i \in DOMAIN open', ~open'[i].tainted
                   PROVE  i <= Len(packages') /\ Holds(packages'[i], open'[i])
        BY DEF OnTop
      <3>1. i = 1
        BY <1>7, <1>8, <2>3
      <3>2. Len(Tail(packages)) \in Nat
        BY <2>2
      <3>3. QED BY <1>6, <1>7, <2>2, <3>1, <3>2
    <2>5. packages' # << >>
      BY <2>2
    <2>6. QED BY <2>2, <2>4, <2>5
  <1>10. ASSUME ~(packages # << >> /\ packages[1].datasize = 0)
         PROVE  packages' \in Seq(Package) /\ packages' # << >> /\ OnTop'
    <2>1. packages' = << p >> \o packages
      BY <1>4, <1>10 DEF GetPackager
    <2>2. /\ packages' \in Seq(Package) /\ packages'[1] = p /\ Len(packages') = Len(packages) + 1
          /\ \A i \in 2 .. Len(packages) + 1 : packages'[i] = packages[i - 1]
      BY <1>1, <1>6, <2>1, Prepended
    <2>3. Len(packages) \in Nat
      BY <1>1
    <2>4. OnTop'
      <3> SUFFICES ASSUME NEW i \in DOMAIN open', ~open'[i].tainted
                   PROVE  i <= Len(packages') /\ Holds(packages'[i], open'[i])
        BY DEF OnTop
      <3>1. CASE i = 1
        BY <1>6, <1>7, <2>2, <2>3, <3>1
      <3>2. CASE i \in 2 .. Len(open) + 1
        <4>1. i - 1 \in DOMAIN open /\ open'[i] = open[i - 1]
          BY <1>7, <1>8, <3>2
        <4>2. i - 1 <= Len(packages) /\ Holds(packages[i - 1], open[i - 1])
          BY <4>1 DEF MessagesInv, OnTop
        <4>3. i \in 2 .. Len(packages) + 1
          BY <1>8, <2>3, <3>2, <4>2
        <4>4. packages'[i] = packages[i - 1] /\ i <= Len(packages')
          BY <2>2, <2>3, <4>3
        <4>5. QED BY <4>1, <4>2, <4>4
      <3>3. QED BY <1>8, <3>1, <3>2
    <2>5. packages' # << >>
      BY <2>2, <2>3
    <2>6. QED BY <2>2, <2>4, <2>5
  <1>11. packages' \in Seq(Package) /\ packages' # << >> /\ OnTop'
    BY <1>9, <1>10
  <1>12. MessagesTypeOK'
    BY <1>1, <1>5, <1>7, <1>11 DEF MessagesTypeOK, Package, Message, Byte
  <1>13. InRuns'
    <2>1. \A i \in DOMAIN open' : open'[i].run \in 1 .. Depth
      <3>1. m.run \in 1 .. Depth
        BY <1>1, <1>3
      <3>2. \A i \in 2 .. Len(open) + 1 : open'[i].run \in 1 .. Depth
        BY <1>7, <1>8 DEF MessagesInv, InRuns
      <3>3. QED BY <1>7, <1>8, <3>1, <3>2
    <2>2. ASSUME NEW i \in DOMAIN open', NEW j \in DOMAIN open', i <= j
          PROVE  open'[j].run <= open'[i].run
      <3>1. CASE i = 1
        BY <1>1, <1>3, <1>7, <2>1, <3>1
      <3>2. CASE i \in 2 .. Len(open) + 1
        <4>1. j \in 2 .. Len(open) + 1
          BY <1>8, <2>2, <3>2
        <4>2. i - 1 \in DOMAIN open /\ j - 1 \in DOMAIN open /\ i - 1 <= j - 1
              /\ open'[i] = open[i - 1] /\ open'[j] = open[j - 1]
          BY <1>7, <1>8, <2>2, <3>2, <4>1
        <4>3. open[j - 1].run <= open[i - 1].run
          BY <4>2 DEF MessagesInv, InRuns
        <4>4. QED BY <4>2, <4>3
      <3>3. QED BY <1>8, <3>1, <3>2
    <2>3. Depth' = Depth
      BY <1>5 DEF Depth
    <2>4. QED BY <1>11, <2>1, <2>2, <2>3 DEF InRuns
  <1>14. TaintBelow'
    <2> SUFFICES ASSUME NEW i \in DOMAIN open', NEW j \in DOMAIN open', i <= j, open'[i].tainted
                 PROVE  open'[j].tainted
      BY DEF TaintBelow
    <2>1. i \in 2 .. Len(open) + 1
      BY <1>3, <1>7, <1>8
    <2>2. j \in 2 .. Len(open) + 1
      BY <1>8, <2>1
    <2>3. i - 1 \in DOMAIN open /\ j - 1 \in DOMAIN open /\ i - 1 <= j - 1
          /\ open'[i] = open[i - 1] /\ open'[j] = open[j - 1]
      BY <1>7, <1>8, <2>1, <2>2
    <2>4. QED BY <2>3 DEF MessagesInv, TaintBelow
  <1>15. AddsAll'
    <2>1. \A i \in DOMAIN open' : Adds(open'[i])
      BY <1>6, <1>7, <1>8 DEF MessagesInv, AddsAll
    <2>2. QED BY <1>5, <2>1, NothingSent DEF AddsAll
  <1>16. QED BY <1>5, <1>11, <1>12, <1>13, <1>14, <1>15, NothingSent DEF MessagesInv

LEMMA ScriptAddsKeeps ==
  ASSUME MessagesInv, NEW v \in Value, ScriptAdds(v)
  PROVE  MessagesInv'
  <1> DEFINE p == packages[1]
             m == open[1]
             added == [open EXCEPT ![1] = Grown(m, v)]
  <1>1. /\ packages \in Seq(Package) /\ open \in Seq(Message) /\ left \in Nat
        /\ runs \in Seq({"message", "other", "nested"})
    BY TypeFacts DEF MessagesInv
  <1>2. /\ open # << >> /\ packages # << >> /\ m \in Message /\ p \in Package
        /\ 1 \in DOMAIN open /\ Len(open) \in Nat /\ DOMAIN open = 1 .. Len(open)
        /\ Len(packages) \in Nat /\ Len(packages) >= 1
    <2>1. open # << >> /\ packages # << >>
      BY DEF MessagesInv, InRuns, ScriptAdds, CanAdd, InMessage
    <2>2. QED BY <1>1, <2>1, TailFacts
  <1>3. UNCHANGED << msgcfg, runs >> /\ sent' = << >> /\ left' \in Nat
    <2>1. left' = left \/ left' = left + 1
      BY DEF ScriptAdds
    <2>2. UNCHANGED << msgcfg, runs >> /\ sent' = << >>
      BY DEF ScriptAdds, Quiet
    <2>3. QED BY <1>1, <2>1, <2>2
  <1>4. Grown(m, v) \in Message /\ Adds(Grown(m, v)) /\ Grown(m, v).run = m.run
        /\ Grown(m, v).tainted = m.tainted
    <2>1. Adds(m)
      BY <1>2 DEF MessagesInv, AddsAll
    <2>2. Grown(m, v) \in Message /\ Adds(Grown(m, v))
      BY <1>2, <2>1, GrownIsMessage
    <2> HIDE DEF m
    <2>3. QED BY <1>2, <2>2 DEF Grown, Message
  <1>5. /\ added \in Seq(Message) /\ Len(added) = Len(open) /\ added[1] = Grown(m, v)
        /\ \A i \in 2 .. Len(open) : added[i] = open[i]
    <2> DEFINE g == Grown(m, v)
    <2> HIDE DEF g, m
    <2>1. g \in Message
      BY <1>4 DEF g
    <2>2. QED BY <1>1, <1>2, <2>1 DEF g
  <1>6. added = [open EXCEPT ![1].values = Append(@, v), ![1].bytes = @ \o Encode(v),
                             ![1].size = @ + SizeOf(v)]
    BY <1>1, <1>2 DEF Grown, Message
  <1>7. /\ packages' \in Seq(Package) /\ Len(packages') = Len(packages)
        /\ packages'[1] = Add(p, v) /\ \A i \in 2 .. Len(packages) : packages'[i] = packages[i]
    <2>1. Add(p, v) \in Package
      BY <1>2, AddIsPackage
    <2>2. packages' = [packages EXCEPT ![1] = Add(p, v)]
      BY DEF ScriptAdds
    <2> DEFINE q == Add(p, v)
    <2> HIDE DEF q, p
    <2>3. q \in Package /\ packages' = [packages EXCEPT ![1] = q]
      BY <2>1, <2>2 DEF q
    <2>4. QED BY <1>1, <1>2, <2>3 DEF q
  <1>8. packages' # << >>
    BY <1>2, <1>7
  <1>9. \A i \in 1 .. Len(open) : i = 1 \/ i \in 2 .. Len(open)
    BY <1>2
  <1> HIDE DEF added
  <1>10. \A i \in 1 .. Len(open) : Adds(added[i]) /\ added[i].run = open[i].run
                                  /\ added[i].tainted = open[i].tainted
    <2>1. Adds(added[1]) /\ added[1].run = m.run /\ added[1].tainted = m.tainted
      BY <1>4, <1>5
    <2>2. \A i \in 2 .. Len(open) : i \in DOMAIN open /\ added[i] = open[i]
      BY <1>2, <1>5
    <2>3. \A i \in DOMAIN open : Adds(open[i])
      BY DEF MessagesInv, AddsAll
    <2>4. QED BY <1>9, <2>1, <2>2, <2>3, Zenon
  <1>11. /\ open' \in Seq(Message) /\ Len(open') = Len(open)
         /\ \A i \in 1 .. Len(open) : /\ Adds(open'[i]) /\ open'[i].run = open[i].run
                                      /\ open[i].tainted => open'[i].tainted
         /\ TaintBelow' /\ OnTop'
    <2>1. CASE Wraps(p, v)
      <3>1. open' = Taint(added)
        BY <1>6, <2>1 DEF ScriptAdds
      <3>2. /\ open' \in Seq(Message) /\ Len(open') = Len(open)
            /\ \A i \in 1 .. Len(open) : /\ open'[i].tainted
                                         /\ open'[i].run = added[i].run /\ open'[i].values = added[i].values
                                         /\ open'[i].bytes = added[i].bytes /\ open'[i].size = added[i].size
        BY <1>5, <3>1, TaintFacts
      <3>3. \A i \in 1 .. Len(open) : Adds(open'[i]) /\ open'[i].run = open[i].run
        BY <1>10, <3>2 DEF Adds
      <3>4. DOMAIN open' = 1 .. Len(open)
        BY <3>2
      <3>5. QED BY <3>2, <3>3, <3>4 DEF TaintBelow, OnTop
    <2>2. CASE ~Wraps(p, v)
      <3>1. open' = added
        BY <1>6, <2>2 DEF ScriptAdds
      <3>2. DOMAIN open' = 1 .. Len(open)
        BY <1>5, <3>1
      <3>3. TaintBelow'
        BY <1>2, <1>10, <3>1, <3>2 DEF MessagesInv, TaintBelow
      <3>4. OnTop'
        <4> SUFFICES ASSUME NEW i \in 1 .. Len(open), ~open'[i].tainted
                     PROVE  i <= Len(packages') /\ Holds(packages'[i], open'[i])
          BY <3>2 DEF OnTop
        <4>1. i \in DOMAIN open /\ ~open[i].tainted
          BY <1>2, <1>10, <3>1
        <4>2. i <= Len(packages) /\ Holds(packages[i], open[i])
          BY <4>1 DEF MessagesInv, OnTop
        <4>3. CASE i = 1
          <5>1. Adds(m)
            BY <4>1, <4>3 DEF MessagesInv, AddsAll
          <5>2. Holds(Add(p, v), Grown(m, v))
            BY <1>2, <2>2, <4>2, <4>3, <5>1, AddHolds
          <5>3. QED BY <1>2, <1>5, <1>7, <3>1, <4>3, <5>2
        <4>4. CASE i \in 2 .. Len(open)
          <5>1. i \in 2 .. Len(packages)
            BY <1>2, <4>2, <4>4
          <5>2. packages'[i] = packages[i] /\ open'[i] = open[i]
            BY <1>5, <1>7, <3>1, <4>4, <5>1
          <5>3. QED BY <1>7, <4>2, <5>2
        <4>5. QED BY <1>9, <4>3, <4>4
      <3>5. QED BY <1>5, <1>10, <3>1, <3>3, <3>4
    <2>3. QED BY <2>1, <2>2
  <1>12. DOMAIN open' = DOMAIN open
    BY <1>2, <1>11
  <1>13. MessagesTypeOK'
    BY <1>1, <1>3, <1>7, <1>11 DEF MessagesTypeOK, Package, Message, Byte
  <1>14. InRuns'
    BY <1>2, <1>3, <1>8, <1>11, <1>12 DEF MessagesInv, InRuns, Depth
  <1>15. AddsAll'
    BY <1>2, <1>3, <1>11, <1>12, NothingSent DEF AddsAll
  <1>16. QED BY <1>3, <1>11, <1>13, <1>14, <1>15, NothingSent DEF MessagesInv

LEMMA ScriptEndsKeeps ==
  ASSUME MessagesInv, ScriptEnds
  PROVE  MessagesInv'
  <1> DEFINE p == packages[1]
             m == open[1]
             out == [to |-> GetPlayerID(p), body |-> GetPackageData(p), meant |-> m]
  <1>1. /\ packages \in Seq(Package) /\ open \in Seq(Message) /\ left \in Nat
        /\ runs \in Seq({"message", "other", "nested"})
    BY TypeFacts DEF MessagesInv
  <1>2. open # << >> /\ packages # << >>
    BY DEF MessagesInv, InRuns, ScriptEnds, InMessage
  <1>3. /\ m \in Message /\ 1 \in DOMAIN open /\ Len(open) \in Nat /\ DOMAIN open = 1 .. Len(open)
        /\ open' \in Seq(Message) /\ Len(open') = Len(open) - 1 /\ Len(open) >= 1
        /\ \A i \in 1 .. Len(open) - 1 : i + 1 \in DOMAIN open /\ open'[i] = open[i + 1]
    <2>1. open' = Tail(open)
      BY DEF ScriptEnds
    <2>2. QED BY <1>1, <1>2, <2>1, TailFacts
  <1>4. DOMAIN open' = 1 .. Len(open) - 1
    BY <1>3
  <1>5. /\ p \in Package /\ Len(packages) \in Nat /\ Len(packages) >= 1
        /\ Tail(packages) \in Seq(Package) /\ Len(Tail(packages)) = Len(packages) - 1
        /\ \A i \in 1 .. Len(packages) - 1 : Tail(packages)[i] = packages[i + 1]
    BY <1>1, <1>2, TailFacts
  <1>6. UNCHANGED << msgcfg, runs, left >>
    BY DEF ScriptEnds
  <1>7. packages' = IF Len(packages) > 1 THEN Tail(packages) ELSE << Clear(p) >>
    BY DEF ScriptEnds, ReleasePackage
  <1>8. packages' \in Seq(Package) /\ packages' # << >>
    <2>1. CASE Len(packages) > 1
      <3>1. packages' = Tail(packages)
        BY <1>7, <2>1
      <3>2. packages' \in Seq(Package) /\ Len(packages') \in Nat /\ Len(packages') > 0
        BY <1>5, <2>1, <3>1
      <3>3. QED BY <3>2
    <2>2. CASE ~(Len(packages) > 1)
      <3>1. packages' = << Clear(p) >> /\ Clear(p) \in Package
        BY <1>5, <1>7, <2>2, ClearIsPackage
      <3>2. QED BY <3>1
    <2>3. QED BY <2>1, <2>2
  <1>9. (sent' = << out >> /\ MessageEnd(p)) \/ sent' = << >>
    BY DEF ScriptEnds
  <1>10. MessagesTypeOK'
    BY <1>1, <1>3, <1>6, <1>8 DEF MessagesTypeOK, Package, Message, Byte
  <1>11. InRuns'
    <2>1. Depth' = Depth
      BY <1>6 DEF Depth
    <2>2. \A i \in DOMAIN open' : open'[i].run \in 1 .. Depth
      BY <1>3, <1>4 DEF MessagesInv, InRuns
    <2>3. ASSUME NEW i \in DOMAIN open', NEW j \in DOMAIN open', i <= j
          PROVE  open'[j].run <= open'[i].run
      <3>1. i + 1 \in DOMAIN open /\ j + 1 \in DOMAIN open /\ i + 1 <= j + 1
            /\ open'[i] = open[i + 1] /\ open'[j] = open[j + 1]
        BY <1>3, <1>4, <2>3
      <3>2. QED BY <3>1 DEF MessagesInv, InRuns
    <2>4. QED BY <1>8, <2>1, <2>2, <2>3 DEF InRuns
  <1>12. TaintBelow'
    <2> SUFFICES ASSUME NEW i \in DOMAIN open', NEW j \in DOMAIN open', i <= j, open'[i].tainted
                 PROVE  open'[j].tainted
      BY DEF TaintBelow
    <2>1. i + 1 \in DOMAIN open /\ j + 1 \in DOMAIN open /\ i + 1 <= j + 1
          /\ open'[i] = open[i + 1] /\ open'[j] = open[j + 1]
      BY <1>3, <1>4
    <2>2. QED BY <2>1 DEF MessagesInv, TaintBelow
  <1>13. OnTop'
    <2> SUFFICES ASSUME NEW i \in DOMAIN open', ~open'[i].tainted
                 PROVE  i <= Len(packages') /\ Holds(packages'[i], open'[i])
      BY DEF OnTop
    <2>1. i \in 1 .. Len(open) - 1 /\ i + 1 \in DOMAIN open /\ open'[i] = open[i + 1]
      BY <1>3, <1>4
    <2>2. i + 1 <= Len(packages) /\ Holds(packages[i + 1], open[i + 1])
      BY <2>1 DEF MessagesInv, OnTop
    <2>3. Len(packages) > 1 /\ i \in 1 .. Len(packages) - 1
      BY <1>3, <1>5, <2>1, <2>2
    <2>4. packages' = Tail(packages)
      BY <1>7, <2>3
    <2>5. packages'[i] = packages[i + 1] /\ i <= Len(packages')
      BY <1>5, <2>3, <2>4
    <2>6. QED BY <2>1, <2>2, <2>5
  <1>14. Adds(m) /\ m \in Message
    BY <1>3 DEF MessagesInv, AddsAll
  <1>15. AddsAll'
    <2>1. \A i \in DOMAIN open' : Adds(open'[i])
      BY <1>3, <1>4 DEF MessagesInv, AddsAll
    <2>2. out.meant = m
      OBVIOUS
    <2> HIDE DEF out, m
    <2>3. \A i \in DOMAIN sent' : sent'[i].meant = m
      BY <1>9, <2>2
    <2>4. QED BY <1>14, <2>1, <2>3 DEF AddsAll
  <1>16. ASSUME MessageEnd(p), ~m.tainted
         PROVE  /\ out.to = m.player % Wrap
                /\ Fits(m) => out.body = m.bytes
                /\ \E less \in SUBSET Strings(m.values) :
                     out.body = EncodeSome(Cut(m.values), DOMAIN m.values \ less)
    <2>1. Holds(p, m)
      BY <1>3, <1>16 DEF MessagesInv, OnTop
    <2>2. p.datasize < MaxSend
      BY <1>16 DEF MessageEnd
    <2>3. Len(p.body) = p.datasize - HeadSize /\ p.body \in Seq(Byte)
      BY <1>5, <2>1, <2>2 DEF Holds, Package
    <2>4. SubSeq(p.body, 1, Len(p.body)) = p.body
      BY <2>3
    <2>5. out.body = p.body /\ out.to = p.player % Wrap
      BY <2>3, <2>4 DEF GetPackageData, GetPlayerID
    <2> HIDE DEF p, m, out
    <2>6. QED BY <2>1, <2>2, <2>5 DEF Holds
  <1>17. SentAsAdded'
    <2>1. out.meant = m
      OBVIOUS
    <2> HIDE DEF out, m
    <2>2. \A i \in DOMAIN sent' : sent'[i] = out /\ MessageEnd(p)
      BY <1>9
    <2>3. QED BY <1>16, <2>1, <2>2 DEF SentAsAdded, Strings
  <1>18. QED BY <1>6, <1>10, <1>11, <1>12, <1>13, <1>15, <1>17 DEF MessagesInv

(* The messages of a run that fails are the latest ones. *)
LEMMA OuterFacts ==
  ASSUME MessagesInv, runs # << >>
  PROVE  /\ Outer \in Seq(Message) /\ Len(Outer) <= Len(open)
         /\ \A i \in 1 .. Len(Outer) :
              \E j \in DOMAIN open : Outer[i] = open[j] /\ i <= j /\ open[j].run # Depth
         /\ \A i, j \in 1 .. Len(Outer) : i <= j => Outer[j].run <= Outer[i].run
  <1> DEFINE n == Len(open)
             c == Cardinality(Mine)
  <1>1. open \in Seq(Message) /\ n \in Nat /\ DOMAIN open = 1 .. n
    BY TypeFacts DEF MessagesInv
  <1>2. Mine \in SUBSET (1 .. n)
    BY <1>1 DEF Mine
  <1>3. IsFiniteSet(1 .. n) /\ Cardinality(1 .. n) = n
    <2>1. n \in Int /\ 1 \in Int
      BY <1>1
    <2> HIDE DEF n
    <2>2. IsFiniteSet(1 .. n) /\ Cardinality(1 .. n) = IF 1 > n THEN 0 ELSE n - 1 + 1
      BY <2>1, FS_Interval
    <2>3. QED BY <1>1, <2>2
  <1>4. IsFiniteSet(Mine) /\ c \in Nat /\ c <= n
    BY <1>2, <1>3, FS_Subset, FS_CardinalityType
  <1>5. \A i \in Mine : i <= c
    <2> SUFFICES ASSUME NEW i \in Mine PROVE i <= c
      OBVIOUS
    <2>1. i \in 1 .. n /\ open[i].run = Depth
      BY <1>1 DEF Mine
    <2>2. 1 .. i \subseteq Mine
      <3> SUFFICES ASSUME NEW j \in 1 .. i PROVE j \in Mine
        OBVIOUS
      <3>1. j \in DOMAIN open /\ i \in DOMAIN open /\ j <= i
        BY <1>1, <2>1
      <3>2. open[i].run <= open[j].run /\ open[j].run \in 1 .. Depth
        BY <3>1 DEF MessagesInv, InRuns
      <3>3. Depth \in Nat
        BY TypeFacts DEF MessagesInv, Depth
      <3>4. open[j].run = Depth
        BY <2>1, <3>2, <3>3
      <3>5. QED BY <3>1, <3>4 DEF Mine
    <2>3. Cardinality(1 .. i) = i
      <3>1. i \in Nat /\ 1 \in Int
        BY <2>1
      <3>2. Cardinality(1 .. i) = IF 1 > i THEN 0 ELSE i - 1 + 1
        BY <3>1, FS_Interval
      <3>3. QED BY <2>1, <3>2
    <2>4. Cardinality(1 .. i) <= c
      BY <1>4, <2>2, FS_Subset
    <2>5. QED BY <2>3, <2>4
  <1> HIDE DEF c, n
  <1>6. Outer = SubSeq(open, c + 1, n)
    BY DEF Outer, c, n
  <1>7. /\ Outer \in Seq(Message) /\ Len(Outer) = n - c
        /\ \A i \in 1 .. n - c : Outer[i] = open[c + i] /\ c + i \in DOMAIN open
    <2>1. n = Len(open)
      BY DEF n
    <2>2. \A i \in c + 1 .. n : i \in DOMAIN open /\ open[i] \in Message
      BY <1>1, <1>4, <2>1
    <2>3. n - c \in Nat /\ n - (c + 1) + 1 = n - c
      BY <1>1, <1>4
    <2>4. \A i \in 1 .. n - c : c + i \in c + 1 .. n /\ (c + 1) + i - 1 = c + i
      BY <1>1, <1>4
    <2> DEFINE from == c + 1
    <2>5. from \in Int /\ n \in Int /\ \A i \in from .. n : open[i] \in Message
      BY <1>1, <1>4, <2>2
    <2>6. (IF from <= n THEN n - from + 1 ELSE 0) = n - c /\ n - from + 1 = n - c
          /\ \A i \in 1 .. n - c : from + i - 1 = c + i
      BY <1>1, <1>4
    <2> HIDE DEF from
    <2>7. /\ SubSeq(open, from, n) \in Seq(Message)
          /\ Len(SubSeq(open, from, n)) = IF from <= n THEN n - from + 1 ELSE 0
          /\ \A i \in 1 .. n - from + 1 : SubSeq(open, from, n)[i] = open[from + i - 1]
      BY <2>5, SubSeqProperties
    <2>8. Outer = SubSeq(open, from, n)
      BY <1>6 DEF from
    <2>9. QED BY <2>2, <2>4, <2>6, <2>7, <2>8
  <1>8. \A i \in 1 .. n - c : Outer[i] = open[c + i] /\ i <= c + i /\ c + i \in DOMAIN open
                              /\ open[c + i].run # Depth
    <2> SUFFICES ASSUME NEW i \in 1 .. n - c
                 PROVE  Outer[i] = open[c + i] /\ i <= c + i /\ c + i \in DOMAIN open
                        /\ open[c + i].run # Depth
      OBVIOUS
    <2>1. Outer[i] = open[c + i] /\ c + i \in DOMAIN open
      BY <1>7
    <2>2. i <= c + i /\ ~(c + i <= c)
      BY <1>1, <1>4
    <2>3. c + i \notin Mine
      BY <1>5, <2>2
    <2>4. QED BY <2>1, <2>2, <2>3 DEF Mine
  <1>9. \A i \in 1 .. Len(Outer) :
          \E j \in DOMAIN open : Outer[i] = open[j] /\ i <= j /\ open[j].run # Depth
    BY <1>7, <1>8, Zenon
  <1>10. ASSUME NEW i \in 1 .. Len(Outer), NEW j \in 1 .. Len(Outer), i <= j
         PROVE  Outer[j].run <= Outer[i].run
    <2>1. c + i \in DOMAIN open /\ c + j \in DOMAIN open /\ Outer[i] = open[c + i]
          /\ Outer[j] = open[c + j]
      BY <1>7
    <2>2. c + i <= c + j
      BY <1>1, <1>4, <1>7, <1>10
    <2>3. open[c + j].run <= open[c + i].run
      BY <2>1, <2>2 DEF MessagesInv, InRuns
    <2>4. QED BY <2>1, <2>3
  <1>11. Len(Outer) <= n
    BY <1>1, <1>4, <1>7
  <1>12. QED BY <1>7, <1>9, <1>10, <1>11 DEF n

LEMMA ScriptFailsKeeps ==
  ASSUME MessagesInv, ScriptFails
  PROVE  MessagesInv'
  <1>1. /\ packages \in Seq(Package) /\ open \in Seq(Message) /\ left \in Nat
        /\ runs # << >> /\ runs' = SubSeq(runs, 1, Depth - 1)
        /\ UNCHANGED msgcfg /\ sent' = << >>
    BY TypeFacts DEF MessagesInv, ScriptFails, Quiet
  <1>2. runs' \in Seq({"message", "other", "nested"}) /\ Len(runs') = Depth - 1
    BY <1>1, RunsFront
  <1>3. CASE runs[Depth] = "message"
    <2>1. packages' \in Seq(Package) /\ open' = << >> /\ left' \in Nat
      BY <1>1, <1>3, CheckPackErrorIsPackages DEF ScriptFails
    <2>2. QED BY <1>1, <1>2, <2>1, NoneLeftOpen
  <1>4. CASE runs[Depth] # "message" /\ ~InMessage
    <2>1. UNCHANGED << packages, open >> /\ left' \in Nat
      BY <1>1, <1>4 DEF ScriptFails
    <2>2. \A i \in DOMAIN open : open[i].run \in 1 .. Len(runs')
      BY <1>2, <1>4, NotInMessage
    <2>3. QED BY <1>1, <1>2, <2>1, <2>2, OpenKept
  <1>5. CASE runs[Depth] # "message" /\ InMessage
    <2>1. open' = Taint(Outer) /\ left' \in Nat /\ packages' = packages
      BY <1>1, <1>5 DEF ScriptFails
    <2>2. /\ open' \in Seq(Message) /\ Len(open') = Len(Outer)
          /\ \A i \in 1 .. Len(Outer) :
               /\ open'[i].tainted
               /\ open'[i].run = Outer[i].run /\ open'[i].values = Outer[i].values
               /\ open'[i].bytes = Outer[i].bytes /\ open'[i].size = Outer[i].size
      BY <1>1, <2>1, OuterFacts, TaintFacts
    <2>3. DOMAIN open' = 1 .. Len(Outer)
      BY <2>2
    <2>4. \A i \in DOMAIN open' : Adds(open'[i]) /\ open'[i].run \in 1 .. Depth - 1
      <3> SUFFICES ASSUME NEW i \in 1 .. Len(Outer)
                   PROVE  Adds(open'[i]) /\ open'[i].run \in 1 .. Depth - 1
        BY <2>3
      <3>1. PICK j \in DOMAIN open : Outer[i] = open[j] /\ open[j].run # Depth
        BY <1>1, OuterFacts
      <3>2. Adds(open[j]) /\ open[j].run \in 1 .. Depth - 1
        BY <3>1, NoneOfLatest DEF MessagesInv, AddsAll
      <3>3. open'[i].run = open[j].run /\ open'[i].values = open[j].values
            /\ open'[i].bytes = open[j].bytes /\ open'[i].size = open[j].size
        BY <2>2, <3>1
      <3>4. QED BY <3>2, <3>3 DEF Adds
    <2>5. MessagesTypeOK'
      BY <1>1, <1>2, <2>1, <2>2 DEF MessagesTypeOK, Package, Message, Byte
    <2>6. InRuns'
      <3>1. \A i \in DOMAIN open' : open'[i].run \in 1 .. Depth'
        BY <1>2, <2>4 DEF Depth
      <3>2. \A i, j \in DOMAIN open' : i <= j => open'[j].run <= open'[i].run
        <4>1. \A i, j \in 1 .. Len(Outer) : i <= j => Outer[j].run <= Outer[i].run
          BY <1>1, OuterFacts
        <4>2. QED BY <2>2, <2>3, <4>1
      <3>3. packages' # << >>
        BY <1>5, <2>1 DEF MessagesInv, InRuns, InMessage
      <3>4. QED BY <3>1, <3>2, <3>3 DEF InRuns
    <2>7. TaintBelow' /\ OnTop'
      BY <2>2, <2>3 DEF TaintBelow, OnTop
    <2>8. AddsAll'
      BY <1>1, <2>4, NothingSent DEF AddsAll
    <2>9. QED BY <1>1, <2>5, <2>6, <2>7, <2>8, NothingSent DEF MessagesInv
  <1>6. QED BY <1>3, <1>4, <1>5

-------------------------------------------------------------------------------
(* Reading. *)

Type == DOMAIN Width \cup {"STRING", "REPEAT", "ERROR"}
Reader(body) == [ok : BOOLEAN, whole : BOOLEAN, pos : 0 .. Len(body), cnt : Nat, args : Seq(Written)]

LEMMA Part ==
  ASSUME NEW X, NEW s \in Seq(X), NEW from \in Nat, NEW to \in Nat, from <= to, to <= Len(s)
  PROVE  /\ SubSeq(s, from + 1, to) \in Seq(X) /\ Len(SubSeq(s, from + 1, to)) = to - from
         /\ \A i \in 1 .. to - from : SubSeq(s, from + 1, to)[i] = s[from + i]
  <1> DEFINE first == from + 1
  <1>1. first \in Int /\ to \in Int /\ Len(s) \in Nat
    OBVIOUS
  <1>2. \A i \in first .. to : s[i] \in X
    BY <1>1
  <1>3. /\ (IF first <= to THEN to - first + 1 ELSE 0) = to - from /\ to - first + 1 = to - from
        /\ \A i \in 1 .. to - from : first + i - 1 = from + i
    OBVIOUS
  <1> HIDE DEF first
  <1>4. /\ SubSeq(s, first, to) \in Seq(X)
        /\ Len(SubSeq(s, first, to)) = IF first <= to THEN to - first + 1 ELSE 0
        /\ \A i \in 1 .. to - first + 1 : SubSeq(s, first, to)[i] = s[first + i - 1]
    BY <1>1, <1>2, SubSeqProperties
  <1>5. /\ SubSeq(s, first, to) \in Seq(X) /\ Len(SubSeq(s, first, to)) = to - from
        /\ \A i \in 1 .. to - from : SubSeq(s, first, to)[i] = s[from + i]
    BY <1>3, <1>4
  <1>6. QED BY <1>5 DEF first

LEMMA PartsJoin ==
  ASSUME NEW X, NEW s \in Seq(X), NEW first \in Nat, NEW from \in Nat, NEW to \in Nat,
         first <= from, from <= to, to <= Len(s)
  PROVE  SubSeq(s, first + 1, from) \o SubSeq(s, from + 1, to) = SubSeq(s, first + 1, to)
  <1> DEFINE a == SubSeq(s, first + 1, from)
             b == SubSeq(s, from + 1, to)
             c == SubSeq(s, first + 1, to)
  <1>1. /\ a \in Seq(X) /\ Len(a) = from - first
        /\ \A i \in 1 .. from - first : a[i] = s[first + i]
    <2>1. from <= Len(s)
      OBVIOUS
    <2>2. QED BY <2>1, Part
  <1>2. b \in Seq(X) /\ Len(b) = to - from /\ \A i \in 1 .. to - from : b[i] = s[from + i]
    BY Part
  <1>3. c \in Seq(X) /\ Len(c) = to - first /\ \A i \in 1 .. to - first : c[i] = s[first + i]
    <2>1. first <= to
      OBVIOUS
    <2>2. QED BY <2>1, Part
  <1> HIDE DEF a, b, c
  <1>4. /\ a \o b \in Seq(X) /\ Len(a \o b) = Len(a) + Len(b)
        /\ \A i \in 1 .. Len(a) + Len(b) : (a \o b)[i] = IF i <= Len(a) THEN a[i] ELSE b[i - Len(a)]
    BY <1>1, <1>2, ConcatProperties
  <1>5. Len(a \o b) = to - first
    BY <1>1, <1>2, <1>4
  <1>6. \A i \in 1 .. to - first : (a \o b)[i] = c[i]
    <2> SUFFICES ASSUME NEW i \in 1 .. to - first PROVE (a \o b)[i] = c[i]
      OBVIOUS
    <2>1. CASE i <= from - first
      <3>1. i \in 1 .. from - first /\ i \in 1 .. Len(a) + Len(b) /\ i <= Len(a)
        BY <1>1, <1>2, <2>1
      <3>2. (a \o b)[i] = a[i]
        BY <1>4, <3>1
      <3>3. a[i] = s[first + i]
        BY <1>1, <3>1
      <3>4. c[i] = s[first + i]
        BY <1>3
      <3>5. QED BY <3>2, <3>3, <3>4
    <2>2. CASE i > from - first
      <3> DEFINE k == i - (from - first)
      <3>1. k \in 1 .. to - from /\ from + k = first + i /\ i \in 1 .. Len(a) + Len(b)
            /\ ~(i <= Len(a)) /\ i - Len(a) = k
        BY <1>1, <1>2, <2>2
      <3> HIDE DEF k
      <3>2. (a \o b)[i] = b[k]
        BY <1>4, <3>1
      <3>3. b[k] = s[first + i]
        BY <1>2, <3>1
      <3>4. c[i] = s[first + i]
        BY <1>3
      <3>5. QED BY <3>1, <3>2, <3>3, <3>4
    <2>3. i <= from - first \/ i > from - first
      OBVIOUS
    <2>4. QED BY <2>1, <2>2, <2>3
  <1>7. a \o b = c
    BY <1>3, <1>4, <1>5, <1>6, SeqEqual
  <1>8. QED BY <1>7 DEF a, b, c

LEMMA Front ==
  ASSUME NEW X, NEW s \in Seq(X), NEW from \in Nat, NEW to \in Nat, from <= to, to <= Len(s)
  PROVE  /\ SubSeq(s, 1, to) \in Seq(X) /\ Len(SubSeq(s, 1, to)) = to
         /\ SubSeq(s, 1, from) \o SubSeq(s, from + 1, to) = SubSeq(s, 1, to)
  <1> DEFINE zero == 0
  <1>1. zero \in Nat /\ zero + 1 = 1 /\ zero <= from /\ zero <= to /\ to - zero = to
    OBVIOUS
  <1> HIDE DEF zero
  <1>2. SubSeq(s, zero + 1, to) \in Seq(X) /\ Len(SubSeq(s, zero + 1, to)) = to - zero
    BY <1>1, Part
  <1>3. SubSeq(s, zero + 1, from) \o SubSeq(s, from + 1, to) = SubSeq(s, zero + 1, to)
    BY <1>1, PartsJoin
  <1>4. QED BY <1>1, <1>2, <1>3

(* A number of characters is read as it was written, and written as it was read. *)
LEMMA CountWritten ==
  ASSUME NEW n \in Nat, n < Base * Base
  PROVE  (n % Base) + Base * ((n \div Base) % Base) = n
  <1> DEFINE low == n % Base
             high == n \div Base
  <1>1. Base \in Nat /\ Base > 1
    BY ParamsAssumption
  <1>2. low \in 0 .. Base - 1 /\ high \in Nat /\ n = Base * high + low
    BY <1>1
  <1> HIDE DEF low, high
  <1>3. high < Base
    <2> SUFFICES ASSUME ~(high < Base) PROVE FALSE
      OBVIOUS
    <2>1. PICK d \in Nat : high = Base + d
      <3>1. high - Base \in Nat /\ high = Base + (high - Base)
        BY <1>1, <1>2
      <3>2. QED BY <3>1
    <2>2. Base * high = Base * Base + Base * d /\ Base * d >= 0
      BY <1>1, <2>1
    <2>3. QED BY <1>1, <1>2, <2>2
  <1>4. high % Base = high
    BY <1>1, <1>2, <1>3
  <1>5. low + Base * (high % Base) = n
    BY <1>1, <1>2, <1>4
  <1>6. QED BY <1>5 DEF low, high

LEMMA CountRead ==
  ASSUME NEW body \in Seq(Byte), NEW pos \in Nat, pos + 2 <= Len(body)
  PROVE  CountAt(body, pos) \in Nat /\ CountBytes(CountAt(body, pos)) = SubSeq(body, pos + 1, pos + 2)
  <1> DEFINE low == body[pos + 1]
             high == body[pos + 2]
             n == CountAt(body, pos)
             two == SubSeq(body, pos + 1, pos + 2)
  <1>1. Base \in Nat /\ Base > 1
    BY ParamsAssumption
  <1>2. low \in 0 .. Base - 1 /\ high \in 0 .. Base - 1
    <2>1. pos + 1 \in 1 .. Len(body) /\ pos + 2 \in 1 .. Len(body)
      OBVIOUS
    <2>2. \A i \in 1 .. Len(body) : body[i] \in 0 .. Base - 1
      <3>1. \A i \in 1 .. Len(body) : body[i] \in Byte
        OBVIOUS
      <3>2. QED BY <3>1 DEF Byte
    <2>3. QED BY <2>1, <2>2
  <1>3. n = low + Base * high
    BY DEF CountAt
  <1>4. two \in Seq(Byte) /\ Len(two) = 2 /\ two[1] = low /\ two[2] = high
    <2>1. pos \in Nat /\ pos + 2 \in Nat /\ pos <= pos + 2 /\ pos + 2 - pos = 2
      OBVIOUS
    <2>2. /\ SubSeq(body, pos + 1, pos + 2) \in Seq(Byte)
          /\ Len(SubSeq(body, pos + 1, pos + 2)) = pos + 2 - pos
          /\ \A i \in 1 .. pos + 2 - pos : SubSeq(body, pos + 1, pos + 2)[i] = body[pos + i]
      BY <2>1, Part
    <2>3. QED BY <2>1, <2>2
  <1> HIDE DEF low, high, n, two
  <1>5. n \in Nat /\ n % Base = low /\ n \div Base = high
    <2>1. n \in Nat
      BY <1>1, <1>2, <1>3
    <2>2. n % Base \in 0 .. Base - 1 /\ n \div Base \in Nat /\ n = (Base * (n \div Base)) + (n % Base)
      <3>1. \A b \in Nat, k \in Nat : b > 1 => k % b \in 0 .. b - 1 /\ k \div b \in Nat
                                              /\ k = (b * (k \div b)) + (k % b)
        OBVIOUS
      <3>2. QED BY <1>1, <2>1, <3>1
    <2> DEFINE q == n \div Base
               r == n % Base
    <2>3. r \in 0 .. Base - 1 /\ q \in Nat /\ Base * q + r = Base * high + low
      BY <1>1, <1>2, <1>3, <2>2
    <2> HIDE DEF q, r
    <2>4. ~(q < high)
      <3> SUFFICES ASSUME q < high PROVE FALSE
        OBVIOUS
      <3>1. PICK d \in Nat : high = q + 1 + d
        <4>1. high - q - 1 \in Nat /\ high = q + 1 + (high - q - 1)
          BY <1>2, <2>3
        <4>2. QED BY <4>1
      <3>2. Base * high = Base * q + Base + Base * d /\ Base * d >= 0
        BY <1>1, <2>3, <3>1
      <3>3. QED BY <1>1, <1>2, <2>3, <3>2
    <2>5. ~(high < q)
      <3> SUFFICES ASSUME high < q PROVE FALSE
        OBVIOUS
      <3>1. PICK d \in Nat : q = high + 1 + d
        <4>1. q - high - 1 \in Nat /\ q = high + 1 + (q - high - 1)
          BY <1>2, <2>3
        <4>2. QED BY <4>1
      <3>2. Base * q = Base * high + Base + Base * d /\ Base * d >= 0
        BY <1>1, <1>2, <3>1
      <3>3. QED BY <1>1, <1>2, <2>3, <3>2
    <2>6. q = high
      BY <1>2, <2>3, <2>4, <2>5
    <2>7. r = low
      BY <1>1, <1>2, <2>3, <2>6
    <2>8. QED BY <2>1, <2>6, <2>7 DEF q, r
  <1>6. high % Base = high
    BY <1>1, <1>2
  <1>7. CountBytes(n) = << low, high >>
    BY <1>5, <1>6 DEF CountBytes
  <1>8. two = << low, high >>
    BY <1>4
  <1>9. QED BY <1>5, <1>7, <1>8 DEF n, two

LEMMA UpToZeroFacts ==
  ASSUME NEW bytes \in Seq(Byte)
  PROVE  UpToZero(bytes) \in Seq(Byte) /\ (Zeros(bytes) = {} => UpToZero(bytes) = bytes)
  <1> DEFINE P(n) == /\ \A i \in Zeros(bytes) : n < i
                     /\ n = Len(bytes) \/ n + 1 \in Zeros(bytes)
             n0 == CHOOSE n \in 0 .. Len(bytes) : P(n)
  <1>1. Len(bytes) \in Nat /\ Zeros(bytes) \in SUBSET (1 .. Len(bytes))
    BY DEF Zeros
  <1>2. \E n \in 0 .. Len(bytes) : P(n)
    <2>1. CASE Zeros(bytes) = {}
      <3>1. Len(bytes) \in 0 .. Len(bytes) /\ P(Len(bytes))
        BY <1>1, <2>1
      <3> HIDE DEF P
      <3>2. QED BY <3>1
    <2>2. CASE Zeros(bytes) # {}
      <3>1. Zeros(bytes) \in SUBSET Nat
        BY <1>1
      <3>2. PICK z \in Zeros(bytes) : \A i \in Zeros(bytes) : z <= i
        BY <2>2, <3>1, LeastNumber
      <3>3. z - 1 \in 0 .. Len(bytes) /\ P(z - 1)
        BY <1>1, <3>2
      <3> HIDE DEF P
      <3>4. QED BY <3>3
    <2>3. QED BY <2>1, <2>2
  <1>3. n0 \in 0 .. Len(bytes) /\ P(n0)
    <2> HIDE DEF P
    <2>1. QED BY <1>2
  <1>4. UpToZero(bytes) = SubSeq(bytes, 1, n0)
    BY DEF UpToZero
  <1> HIDE DEF n0
  <1>5. SubSeq(bytes, 1, n0) \in Seq(Byte)
    BY <1>1, <1>3, Front
  <1>6. Zeros(bytes) = {} => UpToZero(bytes) = bytes
    <2>1. Zeros(bytes) = {} => n0 = Len(bytes)
      BY <1>3
    <2>2. SubSeq(bytes, 1, Len(bytes)) = bytes
      OBVIOUS
    <2>3. QED BY <1>4, <2>1, <2>2
  <1>7. QED BY <1>4, <1>5, <1>6

LEMMA ReaderFields ==
  ASSUME NEW body \in Seq(Byte), NEW whole \in BOOLEAN,
         NEW pos \in 0 .. Len(body), NEW cnt \in Nat, NEW args \in Seq(Written)
  PROVE  [ok |-> TRUE, whole |-> whole, pos |-> pos, cnt |-> cnt, args |-> args] \in Reader(body)
  <1>1. [ok |-> TRUE, whole |-> whole, pos |-> pos, cnt |-> cnt, args |-> args]
          \in [ok : BOOLEAN, whole : BOOLEAN, pos : 0 .. Len(body), cnt : Nat, args : Seq(Written)]
    BY Zenon
  <1>2. QED BY <1>1, Zenon DEF Reader

(* What a type does to a reader that has not failed: it fails, it counts what is no type, or *)
(* it takes the next bytes as a value, which written again is those bytes.                   *)
Stays(r, q) == q.pos = r.pos /\ q.args = r.args /\ q.whole = r.whole
ReadsValue(body, r, q) ==
  /\ q.ok /\ q.cnt = r.cnt + 1 /\ Len(q.args) = Len(r.args) + 1
  /\ q.whole => /\ r.whole
                /\ \E v \in Written :
                     /\ q.args = Append(r.args, v)
                     /\ SubSeq(body, 1, q.pos) = SubSeq(body, 1, r.pos) \o Encode(v)
Reads(body, r, type, q) ==
  \/ ~q.ok /\ Stays(r, q)
  \/ q.ok /\ Stays(r, q) /\ type \in {"REPEAT", "ERROR"}
  \/ ReadsValue(body, r, q)

LEMMA ReadOne ==
  ASSUME NEW body \in Seq(Byte), NEW r \in Reader(body), NEW type \in Type, r.ok
  PROVE  /\ ReadParamData(r, type, body) \in Reader(body)
         /\ Reads(body, r, type, ReadParamData(r, type, body))
  <1> DEFINE q == ReadParamData(r, type, body)
             Fails == ~q.ok /\ Stays(r, q)
             Skips == q.ok /\ Stays(r, q) /\ type \in {"REPEAT", "ERROR"}
             Takes == ReadsValue(body, r, q)
  <1>1. /\ r.pos \in 0 .. Len(body) /\ r.pos \in Nat /\ r.cnt \in Nat /\ r.args \in Seq(Written)
        /\ r.whole \in BOOLEAN /\ Len(body) \in Nat
    BY DEF Reader
  <1>2. Failed(r) \in Reader(body) /\ ~Failed(r).ok /\ Stays(r, Failed(r))
    BY DEF Failed, Reader, Stays
  <1>3. CASE type \in DOMAIN Width
    <2> DEFINE end == r.pos + Width[type]
               bytes == SubSeq(body, r.pos + 1, end)
               v == [type |-> type, bytes |-> bytes]
    <2>1. q = ReadParamTemplate(r, type, body)
      BY <1>3 DEF ReadParamData
    <2>2. end \in Nat /\ r.pos <= end
      <3>1. Width[type] \in Nat
        BY <1>3, ParamsAssumption
      <3>2. QED BY <1>1, <3>1
    <2> HIDE DEF end
    <2>3. CASE end <= Len(body)
      <3>1. bytes \in Seq(Byte)
        BY <1>1, <2>2, <2>3, Part
      <3>2. SubSeq(body, 1, end) = SubSeq(body, 1, r.pos) \o bytes
        BY <1>1, <2>2, <2>3, Front
      <3> HIDE DEF bytes
      <3>3. v \in Written /\ v.bytes = bytes /\ v.type = type
        BY <1>3, <3>1 DEF Written
      <3>4. Encode(v) = bytes
        BY <1>3, <3>3, ParamsAssumption DEF Encode
      <3>5. q = [r EXCEPT !.pos = end, !.cnt = r.cnt + 1, !.args = Append(r.args, v)]
        BY <2>1, <2>3 DEF ReadParamTemplate, Pushed, end, bytes
      <3> HIDE DEF v
      <3>6. Append(r.args, v) \in Seq(Written) /\ Len(Append(r.args, v)) = Len(r.args) + 1
        BY <1>1, <3>3, AppendProperties
      <3> DEFINE args == Append(r.args, v)
      <3> HIDE DEF args, q
      <3>7. q = [r EXCEPT !.pos = end, !.cnt = r.cnt + 1, !.args = args] /\ args \in Seq(Written)
            /\ end \in 0 .. Len(body)
        BY <1>1, <2>2, <2>3, <3>5, <3>6 DEF args
      <3>8. q \in Reader(body) /\ q.ok /\ q.pos = end /\ q.cnt = r.cnt + 1 /\ q.args = args
            /\ q.whole = r.whole
        <4> DEFINE cnt == r.cnt + 1
                   rest == r.whole
        <4>1. q = [ok |-> TRUE, whole |-> rest, pos |-> end, cnt |-> cnt, args |-> args]
          BY <3>7 DEF Reader
        <4>2. /\ cnt \in Nat /\ rest \in BOOLEAN /\ end \in 0 .. Len(body)
              /\ args \in Seq(Written) /\ r.whole \in BOOLEAN
          BY <1>1, <3>7
        <4> HIDE DEF cnt, rest
        <4>3. q \in Reader(body)
          BY <4>1, <4>2, ReaderFields, Zenon
        <4>4. q.ok /\ q.pos = end /\ q.cnt = cnt /\ q.whole = rest /\ q.args = args
          BY <4>1
        <4>5. QED BY <4>3, <4>4 DEF cnt, rest
      <3>9. Takes
        BY <3>2, <3>3, <3>4, <3>6, <3>8 DEF args, ReadsValue
      <3>10. QED BY <3>8, <3>9 DEF q, Reads
    <2>4. CASE ~(end <= Len(body))
      <3>1. q = Failed(r)
        BY <2>1, <2>4 DEF ReadParamTemplate, end
      <3>2. QED BY <1>2, <3>1 DEF Reads
    <2>5. QED BY <2>3, <2>4
  <1>4. CASE type = "STRING"
    <2> DEFINE from == r.pos + 2
               end == r.pos + 2 + CountAt(body, r.pos)
               bytes == SubSeq(body, r.pos + 2 + 1, end)
               v == [type |-> "STRING", bytes |-> UpToZero(bytes)]
    <2>1. q = ReadParamString(r, body)
      BY <1>4, ParamsAssumption DEF ReadParamData
    <2>2. CASE r.pos + 2 > Len(body) \/ end > Len(body)
      <3>1. q = Failed(r)
        BY <2>1, <2>2 DEF ReadParamString
      <3>2. QED BY <1>2, <3>1 DEF Reads
    <2>3. CASE ~(r.pos + 2 > Len(body) \/ end > Len(body))
      <3>1. r.pos + 2 <= Len(body) /\ from \in Nat
        BY <1>1, <2>3
      <3>2. CountAt(body, r.pos) \in Nat
            /\ CountBytes(CountAt(body, r.pos)) = SubSeq(body, r.pos + 1, r.pos + 2)
        BY <1>1, <3>1, CountRead
      <3>3. end \in Nat /\ from <= end /\ end <= Len(body) /\ end - from = CountAt(body, r.pos)
        BY <1>1, <2>3, <3>1, <3>2
      <3>4. q = PushedString(r, body, from, end)
        BY <2>1, <2>3 DEF ReadParamString
      <3>5. bytes = SubSeq(body, from + 1, end)
        OBVIOUS
      <3>6. SubSeq(body, r.pos + 1, from) = CountBytes(end - from)
        BY <3>2, <3>3
      <3> HIDE DEF from, end, bytes
      <3>7. bytes \in Seq(Byte) /\ Len(bytes) = end - from
        BY <3>1, <3>3, <3>5, Part
      <3>8. UpToZero(bytes) \in Seq(Byte) /\ (Zeros(bytes) = {} => UpToZero(bytes) = bytes)
        BY <3>7, UpToZeroFacts
      <3>9. v \in Written /\ v.type = "STRING" /\ v.bytes = UpToZero(bytes)
        BY <3>8 DEF Written
      <3>10. q = [r EXCEPT !.pos = end, !.cnt = r.cnt + 1, !.whole = r.whole /\ Zeros(bytes) = {},
                           !.args = Append(r.args, v)]
        BY <3>4, <3>5 DEF PushedString
      <3> HIDE DEF v
      <3>11. SubSeq(body, 1, end) = (SubSeq(body, 1, r.pos) \o CountBytes(end - from)) \o bytes
        <4>1. from = r.pos + 2
          BY DEF from
        <4>2. r.pos <= from /\ from <= Len(body)
          BY <1>1, <3>1, <4>1
        <4>3. SubSeq(body, 1, r.pos) \o SubSeq(body, r.pos + 1, from) = SubSeq(body, 1, from)
          BY <1>1, <3>1, <4>2, Front
        <4>4. SubSeq(body, 1, from) \o SubSeq(body, from + 1, end) = SubSeq(body, 1, end)
          BY <3>1, <3>3, Front
        <4>5. QED BY <3>5, <3>6, <4>3, <4>4
      <3>12. Zeros(bytes) = {} => Encode(v) = CountBytes(end - from) \o bytes
        BY <3>7, <3>8, <3>9 DEF Encode
      <3>13. Zeros(bytes) = {} => SubSeq(body, 1, end) = SubSeq(body, 1, r.pos) \o Encode(v)
        <4> DEFINE a == SubSeq(body, 1, r.pos)
                   b == CountBytes(end - from)
        <4>1. a \in Seq(Byte)
          <5>1. 0 \in Nat /\ 0 <= r.pos /\ r.pos <= Len(body)
            BY <1>1
          <5>2. QED BY <1>1, <5>1, Front
        <4>2. b \in Seq(Byte)
          <5>1. r.pos <= from /\ from <= Len(body)
            BY <1>1, <3>1 DEF from
          <5>2. SubSeq(body, r.pos + 1, from) \in Seq(Byte)
            BY <1>1, <3>1, <5>1, Part
          <5>3. QED BY <3>6, <5>2
        <4> HIDE DEF a, b
        <4>3. (a \o b) \o bytes = a \o (b \o bytes)
          BY <3>7, <4>1, <4>2, ConcatAssociative
        <4>4. SubSeq(body, 1, end) = (a \o b) \o bytes
          BY <3>11 DEF a, b
        <4>5. Zeros(bytes) = {} => Encode(v) = b \o bytes
          BY <3>12 DEF b
        <4>6. QED BY <4>3, <4>4, <4>5 DEF a
      <3>14. Append(r.args, v) \in Seq(Written) /\ Len(Append(r.args, v)) = Len(r.args) + 1
        BY <1>1, <3>9, AppendProperties
      <3> DEFINE args == Append(r.args, v)
                 whole == r.whole /\ Zeros(bytes) = {}
      <3>15. whole \in BOOLEAN
        BY <1>1
      <3> HIDE DEF args, q, whole
      <3>16. q = [r EXCEPT !.pos = end, !.cnt = r.cnt + 1, !.whole = whole, !.args = args]
             /\ args \in Seq(Written) /\ end \in 0 .. Len(body)
        BY <1>1, <3>3, <3>10, <3>14 DEF args, whole
      <3>17. q \in Reader(body) /\ q.ok /\ q.pos = end /\ q.cnt = r.cnt + 1 /\ q.args = args
             /\ q.whole = whole
        <4> DEFINE cnt == r.cnt + 1
        <4>1. q = [ok |-> TRUE, whole |-> whole, pos |-> end, cnt |-> cnt, args |-> args]
          BY <3>16 DEF Reader
        <4>2. cnt \in Nat /\ whole \in BOOLEAN /\ end \in 0 .. Len(body) /\ args \in Seq(Written)
          BY <1>1, <3>15, <3>16
        <4> HIDE DEF cnt
        <4>3. q \in Reader(body)
          BY <4>1, <4>2, ReaderFields, Zenon
        <4>4. q.ok /\ q.pos = end /\ q.cnt = cnt /\ q.whole = whole /\ q.args = args
          BY <4>1
        <4>5. QED BY <4>3, <4>4 DEF cnt
      <3>18. Takes
        BY <3>9, <3>13, <3>14, <3>17 DEF args, whole, ReadsValue
      <3>19. QED BY <3>17, <3>18 DEF q, Reads
    <2>4. QED BY <2>2, <2>3
  <1>5. CASE type \notin DOMAIN Width /\ type # "STRING"
    <2>1. q = [r EXCEPT !.cnt = r.cnt + 1]
      BY <1>5 DEF ReadParamData
    <2>2. type \in {"REPEAT", "ERROR"}
      BY <1>5 DEF Type
    <2> HIDE DEF q
    <2>3. q \in Reader(body) /\ Skips
      BY <1>1, <2>1, <2>2 DEF Reader, Stays
    <2>4. QED BY <2>3 DEF q, Reads
  <1>6. QED BY <1>3, <1>4, <1>5

LEMMA Regroup ==
  ASSUME NEW a \in Seq(Byte), NEW b \in Seq(Byte), NEW c \in Seq(Byte)
  PROVE  (a \o b) \o c = a \o (b \o c)
  BY ConcatAssociative

(* ReadAll as the end of a sequence of steps. *)
LEMMA ReadSteps ==
  ASSUME NEW body \in Seq(Byte), NEW types \in Seq(Type), NEW r \in Reader(body)
  PROVE  \E g \in [0 .. Len(types) -> Reader(body)] :
           /\ g[0] = r
           /\ \A i \in 1 .. Len(types) :
                g[i] = IF g[i - 1].ok THEN ReadParamData(g[i - 1], types[i], body) ELSE g[i - 1]
           /\ ReadAll(r, types, body) = g[Len(types)]
  <1> DEFINE n == Len(types)
             Next(i, q) == IF q.ok THEN ReadParamData(q, types[i], body) ELSE q
             F == [i \in 1 .. n |-> [q \in Reader(body) |-> Next(i, q)]]
             Right(u) == u = [i \in 0 .. n |-> IF i = 0 THEN r ELSE Next(i, u[i - 1])]
  <1>1. n \in Nat
    OBVIOUS
  <1>2. \A i \in 1 .. n : \A q \in Reader(body) : Next(i, q) \in Reader(body)
    <2> SUFFICES ASSUME NEW i \in 1 .. n, NEW q \in Reader(body) PROVE Next(i, q) \in Reader(body)
      OBVIOUS
    <2>1. types[i] \in Type
      OBVIOUS
    <2>2. CASE q.ok
      BY <2>1, <2>2, ReadOne
    <2>3. CASE ~q.ok
      BY <2>3
    <2>4. QED BY <2>2, <2>3
  <1> HIDE DEF Next
  <1>3. F \in [1 .. n -> [Reader(body) -> Reader(body)]]
    BY <1>2
  <1>4. PICK g \in [0 .. n -> Reader(body)] : g[0] = r /\ \A i \in 1 .. n : g[i] = F[i][g[i - 1]]
    <2> HIDE DEF F, n
    <2>1. F \in Steps(n, Reader(body))
      BY <1>3 DEF Steps
    <2>2. PICK f : IsPath(f, Reader(body), r, n, F)
      BY <1>1, <2>1, Iterated, Zenon
    <2>3. QED BY <2>2 DEF IsPath
  <1>5. \A i \in 1 .. n : g[i] = Next(i, g[i - 1])
    <2> SUFFICES ASSUME NEW i \in 1 .. n PROVE g[i] = Next(i, g[i - 1])
      OBVIOUS
    <2>1. g[i - 1] \in Reader(body)
      BY <1>1, <1>4
    <2>2. QED BY <1>4, <2>1
  <1>6. Right(g)
    <2> DEFINE h == [i \in 0 .. n |-> IF i = 0 THEN r ELSE Next(i, g[i - 1])]
    <2>1. \A i \in 0 .. n : g[i] = h[i]
      BY <1>1, <1>4, <1>5
    <2>2. QED BY <1>4, <2>1
  <1> DEFINE u == CHOOSE f : Right(f)
  <1>7. Right(u)
    BY <1>6
  <1>8. ReadAll(r, types, body) = u[n]
    BY DEF ReadAll, Next
  <1> HIDE DEF u
  <1>9. DOMAIN u = 0 .. n /\ u[0] = r /\ \A i \in 1 .. n : u[i] = Next(i, u[i - 1])
    <2> HIDE DEF n
    <2>1. u = [i \in 0 .. n |-> IF i = 0 THEN r ELSE Next(i, u[i - 1])]
      BY <1>7
    <2>2. DOMAIN u = 0 .. n /\ u[0] = r
      BY <1>1, <2>1
    <2>3. \A i \in 1 .. n : i \in 0 .. n /\ i # 0
      BY <1>1
    <2>4. \A i \in 1 .. n : u[i] = Next(i, u[i - 1])
      BY <2>1, <2>3, Zenon
    <2>5. QED BY <2>2, <2>4
  <1>10. \A i \in 0 .. n : u[i] = g[i]
    <2> DEFINE S == {i \in 0 .. n : u[i] = g[i]}
    <2>1. 0 \in S
      BY <1>1, <1>4, <1>9
    <2>2. ASSUME NEW i \in 1 .. n, i - 1 \in S PROVE i \in S
      <3>1. u[i - 1] = g[i - 1] /\ i \in 0 .. n
        BY <1>1, <2>2
      <3>2. u[i] = g[i]
        BY <1>5, <1>9, <3>1, Zenon
      <3>3. QED BY <3>1, <3>2
    <2> HIDE DEF S
    <2>3. \A i \in 0 .. n : i \in S
      BY <1>1, <2>1, <2>2, UpTo
    <2>4. QED BY <2>3 DEF S
  <1>11. ReadAll(r, types, body) = g[n]
    BY <1>1, <1>8, <1>10
  <1>12. QED BY <1>4, <1>5, <1>11 DEF Next

(* What has been read, written again, is the front of the message, and it has been counted. *)
LEMMA ReadAllFacts ==
  ASSUME NEW body \in Seq(Byte), NEW types \in Seq(Type), NEW r \in Reader(body),
         r.ok, r.args = << >>
  PROVE  LET q == ReadAll(r, types, body)
         IN  /\ q \in Reader(body)
             /\ q.whole => SubSeq(body, 1, q.pos) = SubSeq(body, 1, r.pos) \o EncodeAll(q.args)
             /\ q.ok /\ (\A k \in 1 .. Len(types) : types[k] \notin {"REPEAT", "ERROR"})
                  => q.cnt = r.cnt + Len(q.args)
  <1> DEFINE n == Len(types)
             start == SubSeq(body, 1, r.pos)
             Good == \A k \in 1 .. Len(types) : types[k] \notin {"REPEAT", "ERROR"}
             Right(q) == /\ q.whole => SubSeq(body, 1, q.pos) = start \o EncodeAll(q.args)
                         /\ q.ok /\ Good => q.cnt = r.cnt + Len(q.args)
  <1>1. n \in Nat /\ r.pos \in Nat /\ r.pos <= Len(body) /\ r.cnt \in Nat /\ Len(body) \in Nat
    BY DEF Reader
  <1>2. start \in Seq(Byte)
    <2>1. 0 \in Nat /\ 0 <= r.pos
      BY <1>1
    <2>2. QED BY <1>1, <2>1, Front
  <1>3. PICK g \in [0 .. n -> Reader(body)] :
          /\ g[0] = r
          /\ \A i \in 1 .. n :
               g[i] = IF g[i - 1].ok THEN ReadParamData(g[i - 1], types[i], body) ELSE g[i - 1]
          /\ ReadAll(r, types, body) = g[n]
    BY ReadSteps
  <1>4. Right(r)
    <2>1. EncodeAll(r.args) = << >>
      <3>1. r.args \in Seq(Written) /\ Len(r.args) = 0
        OBVIOUS
      <3>2. QED BY <3>1, EncodeNone DEF EncodeAll
    <2>2. start \o << >> = start
      BY <1>2, ConcatEmptySeq
    <2>3. r.cnt = r.cnt + Len(r.args)
      BY <1>1
    <2>4. SubSeq(body, 1, r.pos) = start \o EncodeAll(r.args)
      BY <2>1, <2>2
    <2>5. QED BY <2>3, <2>4
  <1> DEFINE S == {i \in 0 .. n : Right(g[i])}
  <1>5. 0 \in S
    BY <1>1, <1>3, <1>4
  <1>6. ASSUME NEW i \in 1 .. n, i - 1 \in S PROVE i \in S
    <2> DEFINE before == g[i - 1]
               q == g[i]
    <2>1. before \in Reader(body) /\ Right(before) /\ types[i] \in Type /\ i \in 0 .. n
          /\ q \in Reader(body)
      <3> HIDE DEF Right
      <3>1. i - 1 \in 0 .. n /\ i \in 0 .. n
        BY <1>1
      <3>2. before \in Reader(body) /\ q \in Reader(body)
        BY <3>1
      <3>3. types[i] \in Type
        OBVIOUS
      <3>4. Right(before)
        BY <1>6
      <3>5. QED BY <3>1, <3>2, <3>3, <3>4
    <2>2. CASE ~before.ok
      <3>1. q = before
        BY <1>3, <2>2
      <3> HIDE DEF q, before, Right
      <3>2. Right(q)
        BY <2>1, <3>1
      <3>3. QED BY <2>1, <3>2 DEF q
    <2>3. CASE before.ok
      <3>1. q = ReadParamData(before, types[i], body)
        BY <1>3, <2>3
      <3> HIDE DEF q, before, start
      <3>2. Reads(body, before, types[i], q)
        BY <2>1, <2>3, <3>1, ReadOne
      <3>3. CASE ~q.ok /\ Stays(before, q)
        <4>1. Right(q)
          BY <2>1, <3>3 DEF Stays
        <4> HIDE DEF Right
        <4>2. QED BY <2>1, <4>1 DEF q
      <3>4. CASE q.ok /\ Stays(before, q) /\ types[i] \in {"REPEAT", "ERROR"}
        <4>1. ~Good
          BY <3>4
        <4> HIDE DEF Good
        <4>2. Right(q)
          BY <2>1, <3>4, <4>1 DEF Stays
        <4> HIDE DEF Right
        <4>3. QED BY <2>1, <4>2 DEF q
      <3>5. CASE ReadsValue(body, before, q)
        <4>1. Good => q.cnt = r.cnt + Len(q.args)
          <5>1. Good => before.cnt = r.cnt + Len(before.args)
            BY <2>1, <2>3
          <5>2. Len(before.args) \in Nat /\ before.cnt \in Nat
            BY <2>1 DEF Reader
          <5> HIDE DEF Good
          <5>3. QED BY <1>1, <3>5, <5>1, <5>2 DEF ReadsValue
        <4>2. ASSUME q.whole PROVE SubSeq(body, 1, q.pos) = start \o EncodeAll(q.args)
          <5>1. PICK v \in Written :
                  /\ q.args = Append(before.args, v)
                  /\ SubSeq(body, 1, q.pos) = SubSeq(body, 1, before.pos) \o Encode(v)
            BY <3>5, <4>2 DEF ReadsValue
          <5> DEFINE all == EncodeAll(before.args)
                     last == Encode(v)
          <5>2. SubSeq(body, 1, before.pos) = start \o all
            BY <2>1, <3>5, <4>2 DEF ReadsValue
          <5>3. before.args \in Seq(Written)
            BY <2>1 DEF Reader
          <5>4. EncodeAll(q.args) = all \o last /\ all \in Seq(Byte) /\ last \in Seq(Byte)
            BY <5>1, <5>3, EncodeAllAppend, EncodeSomeIsBytes, EncodeIsBytes DEF EncodeAll
          <5> HIDE DEF all, last
          <5>5. (start \o all) \o last = start \o (all \o last)
            <6>1. start \in Seq(Byte) /\ all \in Seq(Byte) /\ last \in Seq(Byte)
              BY <1>2, <5>4
            <6>2. QED BY <6>1, Regroup, Zenon
          <5>6. QED BY <5>1, <5>2, <5>4, <5>5 DEF last
        <4>3. Right(q)
          BY <4>1, <4>2
        <4> HIDE DEF Right
        <4>4. QED BY <2>1, <4>3 DEF q
      <3>6. QED BY <3>2, <3>3, <3>4, <3>5 DEF Reads
    <2>4. QED BY <2>2, <2>3
  <1> HIDE DEF S, Right
  <1>7. \A i \in 0 .. n : i \in S
    BY <1>1, <1>5, <1>6, UpTo
  <1>8. Right(g[n]) /\ g[n] \in Reader(body)
    BY <1>1, <1>7 DEF S
  <1>9. QED BY <1>3, <1>8 DEF Right

(* What is counted without a value. *)
NoType == {"REPEAT", "ERROR"}

LEMMA TimesTypes ==
  ASSUME NEW types \in Seq(Type), NEW n \in Nat
  PROVE  /\ Times(n, types) \in Seq(Type)
         /\ \A k \in 1 .. Len(Times(n, types)) :
              \E j \in 1 .. Len(types) : Times(n, types)[k] = types[j]
  <1> DEFINE len == Len(types)
             all == n * len
             Place(i) == ((i - 1) % len) + 1
  <1>1. len \in Nat /\ all \in Nat
    <2>1. \A a, b \in Nat : a * b \in Nat
      OBVIOUS
    <2>2. QED BY <2>1
  <1>2. \A i \in 1 .. all : Place(i) \in 1 .. len
    <2> SUFFICES ASSUME NEW i \in 1 .. all PROVE Place(i) \in 1 .. len
      OBVIOUS
    <2>1. len # 0
      <3>1. len = 0 => all = 0
        BY <1>1
      <3>2. all # 0
        BY <1>1
      <3>3. QED BY <3>1, <3>2
    <2> HIDE DEF len, all
    <2>2. i - 1 \in Nat /\ len > 0
      BY <1>1, <2>1
    <2>3. (i - 1) % len \in 0 .. len - 1
      BY <1>1, <2>2
    <2>4. QED BY <1>1, <2>3
  <1>3. Times(n, types) = [i \in 1 .. all |-> types[Place(i)]]
    BY DEF Times
  <1> HIDE DEF all, Place
  <1>4. \A i \in 1 .. all : types[Place(i)] \in Type
    BY <1>2
  <1>5. Times(n, types) \in Seq(Type) /\ Len(Times(n, types)) = all
    BY <1>1, <1>3, <1>4
  <1>6. \A k \in 1 .. all : Times(n, types)[k] = types[Place(k)]
    BY <1>3
  <1>7. QED BY <1>2, <1>5, <1>6

(* A reader at the start of a message's parameters. *)
LEMMA StartIsReader ==
  ASSUME NEW body \in Seq(Byte)
  PROVE  /\ Start \in Reader(body) /\ Start.ok /\ Start.whole /\ Start.pos = 0 /\ Start.cnt = 1
         /\ Start.args = << >>
  <1>1. /\ 0 \in 0 .. Len(body) /\ 1 \in Nat /\ TRUE \in BOOLEAN
        /\ << >> \in Seq(Written)
    OBVIOUS
  <1>2. Start \in Reader(body)
    BY <1>1, ReaderFields, Zenon DEF Start
  <1>3. QED BY <1>2 DEF Start

(* A reader behind the count of a repetition. *)
Second == [Start EXCEPT !.pos = 2, !.cnt = 2]

LEMMA SecondIsReader ==
  ASSUME NEW body \in Seq(Byte), Len(body) >= 2
  PROVE  /\ Second \in Reader(body) /\ Second.ok /\ Second.pos = 2 /\ Second.cnt = 2
         /\ Second.args = << >>
  <1> DEFINE r == Start
             q == Second
  <1>1. 2 \in 0 .. Len(body) /\ 2 \in Nat
    OBVIOUS
  <1>2. q = [r EXCEPT !.pos = 2, !.cnt = 2]
    BY DEF Second
  <1>3. r \in Reader(body) /\ r.ok /\ r.args = << >>
    BY StartIsReader
  <1> HIDE DEF r, q
  <1>4. q \in Reader(body) /\ q.ok = r.ok /\ q.pos = 2 /\ q.cnt = 2 /\ q.args = r.args
    BY <1>1, <1>2, <1>3 DEF Reader
  <1>5. QED BY <1>3, <1>4 DEF q

(* The arguments written again, behind the count of a repetition. *)
Repeats(types, body) == types # << >> /\ Head(types) = "REPEAT" /\ Len(body) >= 2
Again(types, body) ==
  (IF Repeats(types, body) THEN SubSeq(body, 1, 2) ELSE << >>)
  \o EncodeAll(ReadTypes(types, body).args)

LEMMA FrontAgain ==
  ASSUME NEW body \in Seq(Byte), NEW pos \in 0 .. Len(body), NEW s, SubSeq(body, 1, pos) = s
  PROVE  SubSeq(body, 1, Len(s)) = s
  <1>1. 0 \in Nat /\ pos \in Nat /\ 0 <= pos /\ pos <= Len(body)
    OBVIOUS
  <1>2. Len(SubSeq(body, 1, pos)) = pos
    BY <1>1, Front
  <1>3. QED BY <1>2

LEMMA ReadTypesFacts ==
  ASSUME NEW body \in Seq(Byte), NEW types \in Seq(Type), ReadTypes(types, body).ok
  PROVE  /\ ReadTypes(types, body).whole
              => SubSeq(body, 1, Len(Again(types, body))) = Again(types, body)
         /\ (\A k \in 1 .. Len(types) : types[k] \in NoType => k = 1 /\ types[k] = "REPEAT")
              => ReadTypes(types, body).cnt = PushedBy(types, body)
  <1> DEFINE q == ReadTypes(types, body)
             Good == \A k \in 1 .. Len(types) : types[k] \in NoType => k = 1 /\ types[k] = "REPEAT"
             Repeat == types # << >> /\ Head(types) = "REPEAT"
             more == IF Repeat /\ Len(body) >= 2 /\ CountAt(body, 0) > 0 THEN 1 ELSE 0
  <1>1. PushedBy(types, body) = 1 + Len(q.args) + more
    BY DEF PushedBy
  <1>2. CASE ~Repeat
    <2>1. q = ReadAll(Start, types, body) /\ more = 0 /\ ~Repeats(types, body)
      BY <1>2 DEF ReadTypes, Repeats
    <2> HIDE DEF q
    <2>2. /\ q \in Reader(body)
          /\ q.whole => SubSeq(body, 1, q.pos) = SubSeq(body, 1, Start.pos) \o EncodeAll(q.args)
          /\ q.ok /\ (\A k \in 1 .. Len(types) : types[k] \notin {"REPEAT", "ERROR"})
               => q.cnt = Start.cnt + Len(q.args)
      BY <2>1, StartIsReader, ReadAllFacts
    <2>3. Good => \A k \in 1 .. Len(types) : types[k] \notin {"REPEAT", "ERROR"}
      BY <1>2 DEF NoType
    <2>4. Good => q.cnt = 1 + Len(q.args) + more
      <3>1. Len(q.args) \in Nat
        BY <2>2 DEF Reader
      <3> HIDE DEF Good, more
      <3>2. q.ok
        BY DEF q
      <3>3. QED BY <2>1, <2>2, <2>3, <3>1, <3>2, StartIsReader
    <2>5. Again(types, body) = << >> \o EncodeAll(q.args)
      BY <2>1 DEF Again, q
    <2>6. SubSeq(body, 1, 0) = << >>
      OBVIOUS
    <2>7. q.whole => SubSeq(body, 1, q.pos) = Again(types, body)
      BY <2>2, <2>5, <2>6, StartIsReader
    <2>8. q.pos \in 0 .. Len(body)
      BY <2>2 DEF Reader
    <2>9. q.whole => SubSeq(body, 1, Len(Again(types, body))) = Again(types, body)
      BY <2>7, <2>8, FrontAgain
    <2> HIDE DEF Good, more
    <2>10. QED BY <1>1, <2>4, <2>9 DEF q, Good
  <1>3. CASE Repeat /\ Len(body) < 2
    <2>1. q = Start /\ more = 0 /\ ~Repeats(types, body)
      BY <1>3 DEF ReadTypes, ReadRepeat, Repeats
    <2>2. q.cnt = 1 + Len(q.args) + more
      <3>1. q.cnt = 1 /\ q.args = << >>
        BY <2>1, StartIsReader
      <3> HIDE DEF q, more
      <3>2. Len(q.args) = 0
        BY <3>1
      <3>3. QED BY <2>1, <3>1, <3>2
    <2>3. Again(types, body) = << >>
      <3>1. << >> \in Seq(Written) /\ Len(<< >>) = 0
        OBVIOUS
      <3>2. EncodeAll(<< >>) = << >>
        BY <3>1, EncodeNone DEF EncodeAll
      <3>3. q.args = << >>
        BY <2>1, StartIsReader
      <3> HIDE DEF q
      <3>4. Again(types, body) = << >> \o << >>
        BY <2>1, <3>2, <3>3 DEF Again, q
      <3>5. QED BY <3>4
    <2>4. SubSeq(body, 1, Len(<< >>)) = << >>
      OBVIOUS
    <2> HIDE DEF q, more
    <2>5. QED BY <1>1, <2>2, <2>3, <2>4 DEF q
  <1>4. CASE Repeat /\ Len(body) >= 2
    <2> DEFINE r == Second
               n == CountAt(body, 0)
               rest == Times(n, Tail(types))
    <2>1. n \in Nat
      <3>1. 0 \in Nat /\ 0 + 2 <= Len(body)
        BY <1>4
      <3>2. QED BY <3>1, CountRead
    <2>2. n # 0
      <3> SUFFICES ASSUME n = 0 PROVE FALSE
        OBVIOUS
      <3>1. q = Failed(Start)
        BY <1>4 DEF ReadTypes, ReadRepeat
      <3>2. ~q.ok
        BY <3>1 DEF Failed, Start
      <3>3. QED BY <3>2
    <2>3. q = ReadAll(r, rest, body) /\ more = 1 /\ Repeats(types, body)
      <3>1. q = ReadAll(r, rest, body)
        BY <1>4, <2>2 DEF ReadTypes, ReadRepeat, Second
      <3>2. n > 0
        BY <2>1, <2>2
      <3>3. QED BY <1>4, <3>1, <3>2 DEF Repeats
    <2>4. Tail(types) \in Seq(Type) /\ Len(Tail(types)) = Len(types) - 1
          /\ \A k \in 1 .. Len(types) - 1 : Tail(types)[k] = types[k + 1]
      BY <1>4
    <2> DEFINE tail == Tail(types)
    <2> HIDE DEF n, tail
    <2>5. /\ Times(n, tail) \in Seq(Type)
          /\ \A k \in 1 .. Len(Times(n, tail)) :
               \E j \in 1 .. Len(tail) : Times(n, tail)[k] = tail[j]
      BY <2>1, <2>4, TimesTypes DEF tail
    <2>6. rest = Times(n, tail)
      BY DEF tail
    <2> HIDE DEF rest
    <2>7. Good => \A k \in 1 .. Len(rest) : rest[k] \notin {"REPEAT", "ERROR"}
      <3> SUFFICES ASSUME Good, NEW k \in 1 .. Len(rest) PROVE rest[k] \notin {"REPEAT", "ERROR"}
        OBVIOUS
      <3>1. PICK j \in 1 .. Len(tail) : rest[k] = tail[j]
        BY <2>5, <2>6
      <3>2. Len(types) \in Nat /\ Len(tail) = Len(types) - 1 /\ tail[j] = types[j + 1]
        BY <2>4 DEF tail
      <3>3. j + 1 \in 1 .. Len(types) /\ j + 1 # 1
        BY <3>2
      <3>4. types[j + 1] \notin NoType
        BY <3>3
      <3>5. QED BY <3>1, <3>2, <3>4 DEF NoType
    <2>8. r \in Reader(body) /\ r.ok /\ r.pos = 2 /\ r.cnt = 2 /\ r.args = << >>
      BY <1>4, SecondIsReader
    <2>9. rest \in Seq(Type)
      BY <2>5, <2>6
    <2> HIDE DEF q, r, Good, more
    <2>10. /\ q \in Reader(body)
           /\ q.whole => SubSeq(body, 1, q.pos) = SubSeq(body, 1, r.pos) \o EncodeAll(q.args)
           /\ q.ok /\ (\A k \in 1 .. Len(rest) : rest[k] \notin {"REPEAT", "ERROR"})
                => q.cnt = r.cnt + Len(q.args)
      BY <2>3, <2>8, <2>9, ReadAllFacts
    <2>11. Good => q.cnt = 1 + Len(q.args) + more
      <3>1. Len(q.args) \in Nat
        BY <2>10 DEF Reader
      <3>2. q.ok
        BY DEF q
      <3>3. QED BY <2>3, <2>7, <2>8, <2>10, <3>1, <3>2
    <2>12. Again(types, body) = SubSeq(body, 1, 2) \o EncodeAll(q.args)
      BY <2>3 DEF Again, q
    <2>13. q.whole => SubSeq(body, 1, q.pos) = Again(types, body)
      BY <2>8, <2>10, <2>12
    <2>14. q.pos \in 0 .. Len(body)
      BY <2>10 DEF Reader
    <2>15. q.whole => SubSeq(body, 1, Len(Again(types, body))) = Again(types, body)
      BY <2>13, <2>14, FrontAgain
    <2>16. QED BY <1>1, <2>11, <2>15 DEF q, Good
  <1>5. Len(body) < 2 \/ Len(body) >= 2
    <2>1. Len(body) \in Nat
      OBVIOUS
    <2>2. QED BY <2>1
  <1> HIDE DEF Repeat, q, Good
  <1>6. QED BY <1>2, <1>3, <1>4, <1>5

(* The types of a configured message; only the last of them can be none. *)
LEMMA ConfiguredTypes ==
  ASSUME NEW id \in DOMAIN ReadMsgConfigure(Nodes)
  PROVE  /\ ReadMsgConfigure(Nodes)[id].types \in Seq(Type)
         /\ \A k \in 1 .. Len(ReadMsgConfigure(Nodes)[id].types) - 1 :
              ReadMsgConfigure(Nodes)[id].types[k] # "ERROR"
  <1> DEFINE IsFirst(i, d) == /\ Nodes[i].id = d
                              /\ \A j \in Accepted(Nodes) : Nodes[j].id = d => i <= j
             first(d) == CHOOSE i \in Accepted(Nodes) : IsFirst(i, d)
             Parsed(words) == [k \in DOMAIN words |-> ParseType(words[k])]
             ids == {Nodes[i].id : i \in Accepted(Nodes)}
             words == Nodes[first(id)].words
             types == Parsed(words)
  <1>1. ReadMsgConfigure(Nodes) = [d \in ids |-> [function |-> Nodes[first(d)].function,
                                                  types |-> Parsed(Nodes[first(d)].words)]]
    BY DEF ReadMsgConfigure
  <1>2. Accepted(Nodes) \in SUBSET Nat /\ Accepted(Nodes) \in SUBSET (DOMAIN Nodes)
    <2>1. DOMAIN Nodes \in SUBSET Nat
      BY MessagesAssumption
    <2>2. QED BY <2>1 DEF Accepted
  <1>3. first(id) \in Accepted(Nodes)
    <2>1. PICK n \in Accepted(Nodes) : Nodes[n].id = id
      <3> HIDE DEF first, Parsed
      <3>1. id \in ids
        BY <1>1
      <3>2. QED BY <3>1
    <2> DEFINE T == {i \in Accepted(Nodes) : Nodes[i].id = id}
    <2>2. T \in SUBSET Nat /\ T # {}
      BY <1>2, <2>1
    <2>3. PICK i \in T : \A j \in T : i <= j
      BY <2>2, LeastNumber
    <2>4. i \in Accepted(Nodes) /\ IsFirst(i, id)
      BY <2>3
    <2> HIDE DEF IsFirst
    <2>5. QED BY <2>4
  <1>4. ReadMsgConfigure(Nodes)[id].types = types
    <2> HIDE DEF first, Parsed
    <2>1. id \in ids
      BY <1>1
    <2> HIDE DEF ids
    <2>2. QED BY <1>1, <2>1
  <1> HIDE DEF first
  <1>5. words \in Seq(STRING)
    <2>1. \A n \in DOMAIN Nodes : Nodes[n].words \in Seq(STRING)
      <3> DEFINE Node == [id : Int, words : Seq(STRING), function : STRING]
      <3>1. \A node \in Node : node.words \in Seq(STRING)
        OBVIOUS
      <3>2. Nodes \in Seq(Node)
        BY MessagesAssumption
      <3> HIDE DEF Node
      <3>3. \A n \in DOMAIN Nodes : Nodes[n] \in Node
        BY <3>2
      <3>4. QED BY <3>1, <3>3
    <2>2. QED BY <1>2, <1>3, <2>1
  <1>6. Split(words)
    <2>1. \A n \in Accepted(Nodes) : Split(Nodes[n].words)
      <3> SUFFICES ASSUME NEW n \in Accepted(Nodes) PROVE Split(Nodes[n].words)
        OBVIOUS
      <3>1. n \in Nat /\ n \in 1 .. n
        <4>1. n \in Nat /\ n \in DOMAIN Nodes
          BY <1>2
        <4>2. n >= 1
          BY <4>1, MessagesAssumption
        <4>3. QED BY <4>1, <4>2
      <3>2. \A j \in 1 .. n : Split(Nodes[j].words)
        BY DEF Accepted
      <3>3. QED BY <3>1, <3>2
    <2>2. QED BY <1>3, <2>1
  <1> HIDE DEF words
  <1>7. \A word \in STRING : /\ ParseType(word) \in Type
                             /\ word \in KnownWord => ParseType(word) # "ERROR"
    <2>1. "ERROR" \notin KnownWord
      BY ParamsAssumption DEF KnownWord
    <2>2. KnownWord \subseteq Type /\ "ERROR" \in Type
      BY DEF KnownWord, Type
    <2>3. QED BY <2>1, <2>2 DEF ParseType
  <1>8. Len(words) \in Nat /\ DOMAIN words = 1 .. Len(words)
        /\ \A k \in 1 .. Len(words) : words[k] \in STRING
    BY <1>5
  <1>9. types \in Seq(Type) /\ Len(types) = Len(words)
    <2>1. types \in [1 .. Len(words) -> Type]
      BY <1>7, <1>8
    <2> HIDE DEF types
    <2>2. QED BY <1>8, <2>1
  <1>10. \A k \in 1 .. Len(types) - 1 : types[k] # "ERROR"
    <2> SUFFICES ASSUME NEW k \in 1 .. Len(words) - 1 PROVE types[k] # "ERROR"
      BY <1>9
    <2>1. words[k] \in KnownWord /\ k \in 1 .. Len(words)
      BY <1>6, <1>8 DEF Split
    <2>2. QED BY <1>7, <1>8, <2>1
  <1>11. QED BY <1>4, <1>9, <1>10

-------------------------------------------------------------------------------
(* What is written is read back. *)

LEMMA Joined ==
  ASSUME NEW a \in Seq(Byte), NEW b \in Seq(Byte)
  PROVE  /\ a \o b \in Seq(Byte) /\ Len(a \o b) = Len(a) + Len(b)
         /\ \A i \in 1 .. Len(a) + Len(b) : (a \o b)[i] = IF i <= Len(a) THEN a[i] ELSE b[i - Len(a)]
  BY ConcatProperties

LEMMA CountIsTwo ==
  ASSUME NEW n \in Nat
  PROVE  /\ CountBytes(n) \in Seq(Byte) /\ Len(CountBytes(n)) = 2
         /\ CountBytes(n)[1] = n % Base /\ CountBytes(n)[2] = (n \div Base) % Base
  <1>1. \A k \in Nat : k % Base \in 0 .. Base - 1 /\ k \div Base \in Nat
    BY ParamsAssumption
  <1>2. n % Base \in Byte /\ (n \div Base) % Base \in Byte
    BY <1>1 DEF Byte
  <1>3. QED BY <1>2 DEF CountBytes

(* What lies between two parts of a message. *)
Between(s, a, b, c) ==
  /\ s \in Seq(Byte) /\ Len(s) = Len(a) + Len(b) + Len(c)
  /\ \A i \in 1 .. Len(b) : s[Len(a) + i] = b[i]
  /\ SubSeq(s, Len(a) + 1, Len(a) + Len(b)) = b

LEMMA Middle ==
  ASSUME NEW a \in Seq(Byte), NEW b \in Seq(Byte), NEW c \in Seq(Byte)
  PROVE  Between((a \o b) \o c, a, b, c)
  <1> DEFINE s == (a \o b) \o c
             ab == a \o b
             from == Len(a)
             to == Len(a) + Len(b)
  <1>1. /\ ab \in Seq(Byte) /\ Len(ab) = to
        /\ \A i \in 1 .. to : ab[i] = IF i <= Len(a) THEN a[i] ELSE b[i - Len(a)]
    BY ConcatProperties
  <1>2. /\ from \in Nat /\ to \in Nat /\ Len(b) \in Nat /\ Len(c) \in Nat
        /\ from <= to /\ to - from = Len(b)
    OBVIOUS
  <1> HIDE DEF ab, s
  <1>3. /\ ab \o c \in Seq(Byte) /\ Len(ab \o c) = Len(ab) + Len(c)
        /\ \A i \in 1 .. Len(ab) + Len(c) : (ab \o c)[i] = IF i <= Len(ab) THEN ab[i] ELSE c[i - Len(ab)]
    BY <1>1, Joined, Zenon
  <1>4. s = ab \o c
    BY DEF ab, s
  <1>5. s \in Seq(Byte) /\ Len(s) = to + Len(c)
    BY <1>1, <1>3, <1>4
  <1>6. \A i \in 1 .. Len(b) : s[from + i] = b[i]
    <2> SUFFICES ASSUME NEW i \in 1 .. Len(b) PROVE s[from + i] = b[i]
      OBVIOUS
    <2> DEFINE k == from + i
    <2>1. k \in 1 .. to /\ k \in 1 .. to + Len(c) /\ k <= to /\ ~(k <= Len(a)) /\ k - Len(a) = i
      BY <1>2
    <2> HIDE DEF k, from, to
    <2>2. s[k] = ab[k]
      BY <1>1, <1>3, <1>4, <2>1
    <2>3. ab[k] = b[i]
      BY <1>1, <2>1
    <2>4. QED BY <2>2, <2>3 DEF k
  <1> DEFINE mid == SubSeq(s, from + 1, to)
  <1>7. mid \in Seq(Byte) /\ Len(mid) = to - from /\ \A i \in 1 .. to - from : mid[i] = s[from + i]
    <2>1. to <= Len(s)
      BY <1>2, <1>5
    <2> HIDE DEF from, to
    <2>2. QED BY <1>2, <1>5, <2>1, Part
  <1> HIDE DEF mid
  <1>8. \A i \in 1 .. Len(mid) : mid[i] = b[i]
    BY <1>2, <1>6, <1>7
  <1>9. mid = b
    BY <1>2, <1>7, <1>8, SeqEqual
  <1>10. QED BY <1>2, <1>5, <1>6, <1>9 DEF mid, s, Between

(* A string lies behind its count. *)
Behind(s, a, count, b, c) ==
  /\ s \in Seq(Byte) /\ Len(s) = Len(a) + 2 + Len(b) + Len(c)
  /\ s[Len(a) + 1] = count[1] /\ s[Len(a) + 2] = count[2]
  /\ SubSeq(s, Len(a) + 2 + 1, Len(a) + 2 + Len(b)) = b

LEMMA StringAt ==
  ASSUME NEW a \in Seq(Byte), NEW count \in Seq(Byte), NEW b \in Seq(Byte), NEW c \in Seq(Byte),
         Len(count) = 2
  PROVE  Behind((a \o (count \o b)) \o c, a, count, b, c)
  <1> DEFINE s == (a \o (count \o b)) \o c
             front == a \o count
             rest == b \o c
  <1>1. front \in Seq(Byte) /\ Len(front) = Len(a) + Len(count)
    BY Joined, Zenon
  <1>2. rest \in Seq(Byte)
    BY Joined, Zenon
  <1>3. s = (front \o b) \o c
    <2>1. (a \o count) \o b = a \o (count \o b)
      BY Regroup, Zenon
    <2>2. QED BY <2>1, Zenon
  <1>4. s = (a \o count) \o rest
    <2> HIDE DEF front
    <2>1. (front \o b) \o c = front \o (b \o c)
      BY <1>1, Regroup, Zenon
    <2>2. s = front \o rest
      BY <1>3, <2>1, Zenon
    <2>3. QED BY <2>2 DEF front
  <1> HIDE DEF front, rest, s
  <1>5. /\ s \in Seq(Byte) /\ Len(s) = Len(front) + Len(b) + Len(c)
        /\ SubSeq(s, Len(front) + 1, Len(front) + Len(b)) = b
    <2>1. Between((front \o b) \o c, front, b, c)
      BY <1>1, Middle, Zenon
    <2>2. Between(s, front, b, c)
      BY <1>3, <2>1, Zenon
    <2>3. QED BY <2>2 DEF Between
  <1>6. \A i \in 1 .. Len(count) : s[Len(a) + i] = count[i]
    <2>1. Between((a \o count) \o rest, a, count, rest)
      BY <1>2, Middle, Zenon
    <2>2. Between(s, a, count, rest)
      BY <1>4, <2>1, Zenon
    <2>3. QED BY <2>2 DEF Between
  <1>7. 1 \in 1 .. Len(count) /\ 2 \in 1 .. Len(count)
    OBVIOUS
  <1>8. s[Len(a) + 1] = count[1] /\ s[Len(a) + 2] = count[2]
    BY <1>6, <1>7, Zenon
  <1>9. Len(front) = Len(a) + 2
    BY <1>1
  <1>10. QED BY <1>5, <1>8, <1>9 DEF Behind, s

(* A value is read back from where it was written. *)
BackFrom(q, r, a, v) ==
  /\ q.ok = r.ok /\ q.pos = Len(a) + Len(Encode(v)) /\ q.cnt = r.cnt + 1
  /\ q.args = Append(r.args, v)

LEMMA ReadBack ==
  ASSUME NEW a \in Seq(Byte), NEW v \in Value, NEW c \in Seq(Byte),
         HeadSize + SizeOf(v) < MaxSend,
         NEW body, body = (a \o Encode(v)) \o c,
         NEW r \in Reader(body), r.pos = Len(a), NEW q, q = ReadParamData(r, v.type, body)
  PROVE  BackFrom(q, r, a, v)
  <1>1. /\ v \in Written /\ v.bytes \in Seq(Byte)
        /\ v.type # "STRING" => v.type \in DOMAIN Width /\ Len(v.bytes) = Width[v.type]
        /\ v.type = "STRING" => /\ v.type \notin DOMAIN Width /\ SizeOf(v) = Len(v.bytes) + 2
                                /\ Zeros(v.bytes) = {}
    BY ValueFacts, MessagesAssumption
  <1>2. Len(a) \in Nat /\ Len(v.bytes) \in Nat /\ Len(c) \in Nat
    BY <1>1
  <1>3. v = [type |-> v.type, bytes |-> v.bytes]
    BY <1>1 DEF Written
  <1>4. CASE v.type # "STRING"
    <2> DEFINE end == Len(a) + Len(v.bytes)
    <2>1. Encode(v) = v.bytes
      BY <1>4 DEF Encode
    <2>2. body = (a \o v.bytes) \o c
      BY <2>1
    <2>3. body \in Seq(Byte) /\ Len(body) = Len(a) + Len(v.bytes) + Len(c)
          /\ SubSeq(body, Len(a) + 1, end) = v.bytes
      <3>1. Between((a \o v.bytes) \o c, a, v.bytes, c)
        BY <1>1, Middle, Zenon
      <3>2. Between(body, a, v.bytes, c)
        BY <2>2, <3>1, Zenon
      <3>3. QED BY <3>2 DEF Between
    <2>4. end <= Len(body)
      BY <1>2, <2>3
    <2>5. q = ReadParamTemplate(r, v.type, body)
      BY <1>1, <1>4 DEF ReadParamData
    <2>6. r.pos + Width[v.type] = end
      BY <1>1, <1>4
    <2> DEFINE arg == [type |-> v.type, bytes |-> SubSeq(body, r.pos + 1, end)]
    <2>7. q = Pushed(r, v.type, body, r.pos, end)
      BY <2>4, <2>5, <2>6 DEF ReadParamTemplate
    <2>8. arg = v
      BY <1>3, <2>3
    <2>9. q = [r EXCEPT !.pos = end, !.cnt = r.cnt + 1, !.args = Append(r.args, arg)]
      BY <2>7 DEF Pushed
    <2> HIDE DEF arg, end
    <2>10. q.ok = r.ok /\ q.pos = end /\ q.cnt = r.cnt + 1 /\ q.args = Append(r.args, v)
      BY <2>8, <2>9 DEF Reader
    <2>11. QED BY <2>1, <2>10 DEF end, BackFrom
  <1>5. CASE v.type = "STRING"
    <2> DEFINE n == Len(v.bytes)
               count == CountBytes(n)
               from == Len(a) + 2
               end == Len(a) + 2 + n
    <2>1. n < Base * Base /\ n \in Nat
      <3>1. n + 2 + HeadSize < MaxSend
        BY <1>1, <1>2, <1>5, MessagesAssumption
      <3>2. MaxSend - HeadSize - 2 <= Base * Base /\ HeadSize \in Nat /\ MaxSend \in Nat
        BY MessagesAssumption
      <3>3. Base * Base \in Nat
        BY ParamsAssumption
      <3> HIDE DEF n
      <3>4. n \in Nat
        BY <1>2 DEF n
      <3>5. QED BY <3>1, <3>2, <3>3, <3>4
    <2>2. count \in Seq(Byte) /\ Len(count) = 2 /\ count[1] = n % Base /\ count[2] = (n \div Base) % Base
      <3> HIDE DEF n
      <3>1. QED BY <2>1, CountIsTwo, Zenon
    <2>3. (n % Base) + Base * ((n \div Base) % Base) = n
      BY <2>1, CountWritten
    <2>4. Encode(v) = count \o v.bytes
      BY <1>5 DEF Encode
    <2>5. v.bytes \in Seq(Byte)
      BY <1>1
    <2> DEFINE bytes == v.bytes
    <2> HIDE DEF count, bytes
    <2>6. bytes \in Seq(Byte) /\ body = (a \o (count \o bytes)) \o c
      BY <2>4, <2>5 DEF bytes
    <2>7. /\ body \in Seq(Byte) /\ Len(body) = Len(a) + 2 + Len(bytes) + Len(c)
          /\ body[Len(a) + 1] = count[1] /\ body[Len(a) + 2] = count[2]
          /\ SubSeq(body, Len(a) + 2 + 1, Len(a) + 2 + Len(bytes)) = bytes
      <3>1. Behind((a \o (count \o bytes)) \o c, a, count, bytes, c)
        BY <2>2, <2>6, StringAt, Zenon
      <3>2. Behind(body, a, count, bytes, c)
        BY <2>6, <3>1, Zenon
      <3>3. QED BY <3>2 DEF Behind
    <2>8. Len(bytes) = n
      BY DEF bytes
    <2> HIDE DEF n
    <2>9. CountAt(body, Len(a)) = n
      BY <2>2, <2>3, <2>7 DEF CountAt
    <2>10. Len(count \o bytes) = 2 + n
      <3>1. Len(count \o bytes) = Len(count) + Len(bytes)
        BY <2>2, <2>6, Joined, Zenon
      <3>2. QED BY <2>2, <2>8, <3>1
    <2>11. /\ Len(body) \in Nat /\ from <= Len(body) /\ end <= Len(body)
           /\ SubSeq(body, from + 1, end) = bytes
      <3>1. Len(body) = Len(a) + 2 + n + Len(c) /\ SubSeq(body, Len(a) + 2 + 1, Len(a) + 2 + n) = bytes
        BY <2>7, <2>8
      <3>2. Len(body) \in Nat /\ from <= Len(body) /\ end <= Len(body)
        BY <1>2, <2>1, <3>1
      <3>3. QED BY <3>1, <3>2
    <2>12. ~(from > Len(body) \/ end > Len(body))
      BY <1>2, <2>1, <2>11
    <2>13. q = ReadParamString(r, body)
      BY <1>1, <1>5 DEF ReadParamData
    <2>14. q = PushedString(r, body, from, end)
      <3>1. r.pos + 2 = from /\ r.pos + 2 + CountAt(body, r.pos) = end
        BY <2>9
      <3> HIDE DEF from, end
      <3>3. q = IF from > Len(body) \/ end > Len(body) THEN Failed(r)
                ELSE PushedString(r, body, from, end)
        BY <2>13, <3>1 DEF ReadParamString
      <3>4. QED BY <2>12, <3>3
    <2> HIDE DEF from, end
    <2> DEFINE arg == [type |-> "STRING", bytes |-> UpToZero(SubSeq(body, from + 1, end))]
               whole == r.whole /\ Zeros(SubSeq(body, from + 1, end)) = {}
    <2>15. arg = v
      <3>1. UpToZero(v.bytes) = v.bytes
        BY <1>1, <1>5, UpToZeroFacts
      <3>2. SubSeq(body, from + 1, end) = v.bytes
        BY <2>11 DEF bytes
      <3>3. QED BY <1>3, <1>5, <3>1, <3>2
    <2>16. q = [r EXCEPT !.pos = end, !.cnt = r.cnt + 1, !.whole = whole, !.args = Append(r.args, arg)]
      BY <2>14 DEF PushedString
    <2> HIDE DEF arg, whole
    <2>17. q.ok = r.ok /\ q.pos = end /\ q.cnt = r.cnt + 1 /\ q.args = Append(r.args, v)
      BY <2>15, <2>16 DEF Reader
    <2>18. Len(Encode(v)) = 2 + n
      BY <2>4, <2>10 DEF bytes
    <2>19. end = Len(a) + (2 + n)
      BY <1>2, <2>1 DEF end
    <2>20. QED BY <2>17, <2>18, <2>19 DEF BackFrom
  <1>6. QED BY <1>4, <1>5

(* The bytes of more and more values, and the reader that follows them. *)
Writes(u, values) ==
  /\ u \in [0 .. Len(values) -> Seq(Byte)] /\ u[0] = << >>
  /\ \A i \in 1 .. Len(values) : u[i] = u[i - 1] \o Encode(values[i])

LEMMA Writing ==
  ASSUME NEW values \in Seq(Written)
  PROVE  \E u : Writes(u, values) /\ EncodeAll(values) = u[Len(values)]
  <1> DEFINE all == DOMAIN values
  <1>1. all = 1 .. Len(values)
    OBVIOUS
  <1> HIDE DEF all
  <1>2. PICK u \in [0 .. Len(values) -> Seq(Byte)] :
          /\ u[0] = << >>
          /\ \A i \in 1 .. Len(values) :
               u[i] = u[i - 1] \o (IF i \in all THEN Encode(values[i]) ELSE << >>)
          /\ EncodeSome(values, all) = u[Len(values)]
    BY EncodeSteps
  <1>3. \A i \in 1 .. Len(values) : u[i] = u[i - 1] \o Encode(values[i])
    BY <1>1, <1>2
  <1>4. EncodeAll(values) = u[Len(values)]
    BY <1>2 DEF EncodeAll, all
  <1>5. QED BY <1>2, <1>3, <1>4 DEF Writes

LEMMA WritingFront ==
  ASSUME NEW values \in Seq(Written), NEW u, Writes(u, values)
  PROVE  \A i \in 0 .. Len(values) : \E rest \in Seq(Byte) : u[Len(values)] = u[i] \o rest
  <1> DEFINE n == Len(values)
             Fronts(i) == \E rest \in Seq(Byte) : u[n] = u[i] \o rest
             S == {j \in 0 .. n : Fronts(n - j)}
  <1>1. n \in Nat
    OBVIOUS
  <1> HIDE DEF n
  <1>2. /\ \A i \in 0 .. n : u[i] \in Seq(Byte)
        /\ \A i \in 1 .. n : u[i] = u[i - 1] \o Encode(values[i]) /\ Encode(values[i]) \in Seq(Byte)
    <2>1. \A i \in 1 .. n : values[i] \in Written
      BY DEF n
    <2>2. QED BY <2>1, EncodeIsBytes DEF Writes, n
  <1>3. 0 \in S
    <2>1. n - 0 = n /\ n \in 0 .. n
      BY <1>1
    <2>2. << >> \in Seq(Byte) /\ u[n] = u[n] \o << >>
      BY <1>2, <2>1, ConcatEmptySeq
    <2>3. Fronts(n)
      BY <2>2
    <2> HIDE DEF Fronts
    <2>4. QED BY <1>1, <2>1, <2>3
  <1>4. ASSUME NEW j \in 1 .. n, j - 1 \in S PROVE j \in S
    <2> DEFINE i == n - (j - 1)
               a == u[i - 1]
               b == Encode(values[i])
    <2>1. i \in 1 .. n /\ i - 1 \in 0 .. n /\ i - 1 = n - j /\ j \in 0 .. n
      BY <1>1
    <2>2. Fronts(i)
      BY <1>4
    <2> HIDE DEF i
    <2>3. PICK rest \in Seq(Byte) : u[n] = u[i] \o rest
      BY <2>2
    <2>4. a \in Seq(Byte) /\ b \in Seq(Byte) /\ u[i] = a \o b
      BY <1>2, <2>1
    <2> HIDE DEF a, b
    <2>5. (a \o b) \o rest = a \o (b \o rest) /\ b \o rest \in Seq(Byte)
      <3>1. rest \in Seq(Byte)
        OBVIOUS
      <3>2. (a \o b) \o rest = a \o (b \o rest)
        BY <2>4, <3>1, Regroup, Zenon
      <3>3. b \o rest \in Seq(Byte)
        BY <2>4, <3>1, Joined, Zenon
      <3>4. QED BY <3>2, <3>3
    <2>6. u[n] = a \o (b \o rest)
      BY <2>3, <2>4, <2>5
    <2>7. Fronts(i - 1)
      BY <2>5, <2>6 DEF a
    <2> HIDE DEF Fronts
    <2>8. QED BY <2>1, <2>7
  <1> HIDE DEF S
  <1>5. \A j \in 0 .. n : j \in S
    BY <1>1, <1>3, <1>4, UpTo
  <1>6. \A i \in 0 .. n : Fronts(i)
    <2> SUFFICES ASSUME NEW i \in 0 .. n PROVE Fronts(i)
      OBVIOUS
    <2>1. n - i \in 0 .. n /\ n - (n - i) = i
      BY <1>1
    <2> HIDE DEF Fronts
    <2>2. n - i \in S
      BY <1>5, <2>1
    <2>3. Fronts(n - (n - i))
      BY <2>2 DEF S
    <2>4. QED BY <2>1, <2>3
  <1>7. QED BY <1>6 DEF n

(* The readers after more and more types. *)
ReadsOn(g, r, types, body) ==
  /\ g \in [0 .. Len(types) -> Reader(body)] /\ g[0] = r
  /\ \A i \in 1 .. Len(types) :
       g[i] = IF g[i - 1].ok THEN ReadParamData(g[i - 1], types[i], body) ELSE g[i - 1]
  /\ ReadAll(r, types, body) = g[Len(types)]

LEMMA ReadPath ==
  ASSUME NEW body \in Seq(Byte), NEW types \in Seq(Type), NEW r \in Reader(body)
  PROVE  \E g : ReadsOn(g, r, types, body)
  BY ReadSteps DEF ReadsOn

(* The types a receiver is configured with. *)
TypesOf(values) == [k \in DOMAIN values |-> values[k].type]

(* Values that are written are read back, by a reader that knows their types. *)
LEMMA ReadsWritten ==
  ASSUME NEW values \in Seq(Value), \A k \in DOMAIN values : HeadSize + SizeOf(values[k]) < MaxSend
  PROVE  LET r == ReadTypes(TypesOf(values), EncodeAll(values))
         IN  r.ok /\ r.args = values /\ r.cnt = 1 + Len(values)
  <1> DEFINE n == Len(values)
             body == EncodeAll(values)
             types == TypesOf(values)
             Taken(i) == SubSeq(values, 1, i)
  <1>1. values \in Seq(Written) /\ n \in Nat /\ DOMAIN values = 1 .. n
    BY ValuesAreWritten
  <1>2. body \in Seq(Byte)
    BY <1>1, EncodeSomeIsBytes DEF EncodeAll
  <1>3. types \in Seq(Type) /\ Len(types) = n
        /\ \A k \in 1 .. n : types[k] = values[k].type /\ types[k] # "REPEAT"
    <2>1. \A k \in 1 .. n : values[k].type \in Type /\ values[k].type # "REPEAT"
      <3> SUFFICES ASSUME NEW k \in 1 .. n PROVE values[k].type \in Type /\ values[k].type # "REPEAT"
        OBVIOUS
      <3>1. values[k] \in Written
        BY <1>1
      <3>2. values[k].type \in DOMAIN Width \cup {"STRING"}
        BY <3>1 DEF Written
      <3>3. QED BY <3>2, ParamsAssumption DEF Type
    <2>2. types = [k \in 1 .. n |-> values[k].type]
      BY <1>1 DEF TypesOf
    <2> HIDE DEF types, n
    <2>3. types \in [1 .. n -> Type] /\ \A k \in 1 .. n : types[k] = values[k].type
      BY <2>1, <2>2
    <2>4. types \in Seq(Type) /\ Len(types) = n
      BY <1>1, <2>3
    <2>5. QED BY <2>1, <2>3, <2>4
  <1>4. ReadTypes(types, body) = ReadAll(Start, types, body)
    <2>1. types # << >> => Head(types) # "REPEAT"
      <3> SUFFICES ASSUME types # << >> PROVE Head(types) # "REPEAT"
        OBVIOUS
      <3> HIDE DEF types, n
      <3>1. 1 \in 1 .. n /\ Head(types) = types[1]
        BY <1>1, <1>3
      <3>2. QED BY <1>3, <3>1
    <2>2. QED BY <2>1 DEF ReadTypes
  <1>5. PICK u : Writes(u, values) /\ body = u[n]
    BY <1>1, Writing
  <1>6. \A i \in 0 .. n : u[i] \in Seq(Byte) /\ \E rest \in Seq(Byte) : body = u[i] \o rest
    BY <1>1, <1>5, WritingFront DEF Writes
  <1> HIDE DEF n, body, types
  <1>7. PICK g \in [0 .. n -> Reader(body)] :
          /\ g[0] = Start
          /\ \A i \in 1 .. n :
               g[i] = IF g[i - 1].ok THEN ReadParamData(g[i - 1], types[i], body) ELSE g[i - 1]
          /\ ReadAll(Start, types, body) = g[n]
    <2>1. Start \in Reader(body) /\ types \in Seq(Type)
      BY <1>2, <1>3, StartIsReader
    <2>2. PICK g : ReadsOn(g, Start, types, body)
      BY <1>2, <2>1, ReadPath, Zenon
    <2>3. QED BY <1>3, <2>2 DEF ReadsOn
  <1> DEFINE Good(r, i) == r.ok /\ r.pos = Len(u[i]) /\ r.cnt = 1 + i /\ r.args = Taken(i)
             S == {i \in 0 .. n : Good(g[i], i)}
  <1>8. 0 \in S
    <2>1. Taken(0) = << >>
      BY <1>1
    <2>2. u[0] = << >> /\ Len(<< >>) = 0
      BY <1>5 DEF Writes
    <2>3. 0 \in 0 .. n /\ 1 + 0 = 1
      BY <1>1
    <2>4. Good(g[0], 0)
      BY <1>2, <1>7, <2>1, <2>2, <2>3, StartIsReader
    <2> HIDE DEF Good
    <2>5. QED BY <2>3, <2>4
  <1>9. ASSUME NEW i \in 1 .. n, i - 1 \in S PROVE i \in S
    <2> DEFINE v == values[i]
               a == u[i - 1]
               r == g[i - 1]
               q == g[i]
    <2>1. i - 1 \in 0 .. n /\ i \in 0 .. n /\ v \in Value /\ Good(r, i - 1)
      <3> HIDE DEF Good
      <3>1. i - 1 \in 0 .. n /\ i \in 0 .. n
        BY <1>1
      <3>2. v \in Value
        BY DEF n
      <3>3. QED BY <1>9, <3>1, <3>2
    <2>2. r \in Reader(body) /\ a \in Seq(Byte) /\ types[i] = v.type /\ HeadSize + SizeOf(v) < MaxSend
      BY <1>1, <1>3, <1>6, <2>1
    <2>3. PICK rest \in Seq(Byte) : body = u[i] \o rest
      BY <1>6, <2>1
    <2>4. u[i] = a \o Encode(v)
      BY <1>5 DEF Writes, n
    <2>5. q = ReadParamData(r, types[i], body)
      BY <1>7, <2>1
    <2>6. q = ReadParamData(r, v.type, body) /\ body = (a \o Encode(v)) \o rest
      BY <2>2, <2>3, <2>4, <2>5
    <2> HIDE DEF v, a, r, q
    <2>7. /\ q.ok = r.ok /\ q.pos = Len(a) + Len(Encode(v)) /\ q.cnt = r.cnt + 1
          /\ q.args = Append(r.args, v)
      <3>1. r.pos = Len(a)
        BY <2>1 DEF a
      <3>2. rest \in Seq(Byte)
        OBVIOUS
      <3>3. BackFrom(q, r, a, v)
        BY <2>1, <2>2, <2>6, <3>1, <3>2, ReadBack, Zenon
      <3>4. QED BY <3>3 DEF BackFrom
    <2>8. Len(u[i]) = Len(a) + Len(Encode(v))
      <3>1. Encode(v) \in Seq(Byte)
        BY <2>1, ValueFacts, EncodeIsBytes
      <3>2. Len(a \o Encode(v)) = Len(a) + Len(Encode(v))
        BY <2>2, <3>1, Joined, Zenon
      <3>3. QED BY <2>4, <3>2
    <2>9. Taken(i) = Append(Taken(i - 1), v)
      <3>1. i \in 1 .. Len(values) /\ 1 \in 1 .. Len(values) /\ i \in 1 .. Len(values)
        BY <1>1 DEF n
      <3>2. SubSeq(values, 1, i) = SubSeq(values, 1, i - 1) \o << values[i] >>
        BY <3>1, SubSeqRecursiveSecond
      <3>3. SubSeq(values, 1, i - 1) \in Seq(Value)
        BY <3>1
      <3>4. Append(SubSeq(values, 1, i - 1), v) = SubSeq(values, 1, i - 1) \o << v >>
        BY <2>1, <3>3, AppendIsConcat
      <3>5. QED BY <3>2, <3>4 DEF v
    <2>10. q.cnt = 1 + i
      BY <1>1, <2>1, <2>7
    <2>11. Good(q, i)
      BY <2>1, <2>7, <2>8, <2>9, <2>10
    <2> HIDE DEF Good
    <2>12. QED BY <2>1, <2>11 DEF q
  <1> HIDE DEF S
  <1>10. \A i \in 0 .. n : i \in S
    BY <1>1, <1>8, <1>9, UpTo
  <1>11. Good(g[n], n)
    <2>1. n \in S
      BY <1>1, <1>10
    <2> HIDE DEF Good
    <2>2. QED BY <2>1 DEF S
  <1>12. Taken(n) = values
    BY <1>1, SubSeqFull DEF n
  <1>13. QED BY <1>4, <1>7, <1>11, <1>12 DEF n, body, types

-------------------------------------------------------------------------------
(* The messages that are handed to the script, and those it sends. *)

(* What the last step handed to the script is a message, and was counted by ReadParam. *)
HandedInv ==
  /\ msgcfg = ReadMsgConfigure(Nodes)
  /\ \A i \in DOMAIN handed :
       /\ handed[i].body \in Seq(Byte)
       /\ handed[i].cnt = ReadParam(msgcfg, handed[i].id, handed[i].body)

LEMMA HandedAsReceived == HandedInv => ArgumentsAsReceived
  <1> SUFFICES ASSUME HandedInv, NEW i \in DOMAIN handed, handed[i].cnt > 0
               PROVE  LET types == msgcfg[handed[i].id].types
                          body == handed[i].body
                      IN  /\ ReadTypes(types, body).whole
                               => SubSeq(body, 1, Len(Again(types, body))) = Again(types, body)
                          /\ \/ CallsFunction(handed[i].id, body)
                             \/ types[Len(types)] = "ERROR"
                             \/ \E k \in 2 .. Len(types) : types[k] = "REPEAT"
    BY DEF ArgumentsAsReceived, Again, Repeats
  <1> DEFINE id == handed[i].id
             body == handed[i].body
             types == msgcfg[id].types
  <1>1. body \in Seq(Byte) /\ handed[i].cnt = ReadParam(msgcfg, id, body)
    BY DEF HandedInv
  <1> HIDE DEF body, id
  <1>2. id \in DOMAIN msgcfg /\ ReadTypes(types, body).ok
        /\ ReadParam(msgcfg, id, body) = ReadTypes(types, body).cnt
    <2> DEFINE r == ReadTypes(types, body)
               all == ReadParam(msgcfg, id, body)
    <2>1. all > 0
      BY <1>1
    <2>2. all = IF id \notin DOMAIN msgcfg \/ msgcfg[id].function = "" THEN 0
                ELSE IF msgcfg[id].function # "defined" THEN -1
                ELSE IF r.ok THEN r.cnt ELSE 0
      BY DEF ReadParam
    <2> HIDE DEF r, all, types
    <2>3. ASSUME id \notin DOMAIN msgcfg \/ msgcfg[id].function = "" PROVE FALSE
      <3>1. all = 0
        BY <2>2, <2>3
      <3>2. QED BY <2>1, <3>1
    <2>4. ASSUME ~(id \notin DOMAIN msgcfg \/ msgcfg[id].function = ""), msgcfg[id].function # "defined"
          PROVE  FALSE
      <3>1. all = -1
        BY <2>2, <2>4
      <3>2. QED BY <2>1, <3>1
    <2>5. all = IF r.ok THEN r.cnt ELSE 0
      BY <2>2, <2>3, <2>4
    <2>6. CASE ~r.ok
      <3>1. all = 0
        BY <2>5, <2>6
      <3>2. QED BY <2>1, <3>1
    <2>7. CASE r.ok
      <3>1. all = r.cnt
        BY <2>5, <2>7
      <3>2. QED BY <2>3, <2>7, <3>1 DEF r, all
    <2>8. QED BY <2>6, <2>7
  <1>3. types \in Seq(Type) /\ \A k \in 1 .. Len(types) - 1 : types[k] # "ERROR"
    BY <1>2, ConfiguredTypes DEF HandedInv
  <1> HIDE DEF types
  <1>4. /\ ReadTypes(types, body).whole
             => SubSeq(body, 1, Len(Again(types, body))) = Again(types, body)
        /\ (\A k \in 1 .. Len(types) : types[k] \in NoType => k = 1 /\ types[k] = "REPEAT")
             => ReadTypes(types, body).cnt = PushedBy(types, body)
    BY <1>1, <1>2, <1>3, ReadTypesFacts
  <1>5. ASSUME types[Len(types)] # "ERROR", \A k \in 2 .. Len(types) : types[k] # "REPEAT"
        PROVE  CallsFunction(id, body)
    <2>1. \A k \in 1 .. Len(types) : types[k] \in NoType => k = 1 /\ types[k] = "REPEAT"
      <3> SUFFICES ASSUME NEW k \in 1 .. Len(types), types[k] \in NoType
                   PROVE  k = 1 /\ types[k] = "REPEAT"
        OBVIOUS
      <3>1. Len(types) \in Nat
        BY <1>3
      <3>2. types[k] # "ERROR"
        <4>1. k = Len(types) \/ k \in 1 .. Len(types) - 1
          BY <3>1
        <4>2. QED BY <1>3, <1>5, <4>1
      <3>3. types[k] = "REPEAT"
        BY <3>2 DEF NoType
      <3>4. k = 1 \/ k \in 2 .. Len(types)
        BY <3>1
      <3>5. QED BY <1>5, <3>3, <3>4
    <2>2. ReadTypes(types, body).cnt = PushedBy(types, body)
      BY <1>4, <2>1
    <2>3. ReadParam(msgcfg, id, body) > 0 /\ ReadParam(msgcfg, id, body) = PushedBy(types, body)
      BY <1>1, <1>2, <2>2
    <2>4. QED BY <2>3 DEF CallsFunction, types
  <1>6. QED BY <1>4, <1>5 DEF id, body, types

LEMMA SentIsRead == MessagesInv => ReadAsAdded
  <1> SUFFICES ASSUME MessagesInv, NEW i \in DOMAIN sent, ~sent[i].meant.tainted, Fits(sent[i].meant)
               PROVE  LET values == sent[i].meant.values
                          r == ReadTypes(TypesOf(values), sent[i].body)
                      IN  r.ok /\ r.args = values /\ r.cnt = 1 + Len(values)
    BY DEF ReadAsAdded, TypesOf
  <1> DEFINE m == sent[i].meant
             values == m.values
  <1>1. sent[i].body = m.bytes
    BY DEF MessagesInv, SentAsAdded
  <1>2. Adds(m) /\ m \in Message /\ values \in Seq(Value)
    BY DEF MessagesInv, AddsAll, Message
  <1>3. m.size < MaxSend
    BY DEF Fits
  <1> HIDE DEF m
  <1>4. sent[i].body = EncodeAll(values)
    BY <1>1, <1>2 DEF Adds
  <1>5. \A k \in DOMAIN values : HeadSize + SizeOf(values[k]) < MaxSend
    <2> SUFFICES ASSUME NEW k \in DOMAIN values PROVE HeadSize + SizeOf(values[k]) < MaxSend
      OBVIOUS
    <2>1. HeadSize + SizeOf(values[k]) <= m.size
      BY <1>2 DEF Adds
    <2>2. values[k] \in Value
      BY <1>2
    <2>3. SizeOf(values[k]) \in Nat /\ HeadSize \in Nat /\ MaxSend \in Nat
      BY <2>2, ValueFacts, MessagesAssumption
    <2>4. m.size \in Nat
      BY <1>2 DEF Message
    <2>5. QED BY <1>3, <2>1, <2>3, <2>4
  <1> HIDE DEF values
  <1>6. QED BY <1>2, <1>4, <1>5, ReadsWritten DEF values, m

-------------------------------------------------------------------------------
(* The theorems. *)

LEMMA MessagesInductive == MessagesSpec => []MessagesInv
  <1>1. MessagesInit => MessagesInv
    <2> SUFFICES ASSUME MessagesInit PROVE MessagesInv
      OBVIOUS
    <2>1. MessagesTypeOK
      BY DEF MessagesInit, MessagesTypeOK
    <2>2. InRuns /\ TaintBelow /\ AddsAll /\ OnTop /\ SentAsAdded
      BY DEF MessagesInit, InRuns, TaintBelow, AddsAll, OnTop, SentAsAdded
    <2>3. QED BY <2>1, <2>2 DEF MessagesInv, MessagesInit
  <1>2. MessagesInv /\ [MessagesNext]_messageVars => MessagesInv'
    <2> SUFFICES ASSUME MessagesInv, [MessagesNext]_messageVars PROVE MessagesInv'
      OBVIOUS
    <2>1. CASE OtherRunBegins
      BY <2>1, OtherRunBeginsKeeps
    <2>2. CASE NestedRunBegins
      BY <2>2, NestedRunBeginsKeeps
    <2>3. CASE \E msg \in Incoming : HandleLuaFun(msg)
      BY <2>3, HandleLuaFunKeeps
    <2>4. CASE \E player \in Player : ScriptBegins(player)
      BY <2>4, ScriptBeginsKeeps
    <2>5. CASE \E v \in Value : ScriptAdds(v)
      BY <2>5, ScriptAddsKeeps
    <2>6. CASE ScriptEnds
      BY <2>6, ScriptEndsKeeps
    <2>7. CASE ScriptReturns
      BY <2>7, ScriptReturnsKeeps
    <2>8. CASE ScriptFails
      BY <2>8, ScriptFailsKeeps
    <2>9. CASE UNCHANGED messageVars
      <3>1. UNCHANGED << msgcfg, packages, runs, open, left, sent >>
        BY <2>9 DEF messageVars
      <3>2. QED BY <3>1 DEF MessagesInv, MessagesTypeOK, InRuns, Depth, TaintBelow, AddsAll, OnTop,
                            SentAsAdded
    <2>10. QED BY <2>1, <2>2, <2>3, <2>4, <2>5, <2>6, <2>7, <2>8, <2>9 DEF MessagesNext
  <1>3. QED BY <1>1, <1>2, PTL DEF MessagesSpec

LEMMA HandedInductive == MessagesSpec => []HandedInv
  <1>1. MessagesInit => HandedInv
    BY DEF MessagesInit, HandedInv
  <1>2. HandedInv /\ [MessagesNext]_messageVars => HandedInv'
    <2> SUFFICES ASSUME HandedInv, [MessagesNext]_messageVars PROVE HandedInv'
      OBVIOUS
    <2>1. CASE UNCHANGED msgcfg /\ handed' = << >>
      BY <2>1 DEF HandedInv
    <2>2. ASSUME NEW msg \in Incoming, HandleLuaFun(msg) PROVE HandedInv'
      <3>1. /\ UNCHANGED msgcfg
            /\ handed' = << [id |-> msg.id, body |-> msg.body,
                             cnt |-> ReadParam(msgcfg, msg.id, msg.body)] >>
        BY <2>2 DEF HandleLuaFun
      <3>2. msg.body \in Seq(Byte)
        BY MessagesAssumption DEF Byte
      <3> DEFINE cnt == ReadParam(msgcfg, msg.id, msg.body)
      <3> HIDE DEF cnt
      <3>3. handed' = << [id |-> msg.id, body |-> msg.body, cnt |-> cnt] >>
        BY <3>1 DEF cnt
      <3>4. \A i \in DOMAIN handed' : handed'[i].body = msg.body /\ handed'[i].id = msg.id
                                      /\ handed'[i].cnt = cnt
        BY <3>3
      <3>5. QED BY <3>1, <3>2, <3>4 DEF HandedInv, cnt
    <2>3. CASE UNCHANGED messageVars
      BY <2>3 DEF HandedInv, messageVars
    <2>4. CASE OtherRunBegins \/ NestedRunBegins \/ (\E player \in Player : ScriptBegins(player))
               \/ (\E v \in Value : ScriptAdds(v)) \/ ScriptReturns \/ ScriptFails
      <3>1. Quiet
        BY <2>4 DEF OtherRunBegins, NestedRunBegins, ScriptBegins, ScriptAdds, ScriptReturns, ScriptFails
      <3>2. QED BY <2>1, <3>1 DEF Quiet
    <2>5. CASE ScriptEnds
      BY <2>1, <2>5 DEF ScriptEnds
    <2>6. QED BY <2>2, <2>3, <2>4, <2>5 DEF MessagesNext
  <1>3. QED BY <1>1, <1>2, PTL DEF MessagesSpec

(* The packages, the runs of the script and the messages they fill keep     *)
(* their types: a size stays an unsigned short, whatever is added.          *)
THEOREM MessagesTypeCorrect == MessagesSpec => []MessagesTypeOK
  <1>1. MessagesInv => MessagesTypeOK
    BY DEF MessagesInv
  <1>2. QED BY <1>1, MessagesInductive, PTL

(* messageEnd sends what the run that fills the message added to it, to the *)
(* player it named modulo Wrap (GetPlayerID cuts the id to an unsigned      *)
(* short), however other runs are nested in it, send and fail, as long as   *)
(* nothing was left on the stack above its package and no size wrapped      *)
(* round: the package on top of package_stack is the right one.             *)
THEOREM SendsWhatWasAdded == MessagesSpec => []SentAsAdded
  <1>1. MessagesInv => SentAsAdded
    BY DEF MessagesInv
  <1>2. QED BY <1>1, MessagesInductive, PTL

(* A receiver configured with the types of the values of a message that    *)
(* fits reads exactly those values, of any number, type and content that   *)
(* the script can add, through the bytes that messageEnd sends: the writers *)
(* of msgpackager.cpp and the readers of analytical_param.cpp agree.        *)
THEOREM ReadsWhatWasAdded == MessagesSpec => []ReadAsAdded
  <1>1. QED BY SentIsRead, MessagesInductive, PTL

(* What the script's function is called with, written again, is the front   *)
(* of the message that arrived, whatever its bytes are and whichever types  *)
(* the configuration names, and ReadParam counts what it pushed, unless a   *)
(* type that is none is the last or REPEAT is behind the first place.       *)
THEOREM ArgumentsAreTheMessages == MessagesSpec => []ArgumentsAsReceived
  <1>1. QED BY HandedAsReceived, HandedInductive, PTL
===============================================================================
