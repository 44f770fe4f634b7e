--------------------------- MODULE QueryPlanProofs --------------------------
(***************************************************************************)
(* Proofs about SchemaStream and QueryPlan: a schema of any size is read   *)
(* as it was written, and the plan opens and closes its scans and follows  *)
(* its hash table's iterator as it should, whatever the tables hold.       *)
(***************************************************************************)
EXTENDS QueryPlan, FiniteSetTheorems, SequenceTheorems, WellFoundedInduction, TLAPS

---------------------------------------------------------------------------
(* Natural numbers *)

LEMMA LeastNumber ==
  ASSUME NEW T, T \subseteq Nat, T # {}
  PROVE  \E x \in T : \A y \in T : x <= y
<1> DEFINE R == OpToRel(<, Nat)
<1>1. IsWellFoundedOn(R, Nat)
  BY NatLessThanWellFounded
<1>2. \A x, y \in Nat : <<y, x>> \in R <=> y < x
  BY DEF OpToRel
<1> HIDE DEF R
<1>3. PICK x \in T : \A y \in T : ~ (<<y, x>> \in R)
  BY <1>1, WFMin
<1>4. x \in Nat /\ \A y \in T : y \in Nat /\ ~(y < x)
  BY <1>2, <1>3, Zenon
<1> QED
  BY <1>4

\* Induction, for a set of numbers up to a bound.
LEMMA UpTo ==
  ASSUME NEW n \in Nat, NEW T, 0 \in T, \A i \in 0 .. n - 1 : i \in T => i + 1 \in T
  PROVE  0 .. n \subseteq T
<1> DEFINE U == {i \in 0 .. n : i \notin T}
<1>1. SUFFICES ASSUME U # {} PROVE FALSE
  OBVIOUS
<1>2. U \subseteq Nat
  OBVIOUS
<1>3. PICK x \in U : \A y \in U : x <= y
  <2> HIDE DEF U
  <2> QED
    BY <1>1, <1>2, LeastNumber
<1>4. x \in 1 .. n /\ x \notin T
  OBVIOUS
<1>5. x - 1 \in 0 .. n - 1 /\ x - 1 \in 0 .. n /\ x - 1 + 1 = x /\ ~(x <= x - 1)
  BY <1>4
<1>6. x - 1 \in T
  BY <1>3, <1>5
<1> QED
  BY <1>4, <1>5, <1>6

\* Sequence z of elements of S is p, with m of them, and then q, with n of them.
JoinedTo(S, z, p, m, q, n) ==
  /\ z \in Seq(S) /\ m \in Nat /\ n \in Nat /\ Len(z) = m + n
  /\ \A i \in 1 .. m : z[i] = p[i]
  /\ \A i \in 1 .. n : z[m + i] = q[i]

LEMMA Joined ==
  ASSUME NEW S, NEW p \in Seq(S), NEW q \in Seq(S)
  PROVE  JoinedTo(S, p \o q, p, Len(p), q, Len(q))
BY DEF JoinedTo

---------------------------------------------------------------------------
(* FlattenSeq: where the parts are in the whole *)

\* at[i] is the end of part i in whole.
Laid(whole, parts, at) ==
  /\ at \in [0 .. Len(parts) -> Nat]
  /\ at[0] = 0 /\ at[Len(parts)] = Len(whole)
  /\ \A i \in 1 .. Len(parts) :
       /\ at[i] = at[i - 1] + Len(parts[i])
       /\ \A j \in 1 .. Len(parts[i]) : whole[at[i - 1] + j] = parts[i][j]

\* The function by which FlattenSeq is defined.
Flattening(parts, f) ==
  f = [i \in 1 .. Len(parts) |-> IF i = 1 THEN parts[i] ELSE f[i - 1] \o parts[i]]

LEMMA FlatteningExists ==
  ASSUME NEW S, NEW parts \in Seq(Seq(S))
  PROVE  \E f : Flattening(parts, f)
<1> DEFINE n == Len(parts)
           After(f) == [i \in 1 .. n |-> IF i = 1 THEN parts[i] ELSE f[i - 1] \o parts[i]]
           Good(f, k) == f = [i \in 1 .. n |-> f[i]] /\ \A i \in 1 .. k : f[i] = After(f)[i]
           T == {k \in 0 .. n : \E f : Good(f, k)}
<1>1. n \in Nat
  OBVIOUS
<1>2. 0 \in T
  <2>1. PICK f : f = [i \in 1 .. n |-> 0]
    OBVIOUS
  <2>2. Good(f, 0)
    BY <2>1
  <2>3. 0 \in 0 .. n
    BY <1>1
  <2> HIDE DEF Good, n
  <2> QED
    BY <2>2, <2>3
<1>3. ASSUME NEW k \in 0 .. n - 1, k \in T PROVE k + 1 \in T
  <2>1. PICK f : Good(f, k)
    BY <1>3
  <2>2. PICK g : g = After(f)
    OBVIOUS
  <2>3. g = [i \in 1 .. n |-> g[i]]
    BY <2>2
  <2>4. ASSUME NEW i \in 1 .. k + 1 PROVE g[i] = After(g)[i]
    <3>1. i \in 1 .. n
      BY <1>1, <1>3
    <3>2. CASE i = 1
      BY <2>2, <3>1, <3>2
    <3>3. CASE i # 1
      <4>1. i - 1 \in 1 .. k /\ i - 1 \in 1 .. n
        BY <1>1, <1>3, <3>3
      <4>2. g[i - 1] = f[i - 1]
        BY <2>1, <2>2, <4>1
      <4> QED
        BY <2>2, <3>1, <3>3, <4>2
    <3> QED
      BY <3>2, <3>3
  <2>5. k + 1 \in 0 .. n
    BY <1>1, <1>3
  <2> QED
    BY <2>3, <2>4, <2>5
<1>4. n \in T
  <2> HIDE DEF T, n
  <2>1. 0 .. n \subseteq T
    BY <1>1, <1>2, <1>3, UpTo
  <2> QED
    BY <1>1, <2>1
<1>5. PICK f : Good(f, n)
  BY <1>4
<1>6. f = After(f)
  BY <1>5
<1> QED
  BY <1>6 DEF Flattening

LEMMA FlattenIsLaid ==
  ASSUME NEW S, NEW parts \in Seq(Seq(S))
  PROVE  /\ FlattenSeq(parts) \in Seq(S)
         /\ \E at : Laid(FlattenSeq(parts), parts, at)
<1>1. PICK n \in Nat : n = Len(parts)
  OBVIOUS
<1>2. \A i \in 1 .. n : parts[i] \in Seq(S)
  BY <1>1
<1>3. CASE n = 0
  <2>0. parts = <<>> /\ Len(parts) = 0
    BY <1>1, <1>3, EmptySeq
  <2>1. FlattenSeq(parts) = <<>> /\ <<>> \in Seq(S)
    BY <2>0 DEF FlattenSeq
  <2>2. PICK at : at = [i \in 0 .. n |-> 0]
    OBVIOUS
  <2>3. Laid(<<>>, parts, at)
    BY <1>1, <1>3, <2>2 DEF Laid
  <2> QED
    BY <2>1, <2>3
<1>4. CASE n # 0
  <2> DEFINE F == CHOOSE f : f = [i \in 1 .. Len(parts) |->
                                    IF i = 1 THEN parts[i] ELSE f[i - 1] \o parts[i]]
  <2>1. FlattenSeq(parts) = F[Len(parts)]
    BY <1>1, <1>4 DEF FlattenSeq
  <2>2. F = [i \in 1 .. Len(parts) |-> IF i = 1 THEN parts[i] ELSE F[i - 1] \o parts[i]]
    BY FlatteningExists DEF Flattening
  <2>3. PICK f : /\ f = [i \in 1 .. n |-> IF i = 1 THEN parts[i] ELSE f[i - 1] \o parts[i]]
                 /\ FlattenSeq(parts) = f[n]
    BY <1>1, <2>1, <2>2
  <2> HIDE DEF F
  <2>4. /\ f[1] = parts[1]
        /\ \A i \in 1 .. n - 1 : f[i + 1] = f[i] \o parts[i + 1]
    <3>1. 1 \in 1 .. n
      BY <1>4
    <3>2. \A i \in 1 .. n - 1 : i + 1 \in 1 .. n /\ i + 1 # 1 /\ (i + 1) - 1 = i
      OBVIOUS
    <3> QED
      BY <2>3, <3>1, <3>2
  <2> DEFINE at == [i \in 0 .. n |-> IF i = 0 THEN 0 ELSE Len(f[i])]
             Begun(k) == /\ k # 0 => f[k] \in Seq(S)
                         /\ at[k] \in Nat
                         /\ \A i \in 1 .. k :
                              /\ at[i] = at[i - 1] + Len(parts[i])
                              /\ at[i] <= at[k] /\ at[i - 1] \in Nat
                              /\ \A j \in 1 .. Len(parts[i]) : f[k][at[i - 1] + j] = parts[i][j]
             T == {k \in 0 .. n : Begun(k)}
  <2>5. 0 \in T
    OBVIOUS
  <2>6. ASSUME NEW k \in 0 .. n - 1, k \in T PROVE k + 1 \in T
    <3>1. Begun(k) /\ k + 1 \in 1 .. n /\ k \in 0 .. n /\ k + 1 \in 0 .. n
      <4> HIDE DEF Begun
      <4> QED
        BY <2>6
    <3>2. parts[k + 1] \in Seq(S) /\ Len(parts[k + 1]) \in Nat
      BY <1>2, <3>1
    <3>3. PICK p, l : p = parts[k + 1] /\ l = Len(p)
      OBVIOUS
    <3>4. CASE k = 0
      <4>1. f[k + 1] = p
        BY <2>4, <3>3, <3>4
      <4>2. at[k + 1] = l /\ at[k] = 0
        BY <3>1, <3>3, <3>4, <4>1
      <4> HIDE DEF at
      <4>3. Begun(k + 1)
        BY <3>2, <3>3, <3>4, <4>1, <4>2
      <4> QED
        BY <3>1, <4>3
    <3>5. CASE k # 0
      <4>1. f[k + 1] = f[k] \o p /\ f[k] \in Seq(S)
        <5>1. k \in 1 .. n - 1
          BY <3>1, <3>5
        <5>2. f[k] \in Seq(S)
          BY <3>1, <3>5
        <5> HIDE DEF at
        <5> QED
          BY <2>4, <3>3, <5>1, <5>2
      <4>2. PICK old, new : old = f[k] /\ new = f[k + 1]
        OBVIOUS
      <4>3. at[k] = Len(old) /\ at[k + 1] = Len(new) /\ Len(old) \in Nat
        <5>1. k + 1 # 0 /\ k \in 0 .. n /\ k + 1 \in 0 .. n
          BY <3>1
        <5>2. at[k] = Len(old) /\ at[k + 1] = Len(new)
          BY <3>5, <4>2, <5>1
        <5> QED
          BY <4>1, <4>2, <5>2
      <4>4a. new = old \o p /\ old \in Seq(S) /\ p \in Seq(S) /\ l = Len(p)
        BY <3>2, <3>3, <4>1, <4>2
      <4>4. new \in Seq(S) /\ Len(new) = Len(old) + l /\ l \in Nat /\ Len(old) \in Nat
        BY <4>4a, ConcatProperties
      <4>5. \A j \in 1 .. Len(old) : new[j] = old[j]
        BY <4>4, <4>4a
      <4>6. \A j \in 1 .. l : new[Len(old) + j] = p[j]
        BY <4>4, <4>4a
      <4>7. /\ \A i \in 1 .. k :
                 /\ at[i] = at[i - 1] + Len(parts[i]) /\ at[i] <= at[k] /\ at[i - 1] \in Nat
                 /\ \A j \in 1 .. Len(parts[i]) : old[at[i - 1] + j] = parts[i][j]
        BY <3>1, <4>2
      <4> HIDE DEF at
      <4>8. ASSUME NEW i \in 1 .. k + 1
            PROVE  /\ at[i] = at[i - 1] + Len(parts[i])
                   /\ at[i] <= at[k + 1] /\ at[i - 1] \in Nat
                   /\ \A j \in 1 .. Len(parts[i]) : new[at[i - 1] + j] = parts[i][j]
        <5>1. CASE i = k + 1
          <6>1. i - 1 = k /\ parts[i] = p
            BY <3>3, <5>1
          <6>2. at[i] = at[i - 1] + Len(parts[i])
            BY <3>3, <4>3, <4>4, <5>1, <6>1
          <6>3. at[i] <= at[k + 1] /\ at[i - 1] \in Nat
            BY <4>3, <4>4, <5>1, <6>1
          <6>4. \A j \in 1 .. Len(parts[i]) : new[at[i - 1] + j] = parts[i][j]
            BY <3>3, <4>3, <4>6, <6>1
          <6> QED
            BY <6>2, <6>3, <6>4
        <5>2. CASE i # k + 1
          <6>1. i \in 1 .. k
            BY <5>2
          <6>2. /\ at[i] = at[i - 1] + Len(parts[i]) /\ at[i] <= at[k] /\ at[i - 1] \in Nat
                /\ \A j \in 1 .. Len(parts[i]) : old[at[i - 1] + j] = parts[i][j]
            BY <4>7, <6>1
          <6>3. at[i] <= at[k + 1]
            <7>1. i \in 1 .. n
              BY <6>1, <3>1
            <7>2. Len(parts[i]) \in Nat
              BY <1>2, <7>1
            <7> QED
              BY <4>3, <4>4, <6>2, <7>2
          <6>4. ASSUME NEW j \in 1 .. Len(parts[i]) PROVE new[at[i - 1] + j] = parts[i][j]
            <7>1. i \in 1 .. n
              BY <6>1, <3>1
            <7>2. Len(parts[i]) \in Nat
              BY <1>2, <7>1
            <7>3. at[i - 1] + j \in 1 .. Len(old)
              <8>1. PICK b, r, q : b = at[i - 1] /\ r = Len(parts[i]) /\ q = at[i]
                OBVIOUS
              <8>2. b \in Nat /\ r \in Nat /\ q = b + r /\ q <= Len(old) /\ j \in 1 .. r
                BY <4>3, <6>2, <7>2, <8>1
              <8>3. b + j \in 1 .. Len(old)
                BY <4>3, <8>2
              <8> QED
                BY <8>1, <8>3
            <7> QED
              BY <4>5, <6>2, <7>3
          <6> QED
            BY <6>2, <6>3, <6>4
        <5> QED
          BY <5>1, <5>2
      <4>9. Begun(k + 1)
        BY <4>2, <4>3, <4>4, <4>8
      <4> QED
        BY <3>1, <4>9
    <3> QED
      BY <3>4, <3>5
  <2>7. Begun(n)
    <3>1. 0 .. n \subseteq T
      <4> HIDE DEF T
      <4> QED
        BY <2>5, <2>6, UpTo
    <3>2. n \in T
      <4> HIDE DEF T
      <4> QED
        BY <3>1
    <3> HIDE DEF Begun
    <3> QED
      BY <3>2
  <2>8. at \in [0 .. n -> Nat]
    <3>1. ASSUME NEW i \in 0 .. n PROVE at[i] \in Nat
      <4>1. i = n \/ (i + 1 \in 1 .. n /\ (i + 1) - 1 = i)
        OBVIOUS
      <4> HIDE DEF at
      <4> QED
        BY <2>7, <4>1
    <3> QED
      BY <3>1
  <2>9. Laid(f[n], parts, at)
    <3>1. at[0] = 0 /\ at[n] = Len(f[n])
      BY <1>4
    <3> HIDE DEF at
    <3> QED
      BY <1>1, <2>7, <2>8, <3>1 DEF Laid
  <2>10. f[n] \in Seq(S)
    BY <1>4, <2>7
  <2> QED
    BY <2>3, <2>9, <2>10
<1> QED
  BY <1>3, <1>4

---------------------------------------------------------------------------
(* The stream: where the fields of a schema are *)

LEMMA AttributeFields ==
  ASSUME NEW r \in Relations
  PROVE  /\ SerializeAttributes(r) \in Seq(Nat)
         /\ Len(SerializeAttributes(r)) = 4 * Len(r.attributes)
         /\ \A i \in 1 .. Len(r.attributes), j \in 1 .. 4 :
              SerializeAttributes(r)[4 * (i - 1) + j] = SerializeAttribute(r.attributes[i])[j]
<1>1. PICK as \in Seq(Attributes) : as = r.attributes
  BY DEF Relations
<1>2. PICK n \in Nat : n = Len(as) /\ DOMAIN as = 1 .. n
  BY LenProperties
<1>3. PICK parts : parts = [i \in 1 .. n |-> SerializeAttribute(as[i])]
  OBVIOUS
<1>4. ASSUME NEW i \in 1 .. n PROVE parts[i] \in Seq(Nat) /\ Len(parts[i]) = 4
  <2>1. as[i] \in Attributes
    BY <1>2, ElementOfSeq
  <2>2. PICK b \in Attributes : b = as[i]
    BY <2>1
  <2>3. parts[i] = <<b.name, b.type, b.length, b.notNull>>
    BY <1>3, <2>2 DEF SerializeAttribute
  <2>4. b.name \in Nat /\ b.type \in Nat /\ b.length \in Nat /\ b.notNull \in Nat
    BY DEF Attributes
  <2> QED
    BY <2>3, <2>4
<1>5. parts \in Seq(Seq(Nat)) /\ Len(parts) = n
  <2> DEFINE Fields(i) == SerializeAttribute(as[i])
  <2>1. \A i \in 1 .. n : Fields(i) \in Seq(Nat)
    BY <1>3, <1>4
  <2>2. parts = [i \in 1 .. n |-> Fields(i)]
    BY <1>3
  <2> HIDE DEF Fields
  <2> QED
    BY <2>1, <2>2
<1>6. PICK at : Laid(FlattenSeq(parts), parts, at)
  BY <1>5, FlattenIsLaid
<1>7. FlattenSeq(parts) = SerializeAttributes(r) /\ FlattenSeq(parts) \in Seq(Nat)
  BY <1>1, <1>2, <1>3, <1>5, FlattenIsLaid DEF SerializeAttributes
<1> DEFINE T == {k \in 0 .. n : at[k] = 4 * k}
<1>8. 0 .. n \subseteq T
  <2>1. 0 \in T
    BY <1>6 DEF Laid
  <2>2. ASSUME NEW k \in 0 .. n - 1, k \in T PROVE k + 1 \in T
    <3>1. k + 1 \in 1 .. n /\ (k + 1) - 1 = k /\ at[k] = 4 * k
      BY <2>2
    <3>2. at[k + 1] = at[(k + 1) - 1] + Len(parts[k + 1])
      BY <1>5, <1>6, <3>1 DEF Laid
    <3>3. Len(parts[k + 1]) = 4
      BY <1>4, <3>1
    <3>4. at[k + 1] = 4 * k + 4 /\ k \in Int
      BY <3>1, <3>2, <3>3
    <3> QED
      BY <3>1, <3>4
  <2> HIDE DEF T
  <2> QED
    BY <2>1, <2>2, UpTo
<1>9. \A k \in 0 .. n : at[k] = 4 * k
  BY <1>8
<1>10. ASSUME NEW i \in 1 .. n, NEW j \in 1 .. 4
       PROVE  FlattenSeq(parts)[4 * (i - 1) + j] = SerializeAttribute(as[i])[j]
  <2>1. i - 1 \in 0 .. n
    OBVIOUS
  <2>2. at[i - 1] = 4 * (i - 1)
    BY <1>9, <2>1
  <2>3. FlattenSeq(parts)[at[i - 1] + j] = parts[i][j]
    BY <1>4, <1>5, <1>6 DEF Laid
  <2> QED
    BY <1>3, <2>2, <2>3
<1>11. Len(FlattenSeq(parts)) = 4 * n
  BY <1>5, <1>6, <1>9 DEF Laid
<1> QED
  BY <1>1, <1>2, <1>7, <1>10, <1>11

\* w is what is written of relation r, which has a attributes.
FieldsOf(r, w, a) ==
  /\ w \in Seq(Nat) /\ Len(w) \in Nat /\ a \in Nat /\ Len(r.primaryKeys) \in Nat
  /\ Len(w) = 4 + 4 * a + Len(r.primaryKeys)
  /\ w[1] = r.name /\ w[2] = r.segmentId /\ w[3] = a
  /\ \A i \in 1 .. a, j \in 1 .. 4 :
       w[3 + 4 * (i - 1) + j] = SerializeAttribute(r.attributes[i])[j]
  /\ w[4 + 4 * a] = Len(r.primaryKeys)
  /\ \A i \in 1 .. Len(r.primaryKeys) : w[4 + 4 * a + i] = r.primaryKeys[i]

LEMMA RelationFields ==
  ASSUME NEW r \in Relations
  PROVE  FieldsOf(r, SerializeRelation(r), Len(r.attributes))
<1>0. PICK a, w : a = Len(r.attributes) /\ w = SerializeRelation(r)
  OBVIOUS
<1>1. /\ r.name \in Nat /\ r.segmentId \in Nat /\ a \in Nat /\ r.primaryKeys \in Seq(Nat)
  BY <1>0 DEF Relations
<1>2. PICK keys \in Seq(Nat), c \in Nat : keys = r.primaryKeys /\ c = Len(keys)
  BY <1>1
<1>3. PICK middle \in Seq(Nat) : middle = SerializeAttributes(r)
  BY AttributeFields
<1>4. /\ Len(middle) = 4 * a
      /\ \A i \in 1 .. a, j \in 1 .. 4 :
           middle[4 * (i - 1) + j] = SerializeAttribute(r.attributes[i])[j]
  BY <1>0, <1>3, AttributeFields
<1>5. PICK b \in Nat : b = 4 * a
  BY <1>1
<1>6. PICK head : head = <<r.name, r.segmentId, a>>
  OBVIOUS
<1>7. head \in Seq(Nat) /\ Len(head) = 3 /\ head[1] = r.name /\ head[2] = r.segmentId /\ head[3] = a
  BY <1>1, <1>6
<1>8. PICK one : one = <<c>>
  OBVIOUS
<1>9. one \in Seq(Nat) /\ Len(one) = 1 /\ one[1] = c
  BY <1>8
<1>10. w = head \o middle \o one \o keys
  BY <1>0, <1>2, <1>3, <1>6, <1>8 DEF SerializeRelation
<1>11. PICK x : x = head \o middle
  OBVIOUS
<1>12. /\ x \in Seq(Nat) /\ Len(x) = 3 + b
       /\ \A i \in 1 .. 3 : x[i] = head[i]
       /\ \A i \in 1 .. b : x[3 + i] = middle[i]
  <2>1. head \in Seq(Nat) /\ middle \in Seq(Nat) /\ x = head \o middle /\ 3 = Len(head) /\ b = Len(middle)
    BY <1>4, <1>5, <1>7, <1>11
  <2>2. JoinedTo(Nat, x, head, 3, middle, b)
    BY <2>1, Joined
  <2> QED
    BY <2>2 DEF JoinedTo
<1>13. PICK y : y = x \o one
  OBVIOUS
<1>14. /\ y \in Seq(Nat) /\ Len(y) = 4 + b /\ y[4 + b] = c
       /\ \A i \in 1 .. 3 + b : y[i] = x[i]
  <2>1. x \in Seq(Nat) /\ one \in Seq(Nat) /\ y = x \o one /\ 3 + b = Len(x) /\ 1 = Len(one)
    BY <1>9, <1>12, <1>13
  <2>2. JoinedTo(Nat, y, x, 3 + b, one, 1)
    BY <2>1, Joined
  <2> QED
    BY <1>5, <1>9, <2>2 DEF JoinedTo
<1>15. /\ w \in Seq(Nat) /\ Len(w) = 4 + b + c
       /\ \A i \in 1 .. 4 + b : w[i] = y[i]
       /\ \A i \in 1 .. c : w[4 + b + i] = keys[i]
  <2>1. y \in Seq(Nat) /\ keys \in Seq(Nat) /\ w = y \o keys /\ 4 + b = Len(y) /\ c = Len(keys)
    BY <1>2, <1>10, <1>11, <1>13, <1>14
  <2>2. JoinedTo(Nat, w, y, 4 + b, keys, c)
    BY <2>1, Joined
  <2> QED
    BY <1>2, <1>5, <2>2 DEF JoinedTo
<1>16. w[1] = r.name /\ w[2] = r.segmentId /\ w[3] = a
  <2>1. ASSUME NEW i \in 1 .. 3 PROVE w[i] = head[i]
    <3>1. i \in 1 .. 3 + b /\ i \in 1 .. 4 + b
      BY <1>5
    <3> QED
      BY <1>12, <1>14, <1>15, <3>1
  <2> QED
    BY <1>7, <2>1
<1>17. ASSUME NEW i \in 1 .. a, NEW j \in 1 .. 4
       PROVE  w[3 + 4 * (i - 1) + j] = SerializeAttribute(r.attributes[i])[j]
  <2>1. PICK k : k = 4 * (i - 1) + j
    OBVIOUS
  <2>2. k \in 1 .. b
    BY <1>1, <1>5, <2>1
  <2>3. w[3 + k] = middle[k]
    BY <1>12, <1>14, <1>15, <2>2
  <2>4. 3 + 4 * (i - 1) + j = 3 + k
    BY <2>1
  <2> QED
    BY <1>4, <2>1, <2>3, <2>4
<1>18. w[4 + b] = c
  BY <1>14, <1>15
<1> QED
  <2>1. Len(w) = 4 + 4 * a + Len(r.primaryKeys) /\ w[4 + 4 * a] = Len(r.primaryKeys)
    BY <1>2, <1>5, <1>15, <1>18
  <2>2. \A i \in 1 .. Len(r.primaryKeys) : w[4 + 4 * a + i] = r.primaryKeys[i]
    BY <1>2, <1>5, <1>15
  <2> QED
    <3>1. w \in Seq(Nat) /\ Len(w) \in Nat /\ a \in Nat /\ Len(r.primaryKeys) \in Nat
      BY <1>1, <1>15, LenProperties
    <3>2. FieldsOf(r, w, a)
      BY <1>16, <1>17, <2>1, <2>2, <3>1, Zenon DEF FieldsOf
    <3> QED
      BY <1>0, <3>2

\* at[i] is the end of relation i in the stream of schema s.
StreamOf(s, at) ==
  /\ Serialize(s) \in Seq(Nat) /\ Len(Serialize(s)) \in Nat
  /\ Serialize(s)[1] = Len(s)
  /\ at \in [0 .. Len(s) -> Nat] /\ at[0] = 1 /\ at[Len(s)] = Len(Serialize(s))
  /\ \A i \in 1 .. Len(s) :
       /\ at[i] = at[i - 1] + Len(SerializeRelation(s[i])) /\ at[i] <= Len(Serialize(s))
       /\ \A j \in 1 .. Len(SerializeRelation(s[i])) :
            Serialize(s)[at[i - 1] + j] = SerializeRelation(s[i])[j]

LEMMA StreamParts ==
  ASSUME NEW s \in Seq(Relations)
  PROVE  \E at : StreamOf(s, at)
<1>1. PICK n \in Nat : n = Len(s) /\ DOMAIN s = 1 .. n
  BY LenProperties
<1>2. PICK parts : parts = [i \in 1 .. n |-> SerializeRelation(s[i])]
  OBVIOUS
<1>3. ASSUME NEW i \in 1 .. n PROVE parts[i] \in Seq(Nat) /\ Len(parts[i]) \in Nat
  <2>1. s[i] \in Relations
    BY <1>1
  <2>2. SerializeRelation(s[i]) \in Seq(Nat)
    BY <2>1, RelationFields DEF FieldsOf
  <2> QED
    BY <1>2, <2>2
<1>4. parts \in Seq(Seq(Nat)) /\ Len(parts) = n
  BY <1>2, <1>3
<1>5. PICK whole : whole = FlattenSeq(parts)
  OBVIOUS
<1>6. whole \in Seq(Nat) /\ Len(whole) \in Nat
  BY <1>4, <1>5, FlattenIsLaid
<1>7. PICK at : Laid(whole, parts, at)
  BY <1>4, <1>5, FlattenIsLaid
<1>8. /\ at \in [0 .. n -> Nat] /\ at[0] = 0 /\ at[n] = Len(whole)
      /\ \A i \in 1 .. n : /\ at[i] = at[i - 1] + Len(parts[i])
                           /\ \A j \in 1 .. Len(parts[i]) : whole[at[i - 1] + j] = parts[i][j]
  BY <1>4, <1>7 DEF Laid
<1>9. PICK S : S = Serialize(s)
  OBVIOUS
<1>10. S = <<n>> \o whole
  BY <1>1, <1>2, <1>5, <1>9 DEF Serialize
<1>11. /\ S \in Seq(Nat) /\ Len(S) = 1 + Len(whole) /\ S[1] = n
       /\ \A i \in 1 .. Len(whole) : S[1 + i] = whole[i]
  <2>1. PICK one : one = <<n>>
    OBVIOUS
  <2>2. one \in Seq(Nat) /\ Len(one) = 1 /\ one[1] = n
    BY <2>1
  <2>3. /\ S \in Seq(Nat) /\ Len(S) = Len(one) + Len(whole)
        /\ \A i \in 1 .. Len(one) + Len(whole) :
             S[i] = IF i <= Len(one) THEN one[i] ELSE whole[i - Len(one)]
    BY <1>6, <1>10, <2>1, <2>2, ConcatProperties
  <2> QED
    BY <1>6, <2>2, <2>3
<1>12. PICK from : from = [i \in 0 .. n |-> at[i] + 1]
  OBVIOUS
<1>13. \A i \in 0 .. n : from[i] = at[i] + 1 /\ at[i] \in Nat
  BY <1>8, <1>12
<1> DEFINE T == {k \in 0 .. n : at[n - k] <= Len(whole)}
<1>14. \A k \in 0 .. n : at[k] <= Len(whole)
  <2>1. 0 \in T
    BY <1>6, <1>8
  <2>2. ASSUME NEW k \in 0 .. n - 1, k \in T PROVE k + 1 \in T
    <3>1. n - k \in 1 .. n /\ (n - k) - 1 = n - (k + 1) /\ n - (k + 1) \in 0 .. n /\ k + 1 \in 0 .. n
      BY <2>2
    <3>2. at[n - k] = at[n - (k + 1)] + Len(parts[n - k])
      BY <1>8, <3>1
    <3>3. at[n - (k + 1)] \in Nat /\ at[n - k] <= Len(whole) /\ Len(parts[n - k]) \in Nat
      BY <1>3, <1>8, <2>2, <3>1
    <3>4. at[n - (k + 1)] <= Len(whole)
      BY <1>6, <3>2, <3>3
    <3> QED
      BY <3>1, <3>4
  <2>3. 0 .. n \subseteq T
    <3> HIDE DEF T
    <3> QED
      BY <2>1, <2>2, UpTo
  <2>4. ASSUME NEW k \in 0 .. n PROVE at[k] <= Len(whole)
    <3>1. n - k \in 0 .. n /\ n - (n - k) = k
      OBVIOUS
    <3>2. n - k \in T
      <4> HIDE DEF T
      <4> QED
        BY <2>3, <3>1
    <3> QED
      BY <3>1, <3>2
  <2> QED
    BY <2>4
<1>15. ASSUME NEW i \in 1 .. n
       PROVE  /\ from[i] = from[i - 1] + Len(parts[i]) /\ from[i] <= Len(S)
              /\ \A j \in 1 .. Len(parts[i]) : S[from[i - 1] + j] = parts[i][j]
  <2>1. i \in 0 .. n /\ i - 1 \in 0 .. n /\ Len(parts[i]) \in Nat
    BY <1>3
  <2>2. /\ from[i] = at[i] + 1 /\ from[i - 1] = at[i - 1] + 1
        /\ at[i] \in Nat /\ at[i - 1] \in Nat /\ at[i] = at[i - 1] + Len(parts[i])
        /\ at[i] <= Len(whole)
    BY <1>8, <1>13, <1>14, <2>1
  <2>3. ASSUME NEW j \in 1 .. Len(parts[i]) PROVE S[from[i - 1] + j] = parts[i][j]
    <3>1. PICK p, l : p = at[i - 1] /\ l = Len(parts[i])
      OBVIOUS
    <3>2. p \in Nat /\ l \in Nat /\ p + l <= Len(whole) /\ j \in 1 .. l
      BY <2>1, <2>2, <3>1
    <3>3. p + j \in 1 .. Len(whole) /\ (p + 1) + j = 1 + (p + j)
      BY <1>6, <3>2
    <3>4. whole[p + j] = parts[i][j] /\ S[1 + (p + j)] = whole[p + j]
      BY <1>8, <1>11, <3>1, <3>2, <3>3
    <3> QED
      BY <2>2, <3>1, <3>3, <3>4
  <2>4. from[i] = from[i - 1] + Len(parts[i])
    BY <2>1, <2>2
  <2>5. from[i] <= Len(S)
    BY <1>6, <1>11, <2>2
  <2> QED
    BY <2>3, <2>4, <2>5
<1>16. from \in [0 .. n -> Nat] /\ from[0] = 1 /\ from[n] = Len(S)
  BY <1>6, <1>8, <1>11, <1>12, <1>13
<1>17. \A i \in 1 .. n : parts[i] = SerializeRelation(s[i])
  BY <1>2
<1>18. StreamOf(s, from)
  <2>1. S \in Seq(Nat) /\ Len(S) \in Nat /\ S[1] = n
    BY <1>6, <1>11
  <2>2. \A i \in 1 .. n :
          /\ from[i] = from[i - 1] + Len(SerializeRelation(s[i])) /\ from[i] <= Len(S)
          /\ \A j \in 1 .. Len(SerializeRelation(s[i])) :
               S[from[i - 1] + j] = SerializeRelation(s[i])[j]
    BY <1>15, <1>17
  <2> QED
    BY <1>1, <1>9, <1>16, <2>1, <2>2 DEF StreamOf
<1> QED
  BY <1>18

---------------------------------------------------------------------------
(* Reading the stream *)

\* t is what is left of S behind position pos.
Rest(S, t, pos) ==
  /\ t \in Seq(Nat) /\ pos \in 0 .. Len(S) /\ Len(t) = Len(S) - pos
  /\ \A i \in 1 .. Len(t) : t[i] = S[pos + i]

LEMMA RestAfter ==
  ASSUME NEW S \in Seq(Nat), NEW t, NEW pos, Rest(S, t, pos), NEW k \in Nat, pos + k <= Len(S)
  PROVE  Rest(S, SubSeq(t, k + 1, Len(t)), pos + k)
<1>1. /\ t \in Seq(Nat) /\ pos \in Nat /\ Len(S) \in Nat /\ Len(t) \in Nat
      /\ Len(t) = Len(S) - pos
      /\ \A i \in 1 .. Len(t) : t[i] = S[pos + i]
  BY LenProperties DEF Rest
<1>2. PICK l \in Nat : l = Len(t)
  BY <1>1
<1>2a. k <= l /\ l + pos = Len(S)
  BY <1>1, <1>2
<1>3. PICK u : u = SubSeq(t, k + 1, l)
  OBVIOUS
<1>4. u \in Seq(Nat) /\ Len(u) = l - k /\ \A i \in 1 .. l - k : u[i] = t[k + i]
  <2>1. \A i \in k + 1 .. l : t[i] \in Nat
    BY <1>1, <1>2
  <2>2. /\ u \in Seq(Nat)
        /\ Len(u) = IF k + 1 <= l THEN l - (k + 1) + 1 ELSE 0
        /\ \A i \in 1 .. l - (k + 1) + 1 : u[i] = t[(k + 1) + i - 1]
    BY <1>1, <1>2, <1>2a, <1>3, <2>1, SubSeqProperties
  <2>3. l - (k + 1) + 1 = l - k /\ (k + 1 > l => l - k = 0)
    BY <1>2, <1>2a
  <2>4. Len(u) = l - k
    BY <1>2, <2>2, <2>3
  <2>5. ASSUME NEW i \in 1 .. l - k PROVE u[i] = t[k + i]
    <3>1. (k + 1) + i - 1 = k + i /\ i \in 1 .. l - (k + 1) + 1
      BY <1>2
    <3> QED
      BY <2>2, <3>1
  <2> QED
    BY <2>2, <2>4, <2>5
<1>5. ASSUME NEW i \in 1 .. l - k PROVE u[i] = S[(pos + k) + i]
  <2>1. k + i \in 1 .. l /\ pos + (k + i) = (pos + k) + i
    BY <1>1, <1>2
  <2> QED
    BY <1>1, <1>2, <1>4, <2>1
<1>6. pos + k \in 0 .. Len(S) /\ Len(u) = Len(S) - (pos + k) /\ Len(u) = l - k
  BY <1>1, <1>2, <1>2a, <1>4
<1> QED
  BY <1>2, <1>3, <1>4, <1>5, <1>6 DEF Rest

AgreeTo(n) == \A i \in 1 .. n : relations[i] = schema[i]

\* Between two relations, and within one: what has been read is what was written, and pos is
\* where the writing stood.
BetweenRelations(at, pos) ==
  /\ relationsLeft = Len(schema) - Len(relations) /\ Len(relations) <= Len(schema)
  /\ pos = at[Len(relations)]
  /\ AgreeTo(Len(relations))

WithinRelation(at, pos, n, last, r) ==
  /\ n = Len(relations) /\ n \in 1 .. Len(schema) /\ relationsLeft = Len(schema) - n + 1
  /\ last = relations[n] /\ r = schema[n]
  /\ AgreeTo(n - 1)
  /\ last.name = r.name /\ last.segmentId = r.segmentId /\ last.primaryKeys = <<>>
  /\ Len(last.attributes) <= Len(r.attributes)
  /\ \A i \in 1 .. Len(last.attributes) : last.attributes[i] = r.attributes[i]
  /\ attributesLeft = Len(r.attributes) - Len(last.attributes)
  /\ pos = at[n - 1] + 3 + 4 * Len(last.attributes)

Reading(at, pos) ==
  /\ StreamOf(schema, at)
  /\ Rest(Serialize(schema), stream, pos)
  /\ schemaPc \in {"schema", "relation", "attributes", "read"}
  /\ schemaPc = "schema" => pos = 0 /\ relations = <<>>
  /\ schemaPc = "relation" => BetweenRelations(at, pos)
  /\ schemaPc = "attributes" => \E n, last, r : WithinRelation(at, pos, n, last, r)
  /\ schemaPc = "read" => relations = schema /\ stream = <<>>

SchemaInv ==
  /\ schema \in Seq(Relations) /\ relations \in Seq(Relations)
  /\ \E at, pos : Reading(at, pos)

LEMMA SchemaInitInv == SchemaInit => SchemaInv
<1> SUFFICES ASSUME SchemaInit PROVE SchemaInv
  OBVIOUS
<1>1. /\ schema \in Seq(Relations) /\ stream = Serialize(schema) /\ relations = <<>>
      /\ schemaPc = "schema"
  BY SchemasAssumption DEF SchemaInit
<1>2. PICK at : StreamOf(schema, at)
  BY <1>1, StreamParts
<1>3. Rest(Serialize(schema), stream, 0)
  BY <1>1, <1>2 DEF StreamOf, Rest
<1>4. Reading(at, 0)
  BY <1>1, <1>2, <1>3 DEF Reading
<1> QED
  BY <1>1, <1>4, EmptySeq DEF SchemaInv

\* The bounds that every step of the reading needs.
LEMMA StreamBounds ==
  ASSUME NEW s \in Seq(Relations), NEW at, StreamOf(s, at)
  PROVE  /\ Serialize(s) \in Seq(Nat) /\ Len(Serialize(s)) \in Nat /\ Len(Serialize(s)) >= 1
         /\ Len(s) \in Nat /\ Serialize(s)[1] = Len(s) /\ at[0] = 1 /\ at[Len(s)] = Len(Serialize(s))
         /\ \A i \in 0 .. Len(s) : at[i] \in Nat
         /\ \A i \in 1 .. Len(s) :
              /\ s[i] \in Relations /\ SerializeRelation(s[i]) \in Seq(Nat)
              /\ Len(SerializeRelation(s[i])) \in Nat
              /\ at[i] = at[i - 1] + Len(SerializeRelation(s[i])) /\ at[i] <= Len(Serialize(s))
              /\ \A j \in 1 .. Len(SerializeRelation(s[i])) :
                   Serialize(s)[at[i - 1] + j] = SerializeRelation(s[i])[j]
<1>1. PICK n \in Nat : n = Len(s) /\ \A i \in 1 .. n : s[i] \in Relations
  BY LenProperties, ElementOfSeq
<1>2. \A i \in 1 .. n : SerializeRelation(s[i]) \in Seq(Nat)
  BY <1>1, RelationFields DEF FieldsOf
<1>3. \A i \in 1 .. n : Len(SerializeRelation(s[i])) \in Nat
  BY <1>2, LenProperties
<1>4. /\ Serialize(s) \in Seq(Nat) /\ Len(Serialize(s)) \in Nat
      /\ Serialize(s)[1] = n /\ at[0] = 1 /\ at[n] = Len(Serialize(s))
      /\ \A i \in 0 .. n : at[i] \in Nat
      /\ \A i \in 1 .. n :
              /\ at[i] = at[i - 1] + Len(SerializeRelation(s[i])) /\ at[i] <= Len(Serialize(s))
              /\ \A j \in 1 .. Len(SerializeRelation(s[i])) :
                   Serialize(s)[at[i - 1] + j] = SerializeRelation(s[i])[j]
  BY <1>1 DEF StreamOf
<1>5. Len(Serialize(s)) >= 1
  <2>1. CASE n = 0
    BY <1>4, <2>1
  <2>2. CASE n # 0
    <3>1. PICK len, a1 : len = Len(SerializeRelation(s[1])) /\ a1 = at[1]
      OBVIOUS
    <3>2. 1 \in 1 .. n /\ 1 - 1 = 0
      BY <2>2
    <3>3. a1 = 1 + len /\ a1 <= Len(Serialize(s)) /\ len \in Nat
      BY <1>3, <1>4, <3>1, <3>2
    <3> QED
      BY <1>4, <3>3
  <2> QED
    BY <2>1, <2>2
<1> QED
  BY <1>1, <1>2, <1>3, <1>4, <1>5

\* e fields of relation n, of which w is written, have been read: what is ahead in the stream.
AheadOf(s, at, t, pos, n, w, e) ==
  /\ w \in Seq(Nat) /\ Len(w) \in Nat /\ at[n] = at[n - 1] + Len(w) /\ at[n - 1] \in Nat
  /\ t \in Seq(Nat) /\ Len(t) \in Nat /\ Len(t) >= Len(w) - e
  /\ \A i \in 1 .. Len(w) - e : t[i] = w[e + i]
  /\ \A k \in 0 .. Len(w) - e : Rest(Serialize(s), SubSeq(t, k + 1, Len(t)), pos + k)

LEMMA Ahead ==
  ASSUME NEW s \in Seq(Relations), NEW at, StreamOf(s, at),
         NEW t, NEW pos, Rest(Serialize(s), t, pos),
         NEW n \in 1 .. Len(s), NEW e \in Nat, e <= Len(SerializeRelation(s[n])),
         pos = at[n - 1] + e
  PROVE  AheadOf(s, at, t, pos, n, SerializeRelation(s[n]), e)
<1>0. PICK w : w = SerializeRelation(s[n])
  OBVIOUS
<1>1. PICK S : S = Serialize(s)
  OBVIOUS
<1>2. PICK base, c : base = at[n - 1] /\ c = Len(w)
  OBVIOUS
<1>3. Len(s) \in Nat /\ n - 1 \in 0 .. Len(s)
  BY LenProperties
<1>4. /\ S \in Seq(Nat) /\ Len(S) \in Nat /\ base \in Nat /\ c \in Nat /\ w \in Seq(Nat)
      /\ at[n] = base + c /\ at[n] <= Len(S)
      /\ \A j \in 1 .. c : S[base + j] = w[j]
  BY <1>0, <1>1, <1>2, <1>3, StreamBounds
<1>5. /\ t \in Seq(Nat) /\ Len(t) \in Nat /\ Len(t) = Len(S) - pos /\ pos = base + e
      /\ \A i \in 1 .. Len(t) : t[i] = S[pos + i]
  BY <1>1, <1>2, LenProperties DEF Rest
<1>6. Len(t) >= c - e
  BY <1>4, <1>5
<1>7. ASSUME NEW i \in 1 .. c - e PROVE t[i] = w[e + i]
  <2>0. PICK lt, ls : lt = Len(t) /\ ls = Len(S)
    OBVIOUS
  <2>1. i \in 1 .. Len(t) /\ e + i \in 1 .. c /\ pos + i = base + (e + i)
    <3>1. base \in Nat /\ c \in Nat /\ lt \in Nat /\ pos = base + e /\ lt >= c - e /\ i \in 1 .. c - e
      BY <1>4, <1>5, <1>6, <2>0
    <3> QED
      BY <2>0, <3>1
  <2> QED
    BY <1>4, <1>5, <2>1
<1>8. ASSUME NEW k \in 0 .. c - e PROVE Rest(S, SubSeq(t, k + 1, Len(t)), pos + k)
  <2>1. k \in Nat /\ pos + k <= Len(S)
    BY <1>4, <1>5
  <2>2. Rest(S, t, pos)
    BY <1>1
  <2> QED
    BY <1>4, <2>1, <2>2, RestAfter
<1> QED
  BY <1>0, <1>1, <1>2, <1>4, <1>5, <1>6, <1>7, <1>8 DEF AheadOf

LEMMA ReadSchemaInv == SchemaInv /\ ReadSchema => SchemaInv'
<1> SUFFICES ASSUME SchemaInv, ReadSchema PROVE SchemaInv'
  OBVIOUS
<1>1. PICK at, pos : Reading(at, pos)
  BY DEF SchemaInv
<1>2. /\ schema \in Seq(Relations) /\ relations = <<>> /\ pos = 0 /\ StreamOf(schema, at)
      /\ Rest(Serialize(schema), stream, pos)
  BY <1>1 DEF SchemaInv, Reading, ReadSchema
<1>3. PICK S, l : S = Serialize(schema) /\ l = Len(S)
  OBVIOUS
<1>4. S \in Seq(Nat) /\ l \in Nat /\ l >= 1 /\ S[1] = Len(schema) /\ at[0] = 1 /\ Len(schema) \in Nat
  BY <1>2, <1>3, StreamBounds
<1>5. stream[1] = Len(schema)
  <2>1. Len(stream) = l /\ \A i \in 1 .. Len(stream) : stream[i] = S[pos + i]
    BY <1>2, <1>3, <1>4 DEF Rest
  <2>2. 1 \in 1 .. l /\ pos + 1 = 1
    BY <1>2, <1>4
  <2> QED
    BY <1>4, <2>1, <2>2
<1>6. Rest(S, SubSeq(stream, 1 + 1, Len(stream)), 0 + 1)
  <2>1. 0 + 1 <= Len(S) /\ Rest(S, stream, 0) /\ 1 \in Nat
    BY <1>2, <1>3, <1>4
  <2> QED
    BY <1>4, <2>1, RestAfter
<1>7. /\ schema' = schema /\ relations' = <<>> /\ relationsLeft' = Len(schema)
      /\ stream' = SubSeq(stream, 1 + 1, Len(stream)) /\ schemaPc' = "relation"
  BY <1>2, <1>5 DEF ReadSchema, Consume
<1>8. Len(<<>>) = 0
  OBVIOUS
<1>9. Rest(Serialize(schema)', stream', 1)
  BY <1>3, <1>6, <1>7
<1>10. BetweenRelations(at, 1)'
  BY <1>4, <1>7, <1>8 DEF BetweenRelations, AgreeTo
<1>11. StreamOf(schema, at)'
  BY <1>2, <1>7
<1>12. Reading(at, 1)'
  BY <1>7, <1>9, <1>10, <1>11 DEF Reading
<1>13. relations' \in Seq(Relations)
  BY <1>7, EmptySeq
<1> QED
  BY <1>2, <1>7, <1>12, <1>13 DEF SchemaInv

LEMMA ReadRelationInv == SchemaInv /\ ReadRelation => SchemaInv'
<1> SUFFICES ASSUME SchemaInv, ReadRelation PROVE SchemaInv'
  OBVIOUS
<1>1. PICK at, pos : Reading(at, pos)
  BY DEF SchemaInv
<1>2. /\ schema \in Seq(Relations) /\ relations \in Seq(Relations) /\ StreamOf(schema, at)
      /\ Rest(Serialize(schema), stream, pos) /\ BetweenRelations(at, pos)
  BY <1>1 DEF SchemaInv, Reading, ReadRelation
<1>3. PICK n : n = Len(relations) + 1
  OBVIOUS
<1>4. /\ n \in 1 .. Len(schema) /\ n - 1 = Len(relations) /\ Len(relations) \in Nat
      /\ relationsLeft = Len(schema) - n + 1 /\ pos = at[n - 1] /\ AgreeTo(n - 1)
  <2>1. Len(relations) \in Nat /\ Len(schema) \in Nat /\ relationsLeft > 0
    BY <1>2, LenProperties DEF ReadRelation
  <2>2. n - 1 = Len(relations)
    BY <1>3, <2>1
  <2> QED
    BY <1>2, <1>3, <2>1, <2>2 DEF BetweenRelations
<1>5. PICK r \in Relations : r = schema[n]
  BY <1>2, <1>4, ElementOfSeq
<1>6. PICK w, a : w = SerializeRelation(r) /\ a = Len(r.attributes)
  OBVIOUS
<1>7. FieldsOf(r, w, a)
  BY <1>6, RelationFields
<1>8. /\ Len(w) \in Nat /\ Len(w) >= 4 /\ a \in Nat
      /\ w[1] = r.name /\ w[2] = r.segmentId /\ w[3] = a
  <2>1. /\ Len(w) \in Nat /\ a \in Nat /\ Len(r.primaryKeys) \in Nat
        /\ Len(w) = 4 + 4 * a + Len(r.primaryKeys)
        /\ w[1] = r.name /\ w[2] = r.segmentId /\ w[3] = a
    BY <1>7, Zenon DEF FieldsOf
  <2>2. PICK b, keys, l : b = 4 * a /\ keys = Len(r.primaryKeys) /\ l = Len(w)
    OBVIOUS
  <2>3. b \in Nat
    BY <2>1, <2>2
  <2>4. l = 4 + b + keys /\ keys \in Nat
    BY <2>1, <2>2, Zenon
  <2>5. l >= 4
    BY <2>3, <2>4
  <2> QED
    BY <2>1, <2>2, <2>5
<1>9. /\ at[n - 1] \in Nat /\ \A i \in 1 .. Len(w) - 0 : stream[i] = w[0 + i]
      /\ \A k \in 0 .. Len(w) - 0 : Rest(Serialize(schema), SubSeq(stream, k + 1, Len(stream)), pos + k)
  <2>1. at[n - 1] \in Nat
    BY <1>2, <1>4, StreamBounds
  <2>2. w = SerializeRelation(schema[n]) /\ 0 \in Nat /\ 0 <= Len(w) /\ pos = at[n - 1] + 0
    BY <1>4, <1>5, <1>6, <1>8, <2>1
  <2>3. AheadOf(schema, at, stream, pos, n, w, 0)
    BY <1>2, <1>4, <2>2, Ahead
  <2> QED
    BY <2>3 DEF AheadOf
<1>10. stream[1] = r.name /\ stream[2] = r.segmentId /\ stream[3] = a
  BY <1>8, <1>9
<1>11. Rest(Serialize(schema), SubSeq(stream, 3 + 1, Len(stream)), pos + 3)
  BY <1>8, <1>9
<1>12. PICK last : last = [name |-> r.name, segmentId |-> r.segmentId,
                           attributes |-> <<>>, primaryKeys |-> <<>>]
  OBVIOUS
<1>13. last \in Relations /\ last.name = r.name /\ last.segmentId = r.segmentId
       /\ last.attributes = <<>> /\ last.primaryKeys = <<>>
  <2>1. r.name \in Nat /\ r.segmentId \in Nat
    BY DEF Relations
  <2>2. <<>> \in Seq(Attributes) /\ <<>> \in Seq(Nat)
    BY EmptySeq
  <2> QED
    BY <1>12, <2>1, <2>2 DEF Relations
<1>14. /\ schema' = schema /\ relations' = Append(relations, last)
       /\ relationsLeft' = relationsLeft /\ attributesLeft' = a
       /\ stream' = SubSeq(stream, 3 + 1, Len(stream)) /\ schemaPc' = "attributes"
  BY <1>10, <1>12 DEF ReadRelation, Consume
<1>15. /\ relations' \in Seq(Relations) /\ Len(relations') = n /\ relations'[n] = last
       /\ \A i \in 1 .. n - 1 : relations'[i] = relations[i]
  BY <1>2, <1>3, <1>4, <1>13, <1>14, AppendProperties
<1>16. Len(last.attributes) = 0
  BY <1>13
<1>17. AgreeTo(n - 1)'
  BY <1>4, <1>14, <1>15 DEF AgreeTo
<1>18. WithinRelation(at, pos + 3, n, last, r)'
  <2>1. /\ n = Len(relations') /\ n \in 1 .. Len(schema') /\ relationsLeft' = Len(schema') - n + 1
        /\ last = relations'[n] /\ r = schema'[n]
    BY <1>4, <1>5, <1>14, <1>15
  <2>2. /\ last.name = r.name /\ last.segmentId = r.segmentId /\ last.primaryKeys = <<>>
        /\ Len(last.attributes) <= Len(r.attributes)
        /\ \A i \in 1 .. Len(last.attributes) : last.attributes[i] = r.attributes[i]
        /\ attributesLeft' = Len(r.attributes) - Len(last.attributes)
    BY <1>6, <1>8, <1>13, <1>14, <1>16
  <2>3. pos + 3 = at[n - 1] + 3 + 4 * Len(last.attributes)
    BY <1>4, <1>9, <1>16
  <2> QED
    BY <1>17, <2>1, <2>2, <2>3 DEF WithinRelation
<1>19. StreamOf(schema, at)' /\ Rest(Serialize(schema), stream, pos + 3)'
  BY <1>2, <1>11, <1>14
<1>20. Reading(at, pos + 3)'
  BY <1>14, <1>18, <1>19 DEF Reading
<1> QED
  BY <1>2, <1>14, <1>15, <1>20 DEF SchemaInv

\* The fields of an attribute and of the primary keys, in the terms of the reading.
AttributeAfter(r, w, m, e) ==
  /\ e \in Nat /\ Len(w) \in Nat /\ Len(w) - e >= 4
  /\ \A j \in 1 .. 4 : w[e + j] = SerializeAttribute(r.attributes[m + 1])[j]

LEMMA AttributeAhead ==
  ASSUME NEW r \in Relations, NEW m \in Nat, m < Len(r.attributes)
  PROVE  AttributeAfter(r, SerializeRelation(r), m, 3 + 4 * m)
<1>0. PICK w : w = SerializeRelation(r)
  OBVIOUS
<1>1. PICK a : a = Len(r.attributes)
  OBVIOUS
<1>2. FieldsOf(r, w, a)
  BY <1>0, <1>1, RelationFields
<1>3. /\ Len(w) \in Nat /\ a \in Nat /\ Len(r.primaryKeys) \in Nat
      /\ Len(w) = 4 + 4 * a + Len(r.primaryKeys)
      /\ \A i \in 1 .. a, j \in 1 .. 4 :
           w[3 + 4 * (i - 1) + j] = SerializeAttribute(r.attributes[i])[j]
  BY <1>2, Zenon DEF FieldsOf
<1>4. PICK b, d, keys, l : b = 4 * a /\ d = 4 * m /\ keys = Len(r.primaryKeys) /\ l = Len(w)
  OBVIOUS
<1>5. b \in Nat /\ d \in Nat /\ b >= d + 4
  <2>1. a >= m + 1 /\ a \in Nat
    BY <1>1, <1>3
  <2> QED
    BY <1>4, <2>1
<1>6. l = 4 + b + keys /\ keys \in Nat /\ l \in Nat
  BY <1>3, <1>4, Zenon
<1>7. 3 + d \in Nat /\ l - (3 + d) >= 4
  BY <1>5, <1>6
<1>8. ASSUME NEW j \in 1 .. 4 PROVE w[3 + 4 * m + j] = SerializeAttribute(r.attributes[m + 1])[j]
  <2>1. m + 1 \in 1 .. a /\ (m + 1) - 1 = m
    BY <1>1, <1>3
  <2> QED
    BY <1>3, <2>1
<1> QED
  BY <1>0, <1>4, <1>6, <1>7, <1>8 DEF AttributeAfter

KeysAfter(r, w, e, c) ==
  /\ e \in Nat /\ c \in Nat /\ Len(w) \in Nat /\ Len(w) = e + 1 + c
  /\ w[e + 1] = c /\ \A i \in 1 .. c : w[e + (1 + i)] = r.primaryKeys[i]

LEMMA KeysAhead ==
  ASSUME NEW r \in Relations
  PROVE  KeysAfter(r, SerializeRelation(r), 3 + 4 * Len(r.attributes), Len(r.primaryKeys))
<1>0. PICK w : w = SerializeRelation(r)
  OBVIOUS
<1>1. PICK a : a = Len(r.attributes)
  OBVIOUS
<1>2. FieldsOf(r, w, a)
  BY <1>0, <1>1, RelationFields
<1>3. /\ Len(w) \in Nat /\ a \in Nat /\ Len(r.primaryKeys) \in Nat
      /\ Len(w) = 4 + 4 * a + Len(r.primaryKeys)
      /\ w[4 + 4 * a] = Len(r.primaryKeys)
      /\ \A i \in 1 .. Len(r.primaryKeys) : w[4 + 4 * a + i] = r.primaryKeys[i]
  BY <1>2, Zenon DEF FieldsOf
<1>4. PICK b, c : b = 4 * a /\ c = Len(r.primaryKeys)
  OBVIOUS
<1>5. b \in Nat
  BY <1>3, <1>4
<1>6. /\ c \in Nat /\ Len(w) = 4 + b + c /\ w[4 + b] = c
      /\ \A i \in 1 .. c : w[4 + b + i] = r.primaryKeys[i]
  BY <1>3, <1>4, Zenon
<1>7. PICK e : e = 3 + b
  OBVIOUS
<1>8. e \in Nat /\ 4 + b = e + 1 /\ Len(w) = e + 1 + c
  BY <1>5, <1>6, <1>7
<1>9. ASSUME NEW i \in 1 .. c PROVE w[e + (1 + i)] = r.primaryKeys[i]
  <2>1. e + (1 + i) = 4 + b + i
    BY <1>5, <1>6, <1>7
  <2> QED
    BY <1>6, <2>1
<1>10. w[e + 1] = c
  BY <1>6, <1>8
<1>11. e = 3 + 4 * Len(r.attributes)
  BY <1>1, <1>4, <1>7
<1> QED
  BY <1>0, <1>3, <1>4, <1>6, <1>8, <1>9, <1>10, <1>11 DEF KeysAfter

\* What the steps within a relation start from.
LEMMA WithinFacts ==
  ASSUME SchemaInv, NEW at, NEW pos, NEW n, NEW last, NEW r,
         Reading(at, pos), WithinRelation(at, pos, n, last, r)
  PROVE  /\ schema \in Seq(Relations) /\ relations \in Seq(Relations)
         /\ StreamOf(schema, at) /\ Rest(Serialize(schema), stream, pos)
         /\ last \in Relations /\ r \in Relations
         /\ last.attributes \in Seq(Attributes) /\ r.attributes \in Seq(Attributes)
         /\ Len(last.attributes) \in Nat /\ Len(r.attributes) \in Nat
         /\ n \in 1 .. Len(schema) /\ n \in 1 .. Len(relations) /\ at[n - 1] \in Nat
         /\ Len(schema) \in Nat
<1>1. /\ schema \in Seq(Relations) /\ relations \in Seq(Relations)
      /\ StreamOf(schema, at) /\ Rest(Serialize(schema), stream, pos)
  BY DEF SchemaInv, Reading
<1>2. Len(schema) \in Nat /\ Len(relations) \in Nat
  BY <1>1, LenProperties
<1>3. n \in 1 .. Len(schema) /\ n \in 1 .. Len(relations) /\ last = relations[n] /\ r = schema[n]
  BY <1>2 DEF WithinRelation
<1>4. last \in Relations /\ r \in Relations
  BY <1>1, <1>3, ElementOfSeq
<1>5. last.attributes \in Seq(Attributes) /\ r.attributes \in Seq(Attributes)
  BY <1>4 DEF Relations
<1>6. n - 1 \in 0 .. Len(schema)
  BY <1>2, <1>3
<1>7. at[n - 1] \in Nat
  BY <1>1, <1>6, StreamBounds
<1> QED
  BY <1>1, <1>2, <1>3, <1>4, <1>5, <1>7, LenProperties

LEMMA ReadAttributeInv == SchemaInv /\ ReadAttribute => SchemaInv'
<1> SUFFICES ASSUME SchemaInv, ReadAttribute PROVE SchemaInv'
  OBVIOUS
<1>1. PICK at, pos : Reading(at, pos)
  BY DEF SchemaInv
<1>2. PICK n, last, r : WithinRelation(at, pos, n, last, r)
  BY <1>1 DEF Reading, ReadAttribute
<1>3. /\ schema \in Seq(Relations) /\ relations \in Seq(Relations)
      /\ StreamOf(schema, at) /\ Rest(Serialize(schema), stream, pos)
      /\ last \in Relations /\ r \in Relations
      /\ last.attributes \in Seq(Attributes) /\ r.attributes \in Seq(Attributes)
      /\ n \in 1 .. Len(schema) /\ n \in 1 .. Len(relations) /\ at[n - 1] \in Nat
  BY <1>1, <1>2, WithinFacts
<1>4. PICK m, a, w : /\ m = Len(last.attributes) /\ a = Len(r.attributes)
                     /\ w = SerializeRelation(r)
  OBVIOUS
<1>5. /\ n = Len(relations) /\ relationsLeft = Len(schema) - n + 1
      /\ last = relations[n] /\ r = schema[n] /\ AgreeTo(n - 1)
      /\ last.name = r.name /\ last.segmentId = r.segmentId /\ last.primaryKeys = <<>>
      /\ m <= a /\ \A i \in 1 .. m : last.attributes[i] = r.attributes[i]
      /\ attributesLeft = a - m
      /\ pos = at[n - 1] + 3 + 4 * m
  BY <1>2, <1>4 DEF WithinRelation
<1>6. m \in Nat /\ a \in Nat /\ m < a
  <2>1. m \in Nat /\ a \in Nat
    BY <1>3, <1>4, LenProperties
  <2> QED
    BY <1>5, <2>1 DEF ReadAttribute
<1>7. PICK e : e = 3 + 4 * m
  OBVIOUS
<1>8. /\ e \in Nat /\ Len(w) \in Nat /\ Len(w) - e >= 4
      /\ \A j \in 1 .. 4 : w[e + j] = SerializeAttribute(r.attributes[m + 1])[j]
  <2>1. AttributeAfter(r, w, m, e)
    BY <1>3, <1>4, <1>6, <1>7, AttributeAhead
  <2> QED
    BY <2>1, Zenon DEF AttributeAfter
<1>9. pos = at[n - 1] + e
  BY <1>3, <1>5, <1>6, <1>7
<1>10. AheadOf(schema, at, stream, pos, n, w, e)
  <2>1. e <= Len(SerializeRelation(schema[n])) /\ w = SerializeRelation(schema[n])
    BY <1>4, <1>5, <1>8
  <2> QED
    BY <1>3, <1>8, <1>9, <2>1, Ahead
<1>11. \A j \in 1 .. 4 : stream[j] = SerializeAttribute(r.attributes[m + 1])[j]
  <2>1. \A i \in 1 .. Len(w) - e : stream[i] = w[e + i]
    BY <1>10, Zenon DEF AheadOf
  <2>2. \A j \in 1 .. 4 : j \in 1 .. Len(w) - e
    BY <1>8
  <2> QED
    BY <1>8, <2>1, <2>2
<1>12. PICK x \in Attributes : x = r.attributes[m + 1]
  <2>1. m + 1 \in 1 .. Len(r.attributes)
    BY <1>4, <1>6
  <2> QED
    BY <1>3, <2>1, ElementOfSeq
<1>13. [name |-> stream[1], type |-> stream[2], length |-> stream[3], notNull |-> stream[4]] = x
  <2>1. SerializeAttribute(x) = <<x.name, x.type, x.length, x.notNull>>
    BY DEF SerializeAttribute
  <2>2. 1 \in 1 .. 4 /\ 2 \in 1 .. 4 /\ 3 \in 1 .. 4 /\ 4 \in 1 .. 4
    OBVIOUS
  <2>3. stream[1] = x.name /\ stream[2] = x.type /\ stream[3] = x.length /\ stream[4] = x.notNull
    BY <1>11, <1>12, <2>1, <2>2
  <2>4. x = [name |-> x.name, type |-> x.type, length |-> x.length, notNull |-> x.notNull]
    BY DEF Attributes
  <2> QED
    BY <2>3, <2>4
<1>14. PICK longer : longer = Append(last.attributes, x)
  OBVIOUS
<1>15. /\ longer \in Seq(Attributes) /\ Len(longer) = m + 1 /\ longer[m + 1] = x
       /\ \A i \in 1 .. m : longer[i] = last.attributes[i]
  BY <1>3, <1>4, <1>14, AppendProperties
<1>16. PICK last2 : last2 = [last EXCEPT !.attributes = longer]
  OBVIOUS
<1>17. /\ last2 \in Relations /\ last2.attributes = longer /\ last2.name = last.name
       /\ last2.segmentId = last.segmentId /\ last2.primaryKeys = last.primaryKeys
  BY <1>3, <1>15, <1>16 DEF Relations
<1>18. /\ schema' = schema /\ relations' = [relations EXCEPT ![n] = last2]
       /\ relationsLeft' = relationsLeft /\ attributesLeft' = attributesLeft - 1
       /\ stream' = SubSeq(stream, 4 + 1, Len(stream)) /\ schemaPc' = "attributes"
  <2>1. relations' = [relations EXCEPT ![n] = [relations[n] EXCEPT !.attributes =
                                                 Append(relations[n].attributes, x)]]
    BY <1>5, <1>13 DEF ReadAttribute
  <2>2. relations' = [relations EXCEPT ![n] = last2]
    BY <1>5, <1>14, <1>16, <2>1
  <2> QED
    BY <2>2 DEF ReadAttribute, Consume
<1>19. /\ relations' \in Seq(Relations) /\ Len(relations') = n /\ relations'[n] = last2
       /\ \A i \in 1 .. n - 1 : relations'[i] = relations[i]
  <2>1. relations' \in Seq(Relations) /\ Len(relations') = Len(relations)
    BY <1>3, <1>17, <1>18, ExceptSeq
  <2> QED
    BY <1>3, <1>5, <1>18, <2>1
<1>20. AgreeTo(n - 1)'
  BY <1>5, <1>18, <1>19 DEF AgreeTo
<1>21. Len(last2.attributes) = m + 1
  BY <1>15, <1>17
<1>22. pos + 4 = at[n - 1] + 3 + 4 * (m + 1)
  BY <1>3, <1>5, <1>6
<1>23. WithinRelation(at, pos + 4, n, last2, r)'
  <2>1. /\ n = Len(relations') /\ n \in 1 .. Len(schema') /\ relationsLeft' = Len(schema') - n + 1
        /\ last2 = relations'[n] /\ r = schema'[n]
    BY <1>3, <1>5, <1>18, <1>19
  <2>2. /\ last2.name = r.name /\ last2.segmentId = r.segmentId /\ last2.primaryKeys = <<>>
    BY <1>5, <1>17
  <2>3. m + 1 <= a /\ attributesLeft' = a - (m + 1)
    BY <1>5, <1>6, <1>18
  <2>4. ASSUME NEW i \in 1 .. m + 1 PROVE longer[i] = r.attributes[i]
    <3>1. i = m + 1 \/ i \in 1 .. m
      BY <1>6
    <3> QED
      BY <1>5, <1>12, <1>15, <3>1
  <2>5. /\ Len(last2.attributes) <= Len(r.attributes)
        /\ \A i \in 1 .. Len(last2.attributes) : last2.attributes[i] = r.attributes[i]
        /\ attributesLeft' = Len(r.attributes) - Len(last2.attributes)
    BY <1>4, <1>17, <1>21, <2>3, <2>4
  <2>6. pos + 4 = at[n - 1] + 3 + 4 * Len(last2.attributes)
    BY <1>21, <1>22
  <2> QED
    BY <1>20, <2>1, <2>2, <2>5, <2>6, Zenon DEF WithinRelation
<1>24. Rest(Serialize(schema), stream, pos + 4)'
  <2>1. 4 \in 0 .. Len(w) - e
    BY <1>8
  <2>2. Rest(Serialize(schema), SubSeq(stream, 4 + 1, Len(stream)), pos + 4)
    BY <1>10, <2>1, Zenon DEF AheadOf
  <2> QED
    BY <1>18, <2>2
<1>25. Reading(at, pos + 4)'
  <2>1. StreamOf(schema, at)'
    BY <1>3, <1>18
  <2> QED
    BY <1>18, <1>23, <1>24, <2>1 DEF Reading
<1> QED
  BY <1>3, <1>18, <1>19, <1>25 DEF SchemaInv

LEMMA ReadPrimaryKeysInv == SchemaInv /\ ReadPrimaryKeys => SchemaInv'
<1> SUFFICES ASSUME SchemaInv, ReadPrimaryKeys PROVE SchemaInv'
  OBVIOUS
<1>1. PICK at, pos : Reading(at, pos)
  BY DEF SchemaInv
<1>2. PICK n, last, r : WithinRelation(at, pos, n, last, r)
  BY <1>1 DEF Reading, ReadPrimaryKeys
<1>3. /\ schema \in Seq(Relations) /\ relations \in Seq(Relations)
      /\ StreamOf(schema, at) /\ Rest(Serialize(schema), stream, pos)
      /\ last \in Relations /\ r \in Relations
      /\ last.attributes \in Seq(Attributes) /\ r.attributes \in Seq(Attributes)
      /\ n \in 1 .. Len(schema) /\ n \in 1 .. Len(relations) /\ at[n - 1] \in Nat
      /\ Len(schema) \in Nat
  BY <1>1, <1>2, WithinFacts
<1>4. PICK m, a, w : /\ m = Len(last.attributes) /\ a = Len(r.attributes)
                     /\ w = SerializeRelation(r)
  OBVIOUS
<1>5. /\ n = Len(relations) /\ relationsLeft = Len(schema) - n + 1
      /\ last = relations[n] /\ r = schema[n] /\ AgreeTo(n - 1)
      /\ last.name = r.name /\ last.segmentId = r.segmentId /\ last.primaryKeys = <<>>
      /\ m <= a /\ \A i \in 1 .. m : last.attributes[i] = r.attributes[i]
      /\ attributesLeft = a - m
      /\ pos = at[n - 1] + 3 + 4 * m
  BY <1>2, <1>4 DEF WithinRelation
<1>6. m \in Nat /\ a \in Nat /\ m = a
  <2>1. m \in Nat /\ a \in Nat
    BY <1>3, <1>4, LenProperties
  <2> QED
    BY <1>5, <2>1 DEF ReadPrimaryKeys
<1>7. last.attributes = r.attributes
  BY <1>3, <1>4, <1>5, <1>6, SeqEqual
<1>8. PICK e, c, keys : e = 3 + 4 * a /\ c = Len(r.primaryKeys) /\ keys = r.primaryKeys
  OBVIOUS
<1>9. /\ e \in Nat /\ c \in Nat /\ Len(w) \in Nat /\ Len(w) = e + 1 + c
      /\ w[e + 1] = c /\ \A i \in 1 .. c : w[e + (1 + i)] = keys[i]
  <2>1. KeysAfter(r, w, e, c)
    BY <1>3, <1>4, <1>8, KeysAhead
  <2> QED
    BY <1>8, <2>1, Zenon DEF KeysAfter
<1>10. pos = at[n - 1] + e
  BY <1>3, <1>5, <1>6, <1>8
<1>11. AheadOf(schema, at, stream, pos, n, w, e)
  <2>1. e <= Len(SerializeRelation(schema[n])) /\ w = SerializeRelation(schema[n])
    BY <1>4, <1>5, <1>9
  <2> QED
    BY <1>3, <1>9, <1>10, <2>1, Ahead
<1>12. /\ stream \in Seq(Nat) /\ Len(stream) \in Nat /\ Len(stream) >= Len(w) - e
       /\ \A i \in 1 .. Len(w) - e : stream[i] = w[e + i]
       /\ at[n] = at[n - 1] + Len(w)
  BY <1>11, Zenon DEF AheadOf
<1>13. stream[1] = c /\ \A i \in 1 .. c : stream[1 + i] = keys[i]
  <2>1. 1 \in 1 .. Len(w) - e /\ \A i \in 1 .. c : 1 + i \in 1 .. Len(w) - e
    BY <1>9
  <2> QED
    BY <1>9, <1>12, <2>1
<1>14. PICK found : found = SubSeq(stream, 2, c + 1)
  OBVIOUS
<1>15. keys \in Seq(Nat) /\ Len(keys) = c
  BY <1>3, <1>8 DEF Relations
<1>16. found = keys
  <2>1. c + 1 <= Len(stream)
    BY <1>9, <1>12
  <2>2. \A i \in 2 .. c + 1 : stream[i] \in Nat
    BY <1>9, <1>12, <2>1
  <2>3. /\ found \in Seq(Nat)
        /\ Len(found) = IF 2 <= c + 1 THEN (c + 1) - 2 + 1 ELSE 0
        /\ \A i \in 1 .. (c + 1) - 2 + 1 : found[i] = stream[2 + i - 1]
    BY <1>9, <1>12, <1>14, <2>2, SubSeqProperties
  <2>4. Len(found) = c
    BY <1>9, <2>3
  <2>5. ASSUME NEW i \in 1 .. c PROVE found[i] = keys[i]
    <3>1. 2 + i - 1 = 1 + i /\ i \in 1 .. (c + 1) - 2 + 1
      BY <1>9
    <3> QED
      BY <1>13, <2>3, <3>1
  <2> QED
    BY <1>15, <2>3, <2>4, <2>5, SeqEqual
<1>17. PICK last2 : last2 = [last EXCEPT !.primaryKeys = found]
  OBVIOUS
<1>18. last2 = r
  <2>1. /\ last2.name = r.name /\ last2.segmentId = r.segmentId
        /\ last2.attributes = r.attributes /\ last2.primaryKeys = r.primaryKeys
        /\ last2 = [name |-> last2.name, segmentId |-> last2.segmentId,
                    attributes |-> last2.attributes, primaryKeys |-> last2.primaryKeys]
    BY <1>3, <1>5, <1>7, <1>8, <1>16, <1>17 DEF Relations
  <2>2. r = [name |-> r.name, segmentId |-> r.segmentId,
             attributes |-> r.attributes, primaryKeys |-> r.primaryKeys]
    BY <1>3 DEF Relations
  <2> QED
    BY <2>1, <2>2
<1>19. /\ schema' = schema /\ relations' = [relations EXCEPT ![n] = r]
       /\ relationsLeft' = relationsLeft - 1
       /\ stream' = SubSeq(stream, (c + 1) + 1, Len(stream)) /\ schemaPc' = "relation"
  <2>1. relations' = [relations EXCEPT ![n] = [relations[n] EXCEPT !.primaryKeys = found]]
    BY <1>5, <1>13, <1>14 DEF ReadPrimaryKeys
  <2>2. relations' = [relations EXCEPT ![n] = r]
    BY <1>5, <1>17, <1>18, <2>1
  <2> QED
    BY <1>13, <2>2 DEF ReadPrimaryKeys, Consume
<1>20. /\ relations' \in Seq(Relations) /\ Len(relations') = n /\ relations'[n] = r
       /\ \A i \in 1 .. n - 1 : relations'[i] = relations[i]
  <2>1. relations' \in Seq(Relations) /\ Len(relations') = Len(relations)
    BY <1>3, <1>19, ExceptSeq
  <2> QED
    BY <1>3, <1>5, <1>19, <2>1
<1>21. ASSUME NEW i \in 1 .. n PROVE relations'[i] = schema'[i]
  <2>1. i = n \/ i \in 1 .. n - 1
    BY <1>3
  <2> QED
    BY <1>5, <1>19, <1>20, <2>1 DEF AgreeTo
<1>22. pos + (c + 1) = at[n]
  BY <1>3, <1>9, <1>10, <1>12
<1>23. BetweenRelations(at, pos + (c + 1))'
  <2>1. AgreeTo(n)'
    BY <1>21 DEF AgreeTo
  <2>2. relationsLeft' = Len(schema') - n /\ n <= Len(schema')
    BY <1>3, <1>5, <1>19
  <2> QED
    BY <1>20, <1>22, <2>1, <2>2, Zenon DEF BetweenRelations
<1>24. Rest(Serialize(schema), stream, pos + (c + 1))'
  <2>1. c + 1 \in 0 .. Len(w) - e
    BY <1>9
  <2>2. Rest(Serialize(schema), SubSeq(stream, (c + 1) + 1, Len(stream)), pos + (c + 1))
    BY <1>11, <2>1, Zenon DEF AheadOf
  <2> QED
    BY <1>19, <2>2
<1>25. Reading(at, pos + (c + 1))'
  <2>1. StreamOf(schema, at)'
    BY <1>3, <1>19
  <2> QED
    BY <1>19, <1>23, <1>24, <2>1 DEF Reading
<1> QED
  BY <1>3, <1>19, <1>20, <1>25 DEF SchemaInv

LEMMA SchemaIsReadInv == SchemaInv /\ SchemaIsRead => SchemaInv'
<1> SUFFICES ASSUME SchemaInv, SchemaIsRead PROVE SchemaInv'
  OBVIOUS
<1>1. PICK at, pos : Reading(at, pos)
  BY DEF SchemaInv
<1>2. /\ schema \in Seq(Relations) /\ relations \in Seq(Relations) /\ StreamOf(schema, at)
      /\ Rest(Serialize(schema), stream, pos) /\ BetweenRelations(at, pos)
  BY <1>1 DEF SchemaInv, Reading, SchemaIsRead
<1>3. /\ schema' = schema /\ relations' = relations /\ stream' = stream /\ schemaPc' = "read"
      /\ relationsLeft = 0
  BY DEF SchemaIsRead
<1>4. Len(relations) \in Nat /\ Len(schema) \in Nat
  BY <1>2, LenProperties
<1>5. /\ relationsLeft = Len(schema) - Len(relations) /\ pos = at[Len(relations)]
      /\ \A i \in 1 .. Len(relations) : relations[i] = schema[i]
  BY <1>2 DEF BetweenRelations, AgreeTo
<1>6. Len(relations) = Len(schema)
  BY <1>3, <1>4, <1>5
<1>7. relations = schema
  BY <1>2, <1>5, <1>6, SeqEqual
<1>8. pos = Len(Serialize(schema))
  BY <1>2, <1>5, <1>6, StreamBounds
<1>9. stream \in Seq(Nat) /\ Len(stream) = 0
  <2>1. stream \in Seq(Nat) /\ Len(stream) = Len(Serialize(schema)) - pos /\ pos \in Nat
    BY <1>2, <1>8, StreamBounds DEF Rest
  <2> QED
    BY <1>8, <2>1
<1>10. stream = <<>>
  BY <1>9, EmptySeq
<1>11. Reading(at, pos)'
  <2>1. StreamOf(schema, at)' /\ Rest(Serialize(schema), stream, pos)'
    BY <1>2, <1>3
  <2> QED
    BY <1>3, <1>7, <1>10, <2>1 DEF Reading
<1> QED
  BY <1>2, <1>3, <1>11 DEF SchemaInv

LEMMA SchemaStep == SchemaInv /\ [SchemaNext]_schemaVars => SchemaInv'
<1> SUFFICES ASSUME SchemaInv, [SchemaNext]_schemaVars PROVE SchemaInv'
  OBVIOUS
<1>1. CASE UNCHANGED schemaVars
  <2>1. PICK at, pos : Reading(at, pos)
    BY DEF SchemaInv
  <2>2. /\ schema' = schema /\ stream' = stream /\ relations' = relations /\ schemaPc' = schemaPc
        /\ relationsLeft' = relationsLeft /\ attributesLeft' = attributesLeft
    BY <1>1 DEF schemaVars
  <2>3. StreamOf(schema, at)' /\ Rest(Serialize(schema), stream, pos)'
    BY <2>1, <2>2 DEF Reading
  <2>4. BetweenRelations(at, pos)' <=> BetweenRelations(at, pos)
    BY <2>2 DEF BetweenRelations, AgreeTo
  <2>5. ASSUME NEW n, NEW last, NEW r, WithinRelation(at, pos, n, last, r)
        PROVE  WithinRelation(at, pos, n, last, r)'
    BY <2>2, <2>5 DEF WithinRelation, AgreeTo
  <2>6. Reading(at, pos)'
    <3>1. schemaPc \in {"schema", "relation", "attributes", "read"}
      BY <2>1 DEF Reading
    <3>2. CASE schemaPc = "attributes"
      <4>1. PICK n, last, r : WithinRelation(at, pos, n, last, r)
        BY <2>1, <3>2 DEF Reading
      <4>2. WithinRelation(at, pos, n, last, r)'
        BY <2>5, <4>1
      <4> QED
        BY <2>2, <2>3, <3>2, <4>2 DEF Reading
    <3>3. CASE schemaPc # "attributes"
      BY <2>1, <2>2, <2>3, <2>4, <3>1, <3>3 DEF Reading
    <3> QED
      BY <3>2, <3>3
  <2> QED
    BY <2>2, <2>6 DEF SchemaInv
<1> QED
  BY <1>1, ReadSchemaInv, ReadRelationInv, ReadAttributeInv, ReadPrimaryKeysInv, SchemaIsReadInv
  DEF SchemaNext

LEMMA SchemaInvIsRestored == SchemaInv => SchemaIsRestored
BY DEF SchemaInv, Reading, SchemaIsRestored

\* Whatever relations, attributes and primary keys a schema has, it is read from its stream as
\* it was written, and the stream is read to its end.
THEOREM ReadingRestores == SchemaSpec => []SchemaIsRestored
<1>1. SchemaSpec => []SchemaInv
  BY SchemaInitInv, SchemaStep, PTL DEF SchemaSpec
<1> QED
  BY <1>1, SchemaInvIsRestored, PTL

---------------------------------------------------------------------------
(* The join.  L and R are the left and the right tuples, H the hash table. *)

\* Entry k of the table is left tuple l[k][1] as opening l[k][2] has put it there.  It is
\* selected.  Each opening before o has put every selected tuple there, and o those of the
\* first n left tuples, once.
Table(H, L, nl, l, n, o) ==
  /\ nl \in Nat /\ n \in 0 .. nl /\ o \in Nat /\ H \in Seq({L[i] : i \in 1 .. nl})
  /\ l \in [1 .. Len(H) -> (1 .. nl) \X (1 .. o)]
  /\ \A k \in 1 .. Len(H) : /\ H[k] = L[l[k][1]] /\ Selected(L[l[k][1]])
                            /\ l[k][2] = o => l[k][1] <= n
  /\ \A i \in 1 .. nl, v \in 1 .. o :
       Selected(L[i]) /\ (v < o \/ i <= n) => \E k \in 1 .. Len(H) : l[k] = <<i, v>>
  /\ \A j, k \in 1 .. Len(H) : l[j] = l[k] => j = k

Partners(H, t) ==
  {k \in 1 .. Len(H) : Register(H[k], JoinLeft) = Register(t, JoinRight)}

\* Row i is of entry f[i][1] of the table and right tuple f[i][2].  The rows are those of the
\* first s right tuples, without the ones that s and the entries in P have yet to give.
Progress(H, R, nr, rs, f, s, P) ==
  /\ nr \in Nat /\ s \in 0 .. nr /\ P \subseteq Partners(H, R[s])
  /\ Len(H) \in Nat /\ (s = 0 => P = {})
  /\ rs \in Seq({Project(H[p[1]] \o R[p[2]]) : p \in (1 .. Len(H)) \X (1 .. nr)})
  /\ f \in [1 .. Len(rs) -> (1 .. Len(H)) \X (1 .. nr)]
  /\ \A i \in 1 .. Len(rs) :
       /\ rs[i] = Project(H[f[i][1]] \o R[f[i][2]])
       /\ f[i][1] \in Partners(H, R[f[i][2]])
       /\ f[i][2] < s \/ (f[i][2] = s /\ f[i][1] \notin P)
  /\ \A i, j \in 1 .. Len(rs) : f[i] = f[j] => i = j
  /\ \A j \in 1 .. nr : \A k \in Partners(H, R[j]) :
       j < s \/ (j = s /\ k \notin P) => \E i \in 1 .. Len(rs) : f[i] = <<k, j>>

LEMMA TableBegins ==
  ASSUME NEW H, NEW L, NEW nl, NEW l, NEW o, Table(H, L, nl, l, nl, o)
  PROVE  Table(H, L, nl, l, 0, o + 1)
<1>1. /\ nl \in Nat /\ o \in Nat /\ H \in Seq({L[i] : i \in 1 .. nl}) /\ Len(H) \in Nat
      /\ l \in [1 .. Len(H) -> (1 .. nl) \X (1 .. o)]
  BY LenProperties DEF Table
<1>2. l \in [1 .. Len(H) -> (1 .. nl) \X (1 .. o + 1)]
  <2>1. (1 .. nl) \X (1 .. o) \subseteq (1 .. nl) \X (1 .. o + 1)
    BY <1>1
  <2> QED
    BY <1>1, <2>1
<1>3. ASSUME NEW k \in 1 .. Len(H) PROVE l[k][2] # o + 1
  <2>1. l[k][2] \in 1 .. o
    BY <1>1
  <2> QED
    BY <1>1, <2>1
<1>4. ASSUME NEW i \in 1 .. nl, NEW v \in 1 .. o + 1, Selected(L[i]), v < o + 1 \/ i <= 0
      PROVE  \E k \in 1 .. Len(H) : l[k] = <<i, v>>
  <2>1. v \in 1 .. o /\ i <= nl
    BY <1>1, <1>4
  <2> QED
    BY <1>4, <2>1 DEF Table
<1>5. 0 \in 0 .. nl /\ o + 1 \in Nat
  BY <1>1
<1>6. /\ \A k \in 1 .. Len(H) : H[k] = L[l[k][1]] /\ Selected(L[l[k][1]])
      /\ \A j, k \in 1 .. Len(H) : l[j] = l[k] => j = k
  BY DEF Table
<1> QED
  BY <1>1, <1>2, <1>3, <1>4, <1>5, <1>6 DEF Table

LEMMA TableSkips ==
  ASSUME NEW H, NEW L, NEW nl, NEW l, NEW n, NEW o, Table(H, L, nl, l, n, o), n < nl,
         ~ Selected(L[n + 1])
  PROVE  Table(H, L, nl, l, n + 1, o)
<1>1. n \in Nat /\ nl \in Nat /\ n + 1 \in 0 .. nl /\ Len(H) \in Nat /\ o \in Nat
      /\ l \in [1 .. Len(H) -> (1 .. nl) \X (1 .. o)] /\ H \in Seq({L[i] : i \in 1 .. nl})
  BY LenProperties DEF Table
<1>2. ASSUME NEW i \in 1 .. nl, NEW v \in 1 .. o, Selected(L[i]), v < o \/ i <= n + 1
      PROVE  \E k \in 1 .. Len(H) : l[k] = <<i, v>>
  <2>1. i # n + 1
    BY <1>2
  <2>2. v < o \/ i <= n
    BY <1>1, <1>2, <2>1
  <2> QED
    BY <1>2, <2>2 DEF Table
<1>3. ASSUME NEW k \in 1 .. Len(H), l[k][2] = o PROVE l[k][1] <= n + 1
  <2>1. l[k][1] <= n
    BY <1>3 DEF Table
  <2>2. l[k][1] \in Nat
    BY <1>1
  <2> QED
    BY <1>1, <2>1, <2>2
<1>4. /\ \A k \in 1 .. Len(H) : H[k] = L[l[k][1]] /\ Selected(L[l[k][1]])
      /\ \A j, k \in 1 .. Len(H) : l[j] = l[k] => j = k
  BY DEF Table
<1> QED
  BY <1>1, <1>2, <1>3, <1>4 DEF Table

LEMMA TableGrows ==
  ASSUME NEW H, NEW L, NEW nl, NEW l, NEW n, NEW o, Table(H, L, nl, l, n, o), n < nl, o # 0,
         Selected(L[n + 1])
  PROVE  \E l2 : Table(Append(H, L[n + 1]), L, nl, l2, n + 1, o)
<1>1. n \in Nat /\ nl \in Nat /\ n + 1 \in 1 .. nl /\ Len(H) \in Nat /\ o \in 1 .. o /\ o \in Nat
  BY LenProperties DEF Table
<1>2. PICK h : h = Len(H)
  OBVIOUS
<1>3. PICK H2 : H2 = Append(H, L[n + 1])
  OBVIOUS
<1>4. /\ H2 \in Seq({L[i] : i \in 1 .. nl}) /\ Len(H2) = h + 1 /\ H2[h + 1] = L[n + 1]
      /\ \A k \in 1 .. h : H2[k] = H[k]
  <2>1. H \in Seq({L[i] : i \in 1 .. nl}) /\ L[n + 1] \in {L[i] : i \in 1 .. nl}
    BY <1>1 DEF Table
  <2> QED
    BY <1>2, <1>3, <2>1, AppendProperties
<1>5. /\ l \in [1 .. h -> (1 .. nl) \X (1 .. o)]
      /\ \A k \in 1 .. h : /\ H[k] = L[l[k][1]] /\ Selected(L[l[k][1]])
                           /\ l[k][2] = o => l[k][1] <= n
      /\ \A i \in 1 .. nl, v \in 1 .. o :
           Selected(L[i]) /\ (v < o \/ i <= n) => \E k \in 1 .. h : l[k] = <<i, v>>
      /\ \A j, k \in 1 .. h : l[j] = l[k] => j = k
  BY <1>2 DEF Table
<1>6. PICK l2 : l2 = [k \in 1 .. h + 1 |-> IF k = h + 1 THEN <<n + 1, o>> ELSE l[k]]
  OBVIOUS
<1>7. l2[h + 1] = <<n + 1, o>> /\ \A k \in 1 .. h : l2[k] = l[k]
  BY <1>1, <1>2, <1>6
<1>8. l2 \in [1 .. h + 1 -> (1 .. nl) \X (1 .. o)]
  <2>1. \A k \in 1 .. h + 1 : k = h + 1 \/ k \in 1 .. h
    BY <1>1, <1>2
  <2>2. <<n + 1, o>> \in (1 .. nl) \X (1 .. o)
    BY <1>1
  <2> QED
    BY <1>5, <1>6, <2>1, <2>2
<1>9. ASSUME NEW k \in 1 .. h + 1
      PROVE  /\ H2[k] = L[l2[k][1]] /\ Selected(L[l2[k][1]])
             /\ l2[k][2] = o => l2[k][1] <= n + 1
  <2>1. CASE k = h + 1
    <3>1. l2[k][1] = n + 1
      BY <1>7, <2>1
    <3> QED
      BY <1>1, <1>4, <2>1, <3>1
  <2>2. CASE k # h + 1
    <3>1. k \in 1 .. h
      BY <1>1, <1>2, <2>2
    <3>2. l2[k] = l[k] /\ H2[k] = H[k] /\ l[k][1] \in Nat
      BY <1>4, <1>5, <1>7, <3>1
    <3>3. l[k][2] = o => l[k][1] <= n
      BY <1>5, <3>1
    <3>4. l[k][2] = o => l[k][1] <= n + 1
      BY <1>1, <3>2, <3>3
    <3> QED
      BY <1>5, <3>1, <3>2, <3>4
  <2> QED
    BY <2>1, <2>2
<1>10. ASSUME NEW i \in 1 .. nl, NEW v \in 1 .. o, Selected(L[i]), v < o \/ i <= n + 1
       PROVE  \E k \in 1 .. h + 1 : l2[k] = <<i, v>>
  <2>1. CASE i = n + 1 /\ v = o
    <3>1. h + 1 \in 1 .. h + 1
      BY <1>1, <1>2
    <3> QED
      BY <1>7, <2>1, <3>1
  <2>2. CASE ~(i = n + 1 /\ v = o)
    <3>1. v < o \/ i <= n
      BY <1>1, <1>10, <2>2
    <3>2. PICK k \in 1 .. h : l[k] = <<i, v>>
      BY <1>5, <1>10, <3>1
    <3>3. k \in 1 .. h + 1
      BY <1>1, <1>2
    <3> QED
      BY <1>7, <3>2, <3>3
  <2> QED
    BY <2>1, <2>2
<1>11. ASSUME NEW k \in 1 .. h PROVE l[k] # <<n + 1, o>>
  <2>1. SUFFICES ASSUME l[k] = <<n + 1, o>> PROVE FALSE
    OBVIOUS
  <2>2. l[k][1] = n + 1 /\ l[k][2] = o
    BY <2>1
  <2>3. n + 1 <= n
    BY <1>5, <2>2
  <2> QED
    BY <1>1, <2>3
<1>12. ASSUME NEW j \in 1 .. h + 1, NEW k \in 1 .. h + 1, l2[j] = l2[k] PROVE j = k
  <2>1. /\ j = h + 1 \/ j \in 1 .. h
        /\ k = h + 1 \/ k \in 1 .. h
    BY <1>1, <1>2
  <2> QED
    BY <1>5, <1>7, <1>11, <1>12, <2>1
<1>13. Table(H2, L, nl, l2, n + 1, o)
  <2>1. n + 1 \in 0 .. nl
    BY <1>1
  <2>2. l2 \in [1 .. Len(H2) -> (1 .. nl) \X (1 .. o)]
    BY <1>4, <1>8
  <2>3. \A k \in 1 .. Len(H2) : /\ H2[k] = L[l2[k][1]] /\ Selected(L[l2[k][1]])
                                /\ l2[k][2] = o => l2[k][1] <= n + 1
    BY <1>4, <1>9
  <2>4. \A i \in 1 .. nl, v \in 1 .. o :
          Selected(L[i]) /\ (v < o \/ i <= n + 1) => \E k \in 1 .. Len(H2) : l2[k] = <<i, v>>
    BY <1>4, <1>10
  <2>5. \A j, k \in 1 .. Len(H2) : l2[j] = l2[k] => j = k
    BY <1>4, <1>12
  <2> QED
    BY <1>1, <1>4, <2>1, <2>2, <2>3, <2>4, <2>5 DEF Table
<1> QED
  BY <1>3, <1>13

LEMMA ProgressBegins ==
  ASSUME NEW H, Len(H) \in Nat, NEW R, NEW nr \in Nat
  PROVE  \E f : Progress(H, R, nr, <<>>, f, 0, {})
<1>1. PICK f : f = [i \in 1 .. 0 |-> 0]
  OBVIOUS
<1>2. Len(<<>>) = 0 /\ <<>> \in Seq({Project(H[p[1]] \o R[p[2]]) : p \in (1 .. Len(H)) \X (1 .. nr)})
  BY EmptySeq
<1>3. f \in [1 .. Len(<<>>) -> (1 .. Len(H)) \X (1 .. nr)]
  BY <1>1, <1>2
<1>4. Progress(H, R, nr, <<>>, f, 0, {})
  BY <1>2, <1>3 DEF Progress
<1> QED
  BY <1>4

\* The next right tuple is read: it has all its rows yet to give.
LEMMA ProgressReads ==
  ASSUME NEW H, NEW R, NEW nr, NEW rs, NEW f, NEW s, Progress(H, R, nr, rs, f, s, {}), s < nr
  PROVE  Progress(H, R, nr, rs, f, s + 1, Partners(H, R[s + 1]))
<1>1. nr \in Nat /\ s \in Nat /\ s + 1 \in 1 .. nr /\ Len(H) \in Nat /\ Len(rs) \in Nat
  BY LenProperties DEF Progress
<1>2. ASSUME NEW i \in 1 .. Len(rs) PROVE f[i][2] < s + 1
  <2>1. f[i][2] \in 1 .. nr /\ (f[i][2] < s \/ f[i][2] = s)
    BY DEF Progress
  <2> QED
    BY <1>1, <2>1
<1>3. ASSUME NEW j \in 1 .. nr, NEW k \in Partners(H, R[j]),
             j < s + 1 \/ (j = s + 1 /\ k \notin Partners(H, R[s + 1]))
      PROVE  \E i \in 1 .. Len(rs) : f[i] = <<k, j>>
  <2>1. j < s \/ j = s
    BY <1>1, <1>3
  <2> QED
    BY <2>1 DEF Progress
<1>4. PICK P : P = Partners(H, R[s + 1])
  OBVIOUS
<1>5. /\ rs \in Seq({Project(H[p[1]] \o R[p[2]]) : p \in (1 .. Len(H)) \X (1 .. nr)})
      /\ f \in [1 .. Len(rs) -> (1 .. Len(H)) \X (1 .. nr)]
      /\ \A i \in 1 .. Len(rs) :
           /\ rs[i] = Project(H[f[i][1]] \o R[f[i][2]])
           /\ f[i][1] \in Partners(H, R[f[i][2]])
      /\ \A i, j \in 1 .. Len(rs) : f[i] = f[j] => i = j
  BY DEF Progress
<1>6. s + 1 \in 0 .. nr /\ (s + 1 = 0 => P = {})
  BY <1>1
<1>7. \A i \in 1 .. Len(rs) : f[i][2] < s + 1 \/ (f[i][2] = s + 1 /\ f[i][1] \notin P)
  BY <1>2
<1>8. \A j \in 1 .. nr : \A k \in Partners(H, R[j]) :
        j < s + 1 \/ (j = s + 1 /\ k \notin P) => \E i \in 1 .. Len(rs) : f[i] = <<k, j>>
  BY <1>3, <1>4
<1>9. Progress(H, R, nr, rs, f, s + 1, P)
  BY <1>1, <1>4, <1>5, <1>6, <1>7, <1>8, Zenon DEF Progress
<1> QED
  BY <1>4, <1>9

\* Entry k of the table is joined to right tuple s.
LEMMA ProgressJoins ==
  ASSUME NEW H, NEW R, NEW nr, NEW rs, NEW f, NEW s, NEW P, Progress(H, R, nr, rs, f, s, P),
         NEW k \in P
  PROVE  \E g : Progress(H, R, nr, Append(rs, Project(H[k] \o R[s])), g, s, P \ {k})
<1> DEFINE Joins == {Project(H[p[1]] \o R[p[2]]) : p \in (1 .. Len(H)) \X (1 .. nr)}
<1>1. /\ nr \in Nat /\ s \in 1 .. nr /\ Len(H) \in Nat /\ Len(rs) \in Nat
      /\ k \in Partners(H, R[s]) /\ k \in 1 .. Len(H)
  BY LenProperties DEF Progress, Partners
<1>2. PICK c, row : c = Len(rs) /\ row = Project(H[k] \o R[s])
  OBVIOUS
<1>3. PICK rs2 : rs2 = Append(rs, row)
  OBVIOUS
<1>4. /\ rs2 \in Seq(Joins) /\ Len(rs2) = c + 1 /\ rs2[c + 1] = row
      /\ \A i \in 1 .. c : rs2[i] = rs[i]
  <2>1. rs \in Seq(Joins)
    BY DEF Progress
  <2>2. row \in Joins
    <3>1. PICK p : p = <<k, s>>
      OBVIOUS
    <3>2. p \in (1 .. Len(H)) \X (1 .. nr) /\ row = Project(H[p[1]] \o R[p[2]])
      BY <1>1, <1>2, <3>1
    <3> QED
      BY <3>2
  <2> HIDE DEF Joins
  <2> QED
    BY <1>2, <1>3, <2>1, <2>2, AppendProperties
<1> HIDE DEF Joins
<1>5. /\ f \in [1 .. c -> (1 .. Len(H)) \X (1 .. nr)]
      /\ \A i \in 1 .. c :
           /\ rs[i] = Project(H[f[i][1]] \o R[f[i][2]])
           /\ f[i][1] \in Partners(H, R[f[i][2]])
           /\ f[i][2] < s \/ (f[i][2] = s /\ f[i][1] \notin P)
      /\ \A i, j \in 1 .. c : f[i] = f[j] => i = j
      /\ \A j \in 1 .. nr : \A x \in Partners(H, R[j]) :
           j < s \/ (j = s /\ x \notin P) => \E i \in 1 .. c : f[i] = <<x, j>>
  BY <1>2 DEF Progress
<1>6. PICK g : g = [i \in 1 .. c + 1 |-> IF i = c + 1 THEN <<k, s>> ELSE f[i]]
  OBVIOUS
<1>7. g[c + 1] = <<k, s>> /\ \A i \in 1 .. c : g[i] = f[i]
  BY <1>1, <1>2, <1>6
<1>8. g \in [1 .. c + 1 -> (1 .. Len(H)) \X (1 .. nr)]
  <2>1. \A i \in 1 .. c + 1 : i = c + 1 \/ i \in 1 .. c
    BY <1>1, <1>2
  <2>2. <<k, s>> \in (1 .. Len(H)) \X (1 .. nr)
    BY <1>1
  <2> QED
    BY <1>5, <1>6, <2>1, <2>2
<1>9. ASSUME NEW i \in 1 .. c + 1
      PROVE  /\ rs2[i] = Project(H[g[i][1]] \o R[g[i][2]])
             /\ g[i][1] \in Partners(H, R[g[i][2]])
             /\ g[i][2] < s \/ (g[i][2] = s /\ g[i][1] \notin P \ {k})
  <2>1. CASE i = c + 1
    <3>1. g[i][1] = k /\ g[i][2] = s
      BY <1>7, <2>1
    <3> QED
      BY <1>1, <1>2, <1>4, <2>1, <3>1
  <2>2. CASE i # c + 1
    <3>1. i \in 1 .. c
      BY <1>1, <1>2, <2>2
    <3> QED
      BY <1>4, <1>5, <1>7, <3>1
  <2> QED
    BY <2>1, <2>2
<1>10. ASSUME NEW i \in 1 .. c PROVE f[i] # <<k, s>>
  <2>1. f[i][2] < s \/ (f[i][2] = s /\ f[i][1] \notin P)
    BY <1>5
  <2>2. f[i] = <<k, s>> => f[i][1] = k /\ f[i][2] = s
    OBVIOUS
  <2>3. ~(s < s)
    BY <1>1
  <2> QED
    BY <2>1, <2>2, <2>3
<1>11. ASSUME NEW i \in 1 .. c + 1, NEW j \in 1 .. c + 1, g[i] = g[j] PROVE i = j
  <2>1. /\ i = c + 1 \/ i \in 1 .. c
        /\ j = c + 1 \/ j \in 1 .. c
    BY <1>1, <1>2
  <2> QED
    BY <1>5, <1>7, <1>10, <1>11, <2>1
<1>12. ASSUME NEW j \in 1 .. nr, NEW x \in Partners(H, R[j]),
              j < s \/ (j = s /\ x \notin P \ {k})
       PROVE  \E i \in 1 .. c + 1 : g[i] = <<x, j>>
  <2>1. CASE j = s /\ x = k
    <3>1. c + 1 \in 1 .. c + 1
      BY <1>1, <1>2
    <3> QED
      BY <1>7, <2>1, <3>1
  <2>2. CASE ~(j = s /\ x = k)
    <3>1. j < s \/ (j = s /\ x \notin P)
      BY <1>12, <2>2
    <3>2. PICK i \in 1 .. c : f[i] = <<x, j>>
      BY <1>5, <3>1
    <3>3. i \in 1 .. c + 1
      BY <1>1, <1>2
    <3> QED
      BY <1>7, <3>2, <3>3
  <2> QED
    BY <2>1, <2>2
<1>13. P \ {k} \subseteq Partners(H, R[s]) /\ s \in 0 .. nr /\ s # 0
  BY <1>1 DEF Progress
<1>14. Progress(H, R, nr, rs2, g, s, P \ {k})
  BY <1>1, <1>4, <1>8, <1>9, <1>11, <1>12, <1>13 DEF Progress, Joins
<1> QED
  BY <1>2, <1>3, <1>14

---------------------------------------------------------------------------
(* The plan *)

TuplesAre(L, nl, R, nr) ==
  /\ nl \in Nat /\ DOMAIN segments[Left] = 1 .. nl /\ Len(segments[Left]) = nl
  /\ nr \in Nat /\ DOMAIN segments[Right] = 1 .. nr /\ Len(segments[Right]) = nr
  /\ \A i \in 1 .. nl : L[i] = RegistersOf(Left, i)
  /\ \A i \in 1 .. nr : R[i] = RegistersOf(Right, i)

Stage(nl, R, nr, n, s, P) ==
  /\ planPc = "build" => scan = <<n, -1>> /\ rows = <<>>
  /\ planPc # "build" => n = nl
  /\ planPc \in {"open", "next", "exhausted"} => scan = <<-1, s>>
  /\ planPc = "open" /\ rightTuple = <<>> => P = {}
  /\ planPc = "open" /\ rightTuple # <<>> => rightTuple = R[s] /\ matches = P /\ P # {}
  /\ planPc = "next" => P = {}
  /\ planPc = "exhausted" => P = {} /\ s = nr

\* The table holds what the scan of the left input has passed, the rows are what the scan of
\* the right one has been joined to, and the entries that are left of the iterator are those
\* that the last right tuple has yet to be joined to.
Joining(L, nl, R, nr, l, n, f, s, P) ==
  /\ TuplesAre(L, nl, R, nr)
  /\ Table(hashTable, L, nl, l, n, opens)
  /\ Progress(hashTable, R, nr, rows, f, s, P)
  /\ Stage(nl, R, nr, n, s, P)

PlanInv ==
  /\ SchemaInv
  /\ opens \in Nat /\ (opens = 0 => planPc = "closed" /\ hashTable = <<>>)
  /\ planPc \in {"closed", "build", "open", "next", "exhausted"}
  /\ planPc # "closed" => schemaPc = "read" /\ schema = PlanSchema
  /\ planPc = "closed" => scan = <<-1, -1>>
  /\ planPc \in {"closed", "build"} => rightTuple = <<>>
  /\ \E L, nl, R, nr, l, n, f, s, P : Joining(L, nl, R, nr, l, n, f, s, P)

LEMMA PlanInitInv == QueryInit => PlanInv
<1> SUFFICES ASSUME QueryInit PROVE PlanInv
  OBVIOUS
<1>1. /\ SchemaInit /\ scan = <<-1, -1>> /\ hashTable = <<>> /\ rightTuple = <<>> /\ rows = <<>>
      /\ opens = 0 /\ planPc = "closed"
      /\ segments \in IF schema = PlanSchema THEN Employees \X Countries ELSE {<< <<>>, <<>> >>}
  BY DEF QueryInit
<1>2. SchemaInv
  BY <1>1, SchemaInitInv
<1>3. segments[1] \in Seq(Seq(Nat)) /\ segments[2] \in Seq(Seq(Nat))
  <2>1. PICK T : T = Seq(Seq(Nat))
    OBVIOUS
  <2>2. <<>> \in T /\ Employees \subseteq T /\ Countries \subseteq T
    BY <2>1, EmptySeq, TablesAssumption
  <2>3. CASE schema = PlanSchema
    BY <1>1, <2>1, <2>2, <2>3
  <2>4. CASE schema # PlanSchema
    <3>1. segments = << <<>>, <<>> >>
      BY <1>1, <2>4
    <3> QED
      BY <2>1, <2>2, <3>1
  <2> QED
    BY <2>3, <2>4
<1>4. PICK nl, nr, L, R : /\ nl = Len(segments[1]) /\ L = [i \in 1 .. nl |-> RegistersOf(1, i)]
                          /\ nr = Len(segments[2]) /\ R = [i \in 1 .. nr |-> RegistersOf(2, i)]
  OBVIOUS
<1>5. nl \in Nat /\ nr \in Nat /\ DOMAIN segments[1] = 1 .. nl /\ DOMAIN segments[2] = 1 .. nr
  BY <1>3, <1>4, LenProperties
<1>6. TuplesAre(L, nl, R, nr)
  BY <1>4, <1>5 DEF TuplesAre, Left, Right
<1>7. PICK l : l = [i \in 1 .. 0 |-> 0]
  OBVIOUS
<1>8. /\ Len(<<>>) = 0 /\ <<>> \in Seq({L[i] : i \in 1 .. nl})
      /\ l \in [1 .. Len(<<>>) -> (1 .. nl) \X (1 .. 0)]
  BY <1>7, EmptySeq
<1>9. Table(<<>>, L, nl, l, nl, 0)
  <2>1. \A v \in 1 .. 0 : FALSE
    OBVIOUS
  <2>2. nl \in 0 .. nl /\ 0 \in Nat
    BY <1>5
  <2> QED
    BY <1>5, <1>8, <2>1, <2>2 DEF Table
<1>10. PICK f : Progress(<<>>, R, nr, <<>>, f, 0, {})
  <2>1. Len(<<>>) \in Nat
    OBVIOUS
  <2> QED
    BY <1>5, <2>1, ProgressBegins
<1>11. Stage(nl, R, nr, nl, 0, {})
  BY <1>1 DEF Stage
<1>12. Joining(L, nl, R, nr, l, nl, f, 0, {})
  BY <1>1, <1>6, <1>9, <1>10, <1>11 DEF Joining
<1>13. 0 \in Nat
  OBVIOUS
<1> QED
  BY <1>1, <1>2, <1>12, <1>13, Zenon DEF PlanInv

\* Outside the reading of the schema it stays as it is.
LEMMA SchemaStays == SchemaInv /\ UNCHANGED schemaVars => SchemaInv'
BY SchemaStep

LEMMA TuplesStay ==
  ASSUME UNCHANGED segments, NEW L, NEW nl, NEW R, NEW nr, TuplesAre(L, nl, R, nr)
  PROVE  TuplesAre(L, nl, R, nr)'
BY DEF TuplesAre, RegistersOf

\* What a scan gives out are the registers of the record that it has reached.
LEMMA ScanGives ==
  ASSUME PlanInv, planPc # "closed", NEW L, NEW nl, NEW R, NEW nr, TuplesAre(L, nl, R, nr)
  PROVE  /\ \A i \in 1 .. nl : scan[Left] + 1 = i => ScanOutput(Left) = L[i]
         /\ \A i \in 1 .. nr : scan[Right] + 1 = i => ScanOutput(Right) = R[i]
<1>1. relations = PlanSchema
  BY DEF PlanInv, SchemaInv, Reading
<1> QED
  BY <1>1 DEF ScanOutput, TuplesAre, RegistersOf

LEMMA TuplesAreNotEmpty ==
  ASSUME NEW L, NEW nl, NEW R, NEW nr, TuplesAre(L, nl, R, nr), NEW i \in 1 .. nr
  PROVE  R[i] # <<>>
<1>1. R[i] = Cut(PlanSchema[Right].attributes, segments[Right][i])
  BY DEF TuplesAre, RegistersOf
<1>2. DOMAIN R[i] = DOMAIN PlanSchema[Right].attributes
  BY <1>1 DEF Cut
<1>3. JoinRight + 1 \in DOMAIN R[i]
  BY <1>2, RegistersAssumption
<1>4. DOMAIN <<>> = {}
  OBVIOUS
<1> QED
  BY <1>3, <1>4

LEMMA OpenInv == PlanInv /\ Open => PlanInv'
<1> SUFFICES ASSUME PlanInv, Open PROVE PlanInv'
  OBVIOUS
<1>1. PICK L, nl, R, nr, l, n, f0, s0, P0 : Joining(L, nl, R, nr, l, n, f0, s0, P0)
  BY DEF PlanInv
<1>2. /\ planPc = "closed" /\ opens \in Nat /\ scan = <<-1, -1>> /\ rightTuple = <<>>
      /\ (opens = 0 => hashTable = <<>>) /\ SchemaInv
      /\ schemaPc = "read" /\ schema = PlanSchema
  BY DEF PlanInv, Open
<1>3. /\ scan' = <<0, -1>> /\ rows' = <<>> /\ opens' = opens + 1 /\ planPc' = "build"
      /\ UNCHANGED schemaVars /\ segments' = segments /\ hashTable' = hashTable
      /\ rightTuple' = rightTuple
  BY <1>2 DEF Open, Left
<1>4. Table(hashTable, L, nl, l, 0, opens + 1)
  <2>1. n = nl /\ Table(hashTable, L, nl, l, n, opens)
    BY <1>1, <1>2 DEF Joining, Stage
  <2> QED
    BY <2>1, TableBegins
<1>5. TuplesAre(L, nl, R, nr)'
  BY <1>1, <1>3, TuplesStay DEF Joining
<1>6. PICK f : Progress(hashTable, R, nr, <<>>, f, 0, {})
  <2>1. Len(hashTable) \in Nat /\ nr \in Nat
    BY <1>1 DEF Joining, Progress
  <2> QED
    BY <2>1, ProgressBegins
<1>7. Stage(nl, R, nr, 0, 0, {})'
  BY <1>3 DEF Stage
<1>8. Joining(L, nl, R, nr, l, 0, f, 0, {})'
  BY <1>3, <1>4, <1>5, <1>6, <1>7 DEF Joining
<1>9. SchemaInv'
  BY <1>2, <1>3, SchemaStays
<1>10. opens' \in Nat /\ opens' # 0
  BY <1>2, <1>3
<1>11. schemaPc' = "read" /\ schema' = PlanSchema
  BY <1>2, <1>3 DEF schemaVars
<1> QED
  BY <1>2, <1>3, <1>8, <1>9, <1>10, <1>11 DEF PlanInv

LEMMA BuildInv == PlanInv /\ Build => PlanInv'
<1> SUFFICES ASSUME PlanInv, Build PROVE PlanInv'
  OBVIOUS
<1>1. PICK L, nl, R, nr, l, n, f0, s0, P0 : Joining(L, nl, R, nr, l, n, f0, s0, P0)
  BY DEF PlanInv
<1>2. /\ planPc = "build" /\ opens \in Nat /\ opens # 0 /\ rightTuple = <<>> /\ SchemaInv
      /\ schemaPc = "read" /\ schema = PlanSchema /\ scan = <<n, -1>> /\ rows = <<>>
      /\ TuplesAre(L, nl, R, nr) /\ Table(hashTable, L, nl, l, n, opens)
  BY <1>1 DEF PlanInv, Build, Joining, Stage
<1>3. n \in Nat /\ nl \in Nat /\ n < nl
  <2>1. n \in Nat /\ nl \in Nat /\ Len(segments[Left]) = nl
    BY <1>2 DEF Table, TuplesAre
  <2> QED
    BY <1>2, <2>1 DEF Build, HasNext, Left
<1>4. ScanOutput(Left) = L[n + 1]
  <2>1. n + 1 \in 1 .. nl /\ scan[Left] + 1 = n + 1
    BY <1>2, <1>3 DEF Left
  <2> QED
    BY <1>2, <2>1, ScanGives
<1>5. /\ scan' = <<n + 1, -1>> /\ rows' = <<>> /\ opens' = opens /\ planPc' = "build"
      /\ UNCHANGED schemaVars /\ segments' = segments
      /\ rightTuple' = rightTuple
  BY <1>2 DEF Build, Left
<1>6. hashTable' = IF Selected(L[n + 1]) THEN Append(hashTable, L[n + 1]) ELSE hashTable
  BY <1>4 DEF Build
<1>7. PICK l2 : Table(hashTable', L, nl, l2, n + 1, opens)
  <2>1. CASE Selected(L[n + 1])
    BY <1>2, <1>3, <1>6, <2>1, TableGrows
  <2>2. CASE ~Selected(L[n + 1])
    BY <1>2, <1>3, <1>6, <2>2, TableSkips
  <2> QED
    BY <2>1, <2>2
<1>8. TuplesAre(L, nl, R, nr)'
  BY <1>2, <1>5, TuplesStay
<1>9. PICK f : Progress(hashTable', R, nr, <<>>, f, 0, {})
  <2>1. Len(hashTable') \in Nat /\ nr \in Nat
    BY <1>2, <1>7, LenProperties DEF Table, TuplesAre
  <2> QED
    BY <2>1, ProgressBegins
<1>10. Stage(nl, R, nr, n + 1, 0, {})'
  BY <1>5 DEF Stage
<1>11. Joining(L, nl, R, nr, l2, n + 1, f, 0, {})'
  BY <1>5, <1>7, <1>8, <1>9, <1>10 DEF Joining
<1>12. SchemaInv'
  BY <1>2, <1>5, SchemaStays
<1>13. schemaPc' = "read" /\ schema' = PlanSchema
  BY <1>2, <1>5 DEF schemaVars
<1> QED
  BY <1>2, <1>5, <1>11, <1>12, <1>13 DEF PlanInv

LEMMA BuiltInv == PlanInv /\ Built => PlanInv'
<1> SUFFICES ASSUME PlanInv, Built PROVE PlanInv'
  OBVIOUS
<1>1. PICK L, nl, R, nr, l, n, f0, s0, P0 : Joining(L, nl, R, nr, l, n, f0, s0, P0)
  BY DEF PlanInv
<1>2. /\ planPc = "build" /\ opens \in Nat /\ opens # 0 /\ rightTuple = <<>> /\ SchemaInv
      /\ schemaPc = "read" /\ schema = PlanSchema /\ scan = <<n, -1>> /\ rows = <<>>
      /\ TuplesAre(L, nl, R, nr) /\ Table(hashTable, L, nl, l, n, opens)
  BY <1>1 DEF PlanInv, Built, Joining, Stage
<1>3. n = nl
  <2>1. n \in Nat /\ nl \in Nat /\ n <= nl /\ Len(segments[Left]) = nl
    BY <1>2 DEF Table, TuplesAre
  <2> QED
    BY <1>2, <2>1 DEF Built, HasNext, Left
<1>4. /\ scan' = <<-1, 0>> /\ rows' = <<>> /\ opens' = opens /\ planPc' = "open"
      /\ UNCHANGED schemaVars /\ segments' = segments /\ hashTable' = hashTable
      /\ rightTuple' = <<>>
  BY <1>2 DEF Built, Left, Right
<1>5. PICK f : Progress(hashTable, R, nr, <<>>, f, 0, {})
  <2>1. Len(hashTable) \in Nat /\ nr \in Nat
    BY <1>1 DEF Joining, Progress
  <2> QED
    BY <2>1, ProgressBegins
<1>6. TuplesAre(L, nl, R, nr)'
  BY <1>2, <1>4, TuplesStay
<1>7. Stage(nl, R, nr, n, 0, {})'
  BY <1>3, <1>4 DEF Stage
<1>8. Joining(L, nl, R, nr, l, n, f, 0, {})'
  BY <1>2, <1>4, <1>5, <1>6, <1>7 DEF Joining
<1>9. SchemaInv'
  BY <1>2, <1>4, SchemaStays
<1>10. schemaPc' = "read" /\ schema' = PlanSchema
  BY <1>2, <1>4 DEF schemaVars
<1> QED
  BY <1>2, <1>4, <1>8, <1>9, <1>10 DEF PlanInv

LEMMA NextMatchInv == PlanInv /\ NextMatch => PlanInv'
<1> SUFFICES ASSUME PlanInv, NextMatch PROVE PlanInv'
  OBVIOUS
<1>1. PICK L, nl, R, nr, l, n, f, s, P : Joining(L, nl, R, nr, l, n, f, s, P)
  BY DEF PlanInv
<1>2. /\ planPc = "open" /\ opens \in Nat /\ opens # 0 /\ SchemaInv
      /\ schemaPc = "read" /\ schema = PlanSchema /\ n = nl /\ scan = <<-1, s>>
      /\ rightTuple # <<>> /\ rightTuple = R[s] /\ matches = P
      /\ TuplesAre(L, nl, R, nr) /\ Table(hashTable, L, nl, l, n, opens)
      /\ Progress(hashTable, R, nr, rows, f, s, P)
  BY <1>1 DEF PlanInv, NextMatch, Joining, Stage
<1>3. PICK k \in P : /\ rows' = Append(rows, Project(hashTable[k] \o R[s]))
                     /\ matches' = P \ {k}
                     /\ rightTuple' = IF P = {k} THEN <<>> ELSE R[s]
  BY <1>2 DEF NextMatch, JoinTuples, PrintRow
<1>4. /\ scan' = scan /\ opens' = opens /\ planPc' = "open" /\ hashTable' = hashTable
      /\ UNCHANGED schemaVars /\ segments' = segments
  BY <1>2 DEF NextMatch
<1>5. PICK g : Progress(hashTable, R, nr, rows', g, s, P \ {k})
  BY <1>2, <1>3, ProgressJoins
<1>6. TuplesAre(L, nl, R, nr)'
  BY <1>2, <1>4, TuplesStay
<1>7. Stage(nl, R, nr, n, s, P \ {k})'
  BY <1>2, <1>3, <1>4 DEF Stage
<1>8. Joining(L, nl, R, nr, l, n, g, s, P \ {k})'
  BY <1>2, <1>4, <1>5, <1>6, <1>7 DEF Joining
<1>9. SchemaInv'
  BY <1>2, <1>4, SchemaStays
<1>10. schemaPc' = "read" /\ schema' = PlanSchema
  BY <1>2, <1>4 DEF schemaVars
<1> QED
  BY <1>2, <1>4, <1>8, <1>9, <1>10 DEF PlanInv

LEMMA ProbeInv == PlanInv /\ Probe => PlanInv'
<1> SUFFICES ASSUME PlanInv, Probe PROVE PlanInv'
  OBVIOUS
<1>1. PICK L, nl, R, nr, l, n, f, s, P : Joining(L, nl, R, nr, l, n, f, s, P)
  BY DEF PlanInv
<1>2. /\ planPc \in {"open", "next"} /\ opens \in Nat /\ opens # 0 /\ SchemaInv
      /\ schemaPc = "read" /\ schema = PlanSchema /\ n = nl /\ scan = <<-1, s>> /\ P = {}
      /\ TuplesAre(L, nl, R, nr) /\ Table(hashTable, L, nl, l, n, opens)
      /\ Progress(hashTable, R, nr, rows, f, s, {})
  BY <1>1 DEF PlanInv, Probe, Joining, Stage
<1>3. s \in Nat /\ nr \in Nat /\ s < nr
  <2>1. s \in Nat /\ nr \in Nat /\ Len(segments[Right]) = nr
    BY <1>2 DEF Progress, TuplesAre
  <2> QED
    BY <1>2, <2>1 DEF Probe, HasNext, Right
<1>4. ScanOutput(Right) = R[s + 1]
  <2>1. s + 1 \in 1 .. nr /\ scan[Right] + 1 = s + 1
    BY <1>2, <1>3 DEF Right
  <2> QED
    BY <1>2, <2>1, ScanGives
<1>5. PICK right, found : right = R[s + 1] /\ found = Partners(hashTable, right)
  OBVIOUS
<1>6. Matching(right) = found
  <2>1. DOMAIN hashTable = 1 .. Len(hashTable)
    BY <1>2, LenProperties DEF Table
  <2> QED
    BY <1>5, <2>1 DEF Matching, Partners
<1>7. right # <<>>
  <2>1. s + 1 \in 1 .. nr
    BY <1>3
  <2> QED
    BY <1>2, <1>5, <2>1, TuplesAreNotEmpty
<1>8. /\ scan' = <<-1, s + 1>> /\ opens' = opens /\ hashTable' = hashTable
      /\ UNCHANGED schemaVars /\ segments' = segments
  BY <1>2 DEF Probe, Right
<1>9. IF found = {}
        THEN rightTuple' = right /\ matches' = {} /\ planPc' = "next" /\ rows' = rows
        ELSE JoinTuples(right, found) /\ planPc' = "open"
  BY <1>4, <1>5, <1>6 DEF Probe
<1>10. Progress(hashTable, R, nr, rows, f, s + 1, found)
  BY <1>2, <1>3, <1>5, ProgressReads
<1>11. TuplesAre(L, nl, R, nr)'
  BY <1>2, <1>8, TuplesStay
<1>12. SchemaInv'
  BY <1>2, <1>8, SchemaStays
<1>13. schemaPc' = "read" /\ schema' = PlanSchema
  BY <1>2, <1>8 DEF schemaVars
<1>14. CASE found = {}
  <2>1. planPc' = "next" /\ rows' = rows
    BY <1>9, <1>14
  <2>2. Stage(nl, R, nr, n, s + 1, {})'
    BY <1>2, <1>8, <2>1 DEF Stage
  <2>3. Joining(L, nl, R, nr, l, n, f, s + 1, {})'
    BY <1>2, <1>8, <1>10, <1>11, <1>14, <2>1, <2>2 DEF Joining
  <2> QED
    BY <1>2, <1>8, <1>12, <1>13, <2>1, <2>3 DEF PlanInv
<1>15. CASE found # {}
  <2>1. PICK k \in found : /\ rows' = Append(rows, Project(hashTable[k] \o right))
                           /\ matches' = found \ {k}
                           /\ rightTuple' = IF found = {k} THEN <<>> ELSE right
    BY <1>9, <1>15 DEF JoinTuples, PrintRow
  <2>2. planPc' = "open"
    BY <1>9, <1>15
  <2>3. PICK g : Progress(hashTable, R, nr, rows', g, s + 1, found \ {k})
    BY <1>5, <1>10, <2>1, ProgressJoins
  <2>4. Stage(nl, R, nr, n, s + 1, found \ {k})'
    BY <1>2, <1>5, <1>7, <1>8, <2>1, <2>2 DEF Stage
  <2>5. Joining(L, nl, R, nr, l, n, g, s + 1, found \ {k})'
    BY <1>2, <1>8, <1>11, <2>3, <2>4 DEF Joining
  <2> QED
    BY <1>2, <1>8, <1>12, <1>13, <2>2, <2>5 DEF PlanInv
<1> QED
  BY <1>14, <1>15

LEMMA ExhaustInv == PlanInv /\ Exhaust => PlanInv'
<1> SUFFICES ASSUME PlanInv, Exhaust PROVE PlanInv'
  OBVIOUS
<1>1. PICK L, nl, R, nr, l, n, f, s, P : Joining(L, nl, R, nr, l, n, f, s, P)
  BY DEF PlanInv
<1>2. /\ planPc \in {"open", "next"} /\ opens \in Nat /\ opens # 0 /\ SchemaInv
      /\ schemaPc = "read" /\ schema = PlanSchema /\ n = nl /\ scan = <<-1, s>> /\ P = {}
      /\ TuplesAre(L, nl, R, nr) /\ Table(hashTable, L, nl, l, n, opens)
      /\ Progress(hashTable, R, nr, rows, f, s, P)
  BY <1>1 DEF PlanInv, Exhaust, Joining, Stage
<1>3. s = nr
  <2>1. s \in 0 .. nr /\ nr \in Nat /\ Len(segments[Right]) = nr
    BY <1>2 DEF Progress, TuplesAre
  <2> QED
    BY <1>2, <2>1 DEF Exhaust, HasNext, Right
<1>4. /\ scan' = scan /\ opens' = opens /\ planPc' = "exhausted" /\ hashTable' = hashTable
      /\ UNCHANGED schemaVars /\ segments' = segments /\ rows' = rows
  BY DEF Exhaust
<1>5. TuplesAre(L, nl, R, nr)'
  BY <1>2, <1>4, TuplesStay
<1>6. Stage(nl, R, nr, n, s, P)'
  BY <1>2, <1>3, <1>4 DEF Stage
<1>7. Joining(L, nl, R, nr, l, n, f, s, P)'
  BY <1>2, <1>4, <1>5, <1>6 DEF Joining
<1>8. SchemaInv'
  BY <1>2, <1>4, SchemaStays
<1>9. schemaPc' = "read" /\ schema' = PlanSchema
  BY <1>2, <1>4 DEF schemaVars
<1> QED
  BY <1>2, <1>4, <1>7, <1>8, <1>9 DEF PlanInv

LEMMA CloseInv == PlanInv /\ Close => PlanInv'
<1> SUFFICES ASSUME PlanInv, Close PROVE PlanInv'
  OBVIOUS
<1>1. PICK L, nl, R, nr, l, n, f, s, P : Joining(L, nl, R, nr, l, n, f, s, P)
  BY DEF PlanInv
<1>2. /\ planPc \in {"open", "exhausted"} /\ opens \in Nat /\ opens # 0 /\ SchemaInv
      /\ schemaPc = "read" /\ schema = PlanSchema /\ scan = <<-1, s>> /\ n = nl
      /\ TuplesAre(L, nl, R, nr) /\ Table(hashTable, L, nl, l, n, opens)
      /\ Progress(hashTable, R, nr, rows, f, s, P)
  BY <1>1 DEF PlanInv, Close, Joining, Stage
<1>3. /\ scan' = <<-1, -1>> /\ opens' = opens /\ planPc' = "closed" /\ hashTable' = hashTable
      /\ UNCHANGED schemaVars /\ segments' = segments /\ rows' = rows /\ rightTuple' = <<>>
  BY <1>2 DEF Close, Right
<1>4. TuplesAre(L, nl, R, nr)'
  BY <1>2, <1>3, TuplesStay
<1>5. Stage(nl, R, nr, n, s, P)'
  BY <1>2, <1>3 DEF Stage
<1>6. Joining(L, nl, R, nr, l, n, f, s, P)'
  BY <1>2, <1>3, <1>4, <1>5 DEF Joining
<1>7. SchemaInv'
  BY <1>2, <1>3, SchemaStays
<1>8. schemaPc' = "read" /\ schema' = PlanSchema
  BY <1>2, <1>3 DEF schemaVars
<1> QED
  BY <1>2, <1>3, <1>6, <1>7, <1>8 DEF PlanInv

\* The plan waits: the schema is read, or nothing happens.
LEMMA PlanWaits == PlanInv /\ UNCHANGED planVars /\ [SchemaNext]_schemaVars => PlanInv'
<1> SUFFICES ASSUME PlanInv, UNCHANGED planVars, [SchemaNext]_schemaVars PROVE PlanInv'
  OBVIOUS
<1>1. PICK L, nl, R, nr, l, n, f, s, P : Joining(L, nl, R, nr, l, n, f, s, P)
  BY DEF PlanInv
<1>2. SchemaInv'
  BY SchemaStep DEF PlanInv
<1>3. /\ segments' = segments /\ scan' = scan /\ hashTable' = hashTable /\ rightTuple' = rightTuple
      /\ matches' = matches /\ rows' = rows /\ opens' = opens /\ planPc' = planPc
  BY DEF planVars
<1>4. schemaPc = "read" => schemaPc' = "read" /\ schema' = schema
  BY DEF SchemaNext, ReadSchema, ReadRelation, ReadAttribute, ReadPrimaryKeys, SchemaIsRead,
         schemaVars
<1>5. TuplesAre(L, nl, R, nr)'
  BY <1>1, <1>3, TuplesStay DEF Joining
<1>6. Stage(nl, R, nr, n, s, P)'
  BY <1>1, <1>3 DEF Joining, Stage
<1>7. Joining(L, nl, R, nr, l, n, f, s, P)'
  BY <1>1, <1>3, <1>5, <1>6 DEF Joining
<1> QED
  BY <1>2, <1>3, <1>4, <1>7 DEF PlanInv

LEMMA PlanStep == PlanInv /\ [QueryNext]_<<schemaVars, planVars>> => PlanInv'
<1> SUFFICES ASSUME PlanInv, [QueryNext]_<<schemaVars, planVars>> PROVE PlanInv'
  OBVIOUS
<1>1. CASE UNCHANGED <<schemaVars, planVars>> \/ (SchemaNext /\ UNCHANGED planVars)
  <2>1. UNCHANGED planVars /\ [SchemaNext]_schemaVars
    BY <1>1
  <2> QED
    BY <2>1, PlanWaits
<1>2. CASE Open
  BY <1>2, OpenInv
<1>3. CASE Build
  BY <1>3, BuildInv
<1>4. CASE Built
  BY <1>4, BuiltInv
<1>5. CASE NextMatch
  BY <1>5, NextMatchInv
<1>6. CASE Probe
  BY <1>6, ProbeInv
<1>7. CASE Exhaust
  BY <1>7, ExhaustInv
<1>8. CASE Close
  BY <1>8, CloseInv
<1> QED
  BY <1>1, <1>2, <1>3, <1>4, <1>5, <1>6, <1>7, <1>8 DEF QueryNext

\* The invariant of the plan, for every schema, table and number of openings.
THEOREM PlanIsInductive == QuerySpec => []PlanInv
BY PlanInitInv, PlanStep, PTL DEF QuerySpec

---------------------------------------------------------------------------
(* What the invariant says *)

LEMMA PlanScansAreClosed == PlanInv => ScansAreClosed
<1> SUFFICES ASSUME PlanInv PROVE ScansAreClosed
  OBVIOUS
<1>1. PICK n, s : /\ planPc = "build" => scan = <<n, -1>>
                  /\ planPc \in {"open", "next", "exhausted"} => scan = <<-1, s>>
  BY DEF PlanInv, Joining, Stage
<1> QED
  BY <1>1 DEF PlanInv, ScansAreClosed, Left, Right

LEMMA PlanJoinIteratorIsValid == PlanInv => JoinIteratorIsValid
BY DEF PlanInv, Joining, Stage, JoinIteratorIsValid

\* The pair of records that row i is of.
LEMMA RowsArePairs ==
  ASSUME NEW L, NEW nl, NEW R, NEW nr, NEW l, NEW n, NEW f, NEW s, NEW P,
         Joining(L, nl, R, nr, l, n, f, s, P), NEW i \in 1 .. Len(rows), NEW w,
         w = <<l[f[i][1]][1], f[i][2]>>
  PROVE  /\ w \in DOMAIN JoinRows /\ JoinRows[w] = rows[i]
         /\ f[i][1] \in 1 .. Len(hashTable) /\ l[f[i][1]][2] \in 1 .. opens
<1>1. /\ TuplesAre(L, nl, R, nr) /\ Table(hashTable, L, nl, l, n, opens)
      /\ Progress(hashTable, R, nr, rows, f, s, P)
  BY DEF Joining
<1>2. PICK k, j : k = f[i][1] /\ j = f[i][2]
  OBVIOUS
<1>3. /\ k \in 1 .. Len(hashTable) /\ j \in 1 .. nr
      /\ rows[i] = Project(hashTable[k] \o R[j]) /\ k \in Partners(hashTable, R[j])
  BY <1>1, <1>2 DEF Progress
<1>4. PICK a : a = l[k][1]
  OBVIOUS
<1>5. a \in 1 .. nl /\ hashTable[k] = L[a] /\ Selected(L[a]) /\ l[k][2] \in 1 .. opens
  BY <1>1, <1>3, <1>4 DEF Table
<1>6. L[a] = RegistersOf(Left, a) /\ R[j] = RegistersOf(Right, j)
  BY <1>1, <1>3, <1>5 DEF TuplesAre
<1>7. Joinable(a, j)
  BY <1>3, <1>5, <1>6 DEF Joinable, Partners
<1>8. w = <<a, j>> /\ w[1] = a /\ w[2] = j
  BY <1>2, <1>4
<1>9. w \in (DOMAIN segments[Left]) \X (DOMAIN segments[Right])
  BY <1>1, <1>3, <1>5, <1>8 DEF TuplesAre
<1>10. Joinable(w[1], w[2])
  BY <1>7, <1>8
<1>11. w \in DOMAIN JoinRows /\ JoinRows[w] = Project(RegistersOf(Left, w[1]) \o RegistersOf(Right, w[2]))
  BY <1>9, <1>10 DEF JoinRows
<1> QED
  BY <1>2, <1>3, <1>5, <1>6, <1>8, <1>11

\* When the plan is exhausted each pair of records that is asked for has a row for each opening.
LEMMA PairsHaveRows ==
  ASSUME NEW L, NEW nl, NEW R, NEW nr, NEW l, NEW n, NEW f, NEW s, NEW P,
         Joining(L, nl, R, nr, l, n, f, s, P), planPc = "exhausted", NEW w \in DOMAIN JoinRows,
         NEW o \in 1 .. opens
  PROVE  \E i \in 1 .. Len(rows) : w = <<l[f[i][1]][1], f[i][2]>> /\ o = l[f[i][1]][2]
<1>1. /\ TuplesAre(L, nl, R, nr) /\ Table(hashTable, L, nl, l, n, opens)
      /\ Progress(hashTable, R, nr, rows, f, s, P) /\ P = {} /\ s = nr /\ n = nl
  BY DEF Joining, Stage
<1>2. w \in (DOMAIN segments[Left]) \X (DOMAIN segments[Right]) /\ Joinable(w[1], w[2])
  BY DEF JoinRows
<1>3. PICK a, j : a = w[1] /\ j = w[2] /\ w = <<a, j>>
  BY <1>2
<1>4. a \in 1 .. nl /\ j \in 1 .. nr /\ nl \in Nat /\ nr \in Nat
  BY <1>1, <1>2, <1>3 DEF TuplesAre
<1>5. L[a] = RegistersOf(Left, a) /\ R[j] = RegistersOf(Right, j)
  BY <1>1, <1>4 DEF TuplesAre
<1>6. Selected(L[a]) /\ Register(L[a], JoinLeft) = Register(R[j], JoinRight)
  BY <1>2, <1>3, <1>5 DEF Joinable
<1>7. PICK k \in 1 .. Len(hashTable) : l[k] = <<a, o>>
  <2>1. o < opens \/ a <= n
    BY <1>1, <1>4
  <2> QED
    BY <1>1, <1>4, <1>6, <2>1 DEF Table
<1>8. k \in Partners(hashTable, R[j])
  <2>1. l[k][1] = a /\ hashTable[k] = L[l[k][1]]
    BY <1>1, <1>7 DEF Table
  <2> QED
    BY <1>6, <2>1 DEF Partners
<1>9. j < s \/ (j = s /\ k \notin P)
  BY <1>1, <1>4
<1>10. PICK i \in 1 .. Len(rows) : f[i] = <<k, j>>
  BY <1>1, <1>4, <1>8, <1>9 DEF Progress
<1> QED
  BY <1>3, <1>7, <1>10

LEMMA PlanTuplesAreJoined == PlanInv => TuplesAreJoined
<1> SUFFICES ASSUME PlanInv PROVE TuplesAreJoined
  OBVIOUS
<1> DEFINE joined == {<<pair, JoinRows[pair]>> : pair \in DOMAIN JoinRows}
           printed(row) == {i \in DOMAIN rows : rows[i] = row}
           due(row) == {d \in joined \X (1 .. opens) : d[1][2] = row}
<1>1. PICK L, nl, R, nr, l, n, f, s, P : Joining(L, nl, R, nr, l, n, f, s, P)
  BY DEF PlanInv
<1>2. DOMAIN rows = 1 .. Len(rows) /\ Len(rows) \in Nat /\ opens \in Nat
  BY <1>1, LenProperties DEF Joining, Progress, PlanInv
<1>3. PICK w : w = [i \in 1 .. Len(rows) |-> <<l[f[i][1]][1], f[i][2]>>]
  OBVIOUS
<1>4. ASSUME NEW i \in 1 .. Len(rows)
      PROVE  /\ w[i] = <<l[f[i][1]][1], f[i][2]>> /\ w[i] \in DOMAIN JoinRows
             /\ JoinRows[w[i]] = rows[i] /\ f[i][1] \in 1 .. Len(hashTable)
             /\ l[f[i][1]][2] \in 1 .. opens
  <2>1. w[i] = <<l[f[i][1]][1], f[i][2]>>
    BY <1>3
  <2> QED
    BY <1>1, <2>1, RowsArePairs
<1>5. IsFiniteSet(joined)
  <2>1. PICK D : D = DOMAIN JoinRows
    OBVIOUS
  <2>2. IsFiniteSet(D)
    <3>1. PICK nL, nR : nL = nl /\ nR = nr /\ nL \in Nat /\ nR \in Nat
      BY <1>1 DEF Joining, TuplesAre
    <3>2. D \subseteq (1 .. nL) \X (1 .. nR)
      BY <1>1, <2>1, <3>1 DEF Joining, TuplesAre, JoinRows
    <3>3. IsFiniteSet(1 .. nL) /\ IsFiniteSet(1 .. nR)
      BY <3>1, FS_Interval
    <3> QED
      BY <3>2, <3>3, FS_Product, FS_Subset
  <2>3. joined = {<<pair, JoinRows[pair]>> : pair \in D}
    BY <2>1
  <2>4. PICK g : g = [pair \in D |-> <<pair, JoinRows[pair]>>]
    OBVIOUS
  <2>5. g \in Surjection(D, joined)
    BY <2>3, <2>4 DEF Surjection
  <2> HIDE DEF joined
  <2> QED
    BY <2>2, <2>5, FS_Surjection
<1>6. ASSUME NEW row PROVE IsFiniteSet(due(row)) /\ IsFiniteSet(printed(row))
  <2>1. IsFiniteSet(1 .. opens) /\ IsFiniteSet(1 .. Len(rows))
    BY <1>2, FS_Interval
  <2>2. IsFiniteSet(joined \X (1 .. opens))
    <3> HIDE DEF joined
    <3> QED
      BY <1>5, <2>1, FS_Product
  <2>3. due(row) \subseteq joined \X (1 .. opens) /\ printed(row) \subseteq 1 .. Len(rows)
    BY <1>2
  <2> HIDE DEF due, printed, joined
  <2> QED
    BY <2>1, <2>2, <2>3, FS_Subset
\* Every row that is printed has a pair and an opening of its own.
<1>7. ASSUME NEW row
      PROVE  /\ Cardinality(printed(row)) <= Cardinality(due(row))
             /\ planPc = "exhausted" => Cardinality(printed(row)) = Cardinality(due(row))
  <2>1. PICK g : g = [x \in printed(row) |-> << <<w[x], row>>, l[f[x][1]][2]>>]
    OBVIOUS
  <2>2. ASSUME NEW x \in printed(row) PROVE g[x] \in due(row)
    <3>1. x \in 1 .. Len(rows) /\ rows[x] = row
      BY <1>2
    <3>2. w[x] \in DOMAIN JoinRows /\ JoinRows[w[x]] = row /\ l[f[x][1]][2] \in 1 .. opens
      BY <1>4, <3>1
    <3>3. PICK e, o : e = <<w[x], row>> /\ o = l[f[x][1]][2]
      OBVIOUS
    <3>4. e \in joined /\ e[2] = row /\ o \in 1 .. opens /\ g[x] = <<e, o>>
      BY <2>1, <3>2, <3>3
    <3>5. PICK d : d = <<e, o>>
      OBVIOUS
    <3>6. d \in joined \X (1 .. opens) /\ d[1] = e
      <4> HIDE DEF joined
      <4> QED
        BY <3>4, <3>5
    <3> QED
      BY <3>4, <3>5, <3>6
  <2>3. ASSUME NEW x \in printed(row), NEW y \in printed(row), g[x] = g[y] PROVE x = y
    <3>1. x \in 1 .. Len(rows) /\ y \in 1 .. Len(rows)
      BY <1>2
    <3>2. w[x] = w[y] /\ l[f[x][1]][2] = l[f[y][1]][2]
      <4>1. /\ g[x] = << <<w[x], row>>, l[f[x][1]][2]>>
            /\ g[y] = << <<w[y], row>>, l[f[y][1]][2]>>
        BY <2>1
      <4>2. PICK a, b, u, v : /\ a = <<w[x], row>> /\ u = l[f[x][1]][2]
                              /\ b = <<w[y], row>> /\ v = l[f[y][1]][2]
        OBVIOUS
      <4>3. g[x] = <<a, u>> /\ g[y] = <<b, v>>
        BY <4>1, <4>2
      <4>4. a = b /\ u = v
        <5>1. <<a, u>> = <<b, v>>
          BY <2>3, <4>3
        <5> QED
          BY <5>1
      <4> QED
        BY <4>2, <4>4
    <3>3. l[f[x][1]][1] = l[f[y][1]][1] /\ f[x][2] = f[y][2]
      <4>1. w[x] = <<l[f[x][1]][1], f[x][2]>>
        BY <1>4, <3>1
      <4>2. w[y] = <<l[f[y][1]][1], f[y][2]>>
        BY <1>4, <3>1
      <4>3. PICK a, b, c, d : /\ a = l[f[x][1]][1] /\ b = f[x][2]
                              /\ c = l[f[y][1]][1] /\ d = f[y][2]
        OBVIOUS
      <4>4. <<a, b>> = <<c, d>>
        BY <3>2, <4>1, <4>2, <4>3
      <4>5. a = c /\ b = d
        BY <4>4
      <4> QED
        BY <4>3, <4>5
    <3>4. f[x][1] \in 1 .. Len(hashTable) /\ f[y][1] \in 1 .. Len(hashTable)
      BY <1>4, <3>1
    <3>5. f[x][1] = f[y][1]
      <4>1. Table(hashTable, L, nl, l, n, opens)
        BY <1>1 DEF Joining
      <4>2. /\ \A j, k \in 1 .. Len(hashTable) : l[j] = l[k] => j = k
            /\ \A k \in 1 .. Len(hashTable) : l[k] \in (1 .. nl) \X (1 .. opens)
        BY <4>1 DEF Table
      <4>3. PICK j, k : j = f[x][1] /\ k = f[y][1]
        OBVIOUS
      <4>4. l[j] = l[k]
        BY <3>2, <3>3, <3>4, <4>2, <4>3
      <4> QED
        BY <3>4, <4>2, <4>3, <4>4
    <3>6. /\ f[x] \in (1 .. Len(hashTable)) \X (1 .. nr)
          /\ f[y] \in (1 .. Len(hashTable)) \X (1 .. nr)
      BY <1>1, <3>1 DEF Joining, Progress
    <3>7. f[x] = f[y]
      BY <3>3, <3>5, <3>6
    <3> QED
      BY <1>1, <3>1, <3>7 DEF Joining, Progress
  <2>4. ASSUME planPc = "exhausted", NEW d \in due(row) PROVE \E x \in printed(row) : g[x] = d
    <3>1. PICK e \in joined, o \in 1 .. opens : d = <<e, o>> /\ e[2] = row
      OBVIOUS
    <3>2. PICK q \in DOMAIN JoinRows : e = <<q, JoinRows[q]>>
      OBVIOUS
    <3>3. JoinRows[q] = row
      BY <3>1, <3>2
    <3>4. PICK x \in 1 .. Len(rows) : q = w[x] /\ o = l[f[x][1]][2]
      <4> HIDE DEF due, printed, joined
      <4>1. PICK x \in 1 .. Len(rows) : q = <<l[f[x][1]][1], f[x][2]>> /\ o = l[f[x][1]][2]
        BY <1>1, <2>4, PairsHaveRows
      <4> QED
        BY <1>4, <4>1
    <3>5. x \in printed(row)
      BY <1>2, <1>4, <3>3, <3>4
    <3> QED
      BY <2>1, <3>1, <3>2, <3>3, <3>4, <3>5
  <2>5. IsFiniteSet(due(row)) /\ IsFiniteSet(printed(row))
    BY <1>6
  <2>6. PICK D, S : D = due(row) /\ S = printed(row)
    OBVIOUS
  <2> HIDE DEF due, printed, joined
  <2>7. g \in Injection(S, D)
    BY <2>1, <2>2, <2>3, <2>6 DEF Injection, IsInjective
  <2>8. planPc = "exhausted" => g \in Surjection(S, D)
    BY <2>1, <2>2, <2>4, <2>6 DEF Surjection
  <2> QED
    BY <2>5, <2>6, <2>7, <2>8, FS_Injection
<1>8. \A i \in DOMAIN rows : Cardinality(printed(rows[i])) <= Cardinality(due(rows[i]))
  <2> HIDE DEF due, printed, joined
  <2> QED
    BY <1>7
<1>9. planPc = "exhausted" => \A j \in joined : Cardinality(printed(j[2])) = Cardinality(due(j[2]))
  <2> HIDE DEF due, printed, joined
  <2> QED
    BY <1>7
<1> QED
  BY <1>8, <1>9, Zenon DEF TuplesAreJoined

\* A schema is read as it was written while plans wait for it and run.
THEOREM QueryRestoresSchema == QuerySpec => []SchemaIsRestored
<1>1. PlanInv => SchemaIsRestored
  BY SchemaInvIsRestored DEF PlanInv
<1> QED
  BY <1>1, PlanIsInductive, PTL

\* Never are both scans open, and after close none is.
THEOREM PlanClosesScans == QuerySpec => []ScansAreClosed
BY PlanIsInductive, PlanScansAreClosed, PTL

\* next never follows an iterator that is at its end.
THEOREM PlanFollowsMatches == QuerySpec => []JoinIteratorIsValid
BY PlanIsInductive, PlanJoinIteratorIsValid, PTL

\* The rows that the plan prints are those of the join, each as often as the opening's number
\* says, whatever the relations and the records are, and for any registers that it names, none
\* of which the projection names twice.
THEOREM PlanJoins == QuerySpec => []TuplesAreJoined
BY PlanIsInductive, PlanTuplesAreJoined, PTL
=============================================================================
