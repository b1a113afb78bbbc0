--------------------------- MODULE AdminApiProofs ---------------------------
(***************************************************************************)
(* Proofs about the bags of requests of AdminApi: what becomes of their    *)
(* copies and of their number when a request is sent, answered, received,  *)
(* or loses the component that waits for it.                               *)
(***************************************************************************)
EXTENDS AdminApi, FiniteSetTheorems, TLAPS

\* A bag with finitely many requests in it.
FiniteBag(b) == IsABag(b) /\ IsFiniteSet(Copies(b))

LEMMA CopiesAre ==
  ASSUME NEW b
  PROVE  \A k : k \in Copies(b) <=> \E c \in DOMAIN b : \E i \in 1..b[c] : k = <<c, i>>
<1>1. \A k : k \in Copies(b) <=> \E c \in DOMAIN b : k \in {c} \X (1..b[c])
  BY DEF Copies
<1>2. \A c, k : k \in {c} \X (1..b[c]) <=> \E i \in 1..b[c] : k = <<c, i>>
  OBVIOUS
<1>3. QED
  BY <1>1, <1>2

LEMMA CopiesOf ==
  ASSUME NEW b, NEW c, NEW i
  PROVE  <<c, i>> \in Copies(b) <=> c \in DOMAIN b /\ i \in 1..b[c]
<1>1. \A d, j : <<c, i>> = <<d, j>> <=> c = d /\ i = j
  OBVIOUS
<1>2. QED
  BY <1>1, CopiesAre

\* Two sets of copies are the same when they have the same pairs.
LEMMA SameCopies ==
  ASSUME NEW a, NEW b, NEW T,
         \A c, i : <<c, i>> \in Copies(a) <=> <<c, i>> \in T,
         \A k \in T : \E c, i : k = <<c, i>>
  PROVE  Copies(a) = T
<1>1. \A k \in Copies(a) : \E c, i : k = <<c, i>>
  BY CopiesAre
<1>2. QED
  BY <1>1

LEMMA InABag ==
  ASSUME NEW b
  PROVE  IsABag(b) <=> /\ b = [c \in DOMAIN b |-> b[c]]
                       /\ \A c \in DOMAIN b : b[c] \in Nat /\ b[c] > 0
BY DEF IsABag

LEMMA EmptyIsFinite == FiniteBag(EmptyBag) /\ Size(EmptyBag) = 0 /\ DOMAIN EmptyBag = {}
<1>1. DOMAIN EmptyBag = {}
  BY DEF EmptyBag, SetToBag
<1>2. Copies(EmptyBag) = {}
  BY <1>1 DEF Copies
<1>3. EmptyBag = [c \in DOMAIN EmptyBag |-> EmptyBag[c]]
  BY DEF EmptyBag, SetToBag
<1>4. QED
  BY <1>1, <1>2, <1>3, FS_EmptySet, InABag DEF FiniteBag, Size

-----------------------------------------------------------------------------
(* One request more, one less, some more.                                   *)

\* r is b with one c more.
IsOneMore(r, b, c) ==
  /\ FiniteBag(r) /\ Size(r) = Size(b) + 1
  /\ DOMAIN r = DOMAIN b \union {c}
  /\ \A d \in DOMAIN b : d # c => r[d] = b[d]
  /\ r[c] = IF c \in DOMAIN b THEN b[c] + 1 ELSE 1

LEMMA OneMore ==
  ASSUME NEW b, FiniteBag(b), NEW c
  PROVE  IsOneMore(b (+) SetToBag({c}), b, c)
<1> PICK r : r = b (+) SetToBag({c})
  OBVIOUS
<1>1. DOMAIN SetToBag({c}) = {c} /\ SetToBag({c})[c] = 1
  BY DEF SetToBag
<1>2. r = [d \in DOMAIN r |-> r[d]]
  BY DEF (+)
<1>3. /\ DOMAIN r = DOMAIN b \union {c}
      /\ \A d \in DOMAIN r : r[d] = (IF d \in DOMAIN b THEN b[d] ELSE 0) + (IF d = c THEN 1 ELSE 0)
  BY <1>1 DEF (+)
<1>4. \A d \in DOMAIN b : b[d] \in Nat /\ b[d] > 0
  BY InABag DEF FiniteBag
<1>5. \A d \in DOMAIN b : d # c => r[d] = b[d]
  BY <1>3, <1>4
<1>6. r[c] = IF c \in DOMAIN b THEN b[c] + 1 ELSE 1
  BY <1>3
<1>7. \A d \in DOMAIN r : r[d] \in Nat /\ r[d] > 0
  <2> TAKE d \in DOMAIN r
  <2>1. CASE d = c
    BY <1>4, <1>6, <2>1
  <2>2. CASE d # c
    BY <1>3, <1>4, <1>5, <2>2
  <2>3. QED
    BY <2>1, <2>2
<1> DEFINE new == <<c, r[c]>>
<1>8. new \notin Copies(b)
  <2>1. CASE c \in DOMAIN b
    <3>1. r[c] \notin 1..b[c]
      BY <1>4, <1>6, <2>1
    <3>2. QED
      BY <3>1, CopiesOf
  <2>2. CASE c \notin DOMAIN b
    BY <2>2, CopiesOf
  <2>3. QED
    BY <2>1, <2>2
<1>9. Copies(r) = Copies(b) \union {new}
  <2>1. \A d, i : <<d, i>> \in Copies(r) <=> <<d, i>> \in Copies(b) \union {new}
    <3> TAKE d, i
    <3>1. <<d, i>> = new <=> d = c /\ i = r[c]
      OBVIOUS
    <3>2. CASE d = c /\ c \in DOMAIN b
      <4>1. i \in 1..r[c] <=> i \in 1..b[c] \/ i = r[c]
        BY <1>4, <1>6, <3>2
      <4>2. QED
        BY <1>3, <3>1, <3>2, <4>1, CopiesOf
    <3>3. CASE d = c /\ c \notin DOMAIN b
      <4>1. i \in 1..r[c] <=> i = r[c]
        BY <1>6, <3>3
      <4>2. QED
        BY <1>3, <3>1, <3>3, <4>1, CopiesOf
    <3>4. CASE d # c
      <4>1. d \in DOMAIN r <=> d \in DOMAIN b
        BY <1>3, <3>4
      <4>2. d \in DOMAIN b => r[d] = b[d]
        BY <1>5, <3>4
      <4>3. QED
        BY <3>1, <3>4, <4>1, <4>2, CopiesOf
    <3>5. QED
      BY <3>2, <3>3, <3>4
  <2>2. \A k \in Copies(b) \union {new} : \E d, i : k = <<d, i>>
    BY CopiesAre
  <2> HIDE DEF new
  <2>3. QED
    BY <2>1, <2>2, SameCopies
<1>10. /\ IsFiniteSet(Copies(r))
       /\ Cardinality(Copies(r)) = Cardinality(Copies(b)) + 1
  BY <1>8, <1>9, FS_AddElement DEF FiniteBag
<1>11. IsABag(r)
  BY <1>2, <1>7, InABag
<1>12. QED
  BY <1>3, <1>5, <1>6, <1>10, <1>11 DEF IsOneMore, FiniteBag, Size

\* r is b with one c less.
IsOneLess(r, b, c) ==
  /\ FiniteBag(r) /\ Size(r) + 1 = Size(b) /\ Size(r) \in Nat
  /\ DOMAIN r \subseteq DOMAIN b
  /\ \A d \in DOMAIN b : d # c => d \in DOMAIN r /\ r[d] = b[d]
  /\ (c \in DOMAIN r <=> b[c] > 1)
  /\ \A d \in DOMAIN r : r[d] \in 1..b[d]

LEMMA OneLess ==
  ASSUME NEW b, FiniteBag(b), NEW c \in DOMAIN b
  PROVE  IsOneLess(b (-) SetToBag({c}), b, c)
<1> PICK r : r = b (-) SetToBag({c})
  OBVIOUS
<1>1. DOMAIN SetToBag({c}) = {c} /\ SetToBag({c})[c] = 1
  BY DEF SetToBag
<1>2. \A d \in DOMAIN b : b[d] \in Nat /\ b[d] > 0
  BY InABag DEF FiniteBag
<1> DEFINE left == [d \in DOMAIN b |-> IF d = c THEN b[d] - 1 ELSE b[d]]
<1>3. r = [d \in {e \in DOMAIN left : left[e] > 0} |-> left[d]]
  BY <1>1 DEF (-)
<1>4. DOMAIN left = DOMAIN b
  OBVIOUS
<1>5. \A d \in DOMAIN b : d # c => left[d] = b[d] /\ left[d] > 0
  BY <1>2
<1>6. left[c] = b[c] - 1 /\ (left[c] > 0 <=> b[c] > 1)
  BY <1>2
<1> HIDE DEF left
<1>7. r = [d \in DOMAIN r |-> r[d]]
  BY <1>3
<1>8. /\ \A d : d \in DOMAIN r <=> d \in DOMAIN b /\ left[d] > 0
      /\ \A d \in DOMAIN r : r[d] = left[d]
  BY <1>3, <1>4
<1>9. /\ DOMAIN r \subseteq DOMAIN b
      /\ \A d \in DOMAIN b : d # c => d \in DOMAIN r /\ r[d] = b[d]
  BY <1>5, <1>8
<1>10. /\ (c \in DOMAIN r <=> b[c] > 1)
       /\ c \in DOMAIN r => r[c] = b[c] - 1
  BY <1>6, <1>8
<1>11. \A d \in DOMAIN r : r[d] \in Nat /\ r[d] > 0 /\ r[d] \in 1..b[d]
  <2> TAKE d \in DOMAIN r
  <2>1. d \in DOMAIN b /\ b[d] \in Nat /\ b[d] > 0
    BY <1>2, <1>9
  <2>2. CASE d = c
    BY <1>10, <2>1, <2>2
  <2>3. CASE d # c
    BY <1>9, <2>1, <2>3
  <2>4. QED
    BY <2>2, <2>3
<1> DEFINE old == <<c, b[c]>>
<1>12. old \in Copies(b)
  <2>1. b[c] \in 1..b[c]
    BY <1>2
  <2>2. QED
    BY <2>1, CopiesOf
<1>13. Copies(r) = Copies(b) \ {old}
  <2>1. \A d, i : <<d, i>> \in Copies(r) <=> <<d, i>> \in Copies(b) \ {old}
    <3> TAKE d, i
    <3>1. <<d, i>> = old <=> d = c /\ i = b[c]
      OBVIOUS
    <3>2. CASE d = c /\ c \in DOMAIN r
      <4>1. i \in 1..r[c] <=> i \in 1..b[c] /\ i # b[c]
        BY <1>2, <1>10, <3>2
      <4>2. QED
        BY <3>1, <3>2, <4>1, CopiesOf
    <3>3. CASE d = c /\ c \notin DOMAIN r
      <4>1. i \in 1..b[c] <=> i = b[c]
        BY <1>2, <1>10, <3>3
      <4>2. QED
        BY <3>1, <3>3, <4>1, CopiesOf
    <3>4. CASE d # c
      <4>1. d \in DOMAIN r <=> d \in DOMAIN b
        BY <1>9, <3>4
      <4>2. d \in DOMAIN b => r[d] = b[d]
        BY <1>9, <3>4
      <4>3. QED
        BY <3>1, <3>4, <4>1, <4>2, CopiesOf
    <3>5. QED
      BY <3>2, <3>3, <3>4
  <2>2. \A k \in Copies(b) \ {old} : \E d, i : k = <<d, i>>
    BY CopiesAre
  <2>3. QED
    BY <2>1, <2>2, SameCopies
<1>14. /\ IsFiniteSet(Copies(r))
       /\ Cardinality(Copies(r)) = Cardinality(Copies(b)) - 1
  BY <1>12, <1>13, FS_RemoveElement DEF FiniteBag
<1>15. Cardinality(Copies(r)) \in Nat /\ Cardinality(Copies(b)) \in Nat
  BY <1>14, FS_CardinalityType DEF FiniteBag
<1>16. Size(r) + 1 = Size(b) /\ Size(r) \in Nat
  BY <1>14, <1>15 DEF Size
<1>17. FiniteBag(r)
  BY <1>7, <1>11, <1>14, InABag DEF FiniteBag
<1>18. QED
  BY <1>9, <1>10, <1>11, <1>16, <1>17 DEF IsOneLess

\* Requests that are all sent at once.
AreMore(r, b, S) ==
  /\ FiniteBag(r)
  /\ DOMAIN r = DOMAIN b \union S
  /\ \A d \in DOMAIN b : d \notin S => r[d] = b[d]

LEMMA SomeMore ==
  ASSUME NEW b, FiniteBag(b), NEW S, IsFiniteSet(S)
  PROVE  AreMore(b (+) SetToBag(S), b, S)
<1> PICK r : r = b (+) SetToBag(S)
  OBVIOUS
<1>1. DOMAIN SetToBag(S) = S /\ \A d \in S : SetToBag(S)[d] = 1
  BY DEF SetToBag
<1>2. r = [d \in DOMAIN r |-> r[d]]
  BY DEF (+)
<1>3. /\ DOMAIN r = DOMAIN b \union S
      /\ \A d \in DOMAIN r : r[d] = (IF d \in DOMAIN b THEN b[d] ELSE 0) + (IF d \in S THEN 1 ELSE 0)
  BY <1>1 DEF (+)
<1>4. \A d \in DOMAIN b : b[d] \in Nat /\ b[d] > 0
  BY InABag DEF FiniteBag
<1>5. \A d \in DOMAIN b : d \notin S => r[d] = b[d]
  BY <1>3, <1>4
<1>6. \A d \in DOMAIN r : r[d] \in Nat /\ r[d] > 0
  <2> TAKE d \in DOMAIN r
  <2>1. CASE d \in S
    <3>1. r[d] = (IF d \in DOMAIN b THEN b[d] ELSE 0) + 1
      BY <1>3, <2>1
    <3>2. QED
      BY <1>4, <3>1
  <2>2. CASE d \notin S
    BY <1>3, <1>4, <1>5, <2>2
  <2>3. QED
    BY <2>1, <2>2
<1> DEFINE last  == [d \in S |-> <<d, r[d]>>]
           lasts == {last[d] : d \in S}
<1>7. IsFiniteSet(lasts)
  <2>1. last \in Surjection(S, lasts)
    BY DEF Surjection
  <2> HIDE DEF last, lasts
  <2>2. QED
    BY <2>1, FS_Surjection
<1>8. \A d, i : <<d, i>> \in lasts <=> d \in S /\ i = r[d]
  OBVIOUS
<1>9. Copies(r) \subseteq Copies(b) \union lasts
  <2>1. ASSUME NEW d, NEW i, <<d, i>> \in Copies(r)
        PROVE  <<d, i>> \in Copies(b) \union lasts
    <3>1. d \in DOMAIN r /\ i \in 1..r[d]
      BY <2>1, CopiesOf
    <3>2. CASE d \notin S
      <4>1. d \in DOMAIN b /\ r[d] = b[d]
        BY <1>3, <1>5, <3>1, <3>2
      <4>2. QED
        BY <3>1, <4>1, CopiesOf
    <3>3. CASE d \in S /\ d \in DOMAIN b
      <4>1. r[d] = b[d] + 1 /\ b[d] \in Nat
        BY <1>3, <1>4, <3>1, <3>3
      <4>2. i \in 1..b[d] \/ i = r[d]
        BY <3>1, <4>1
      <4>3. QED
        BY <1>8, <3>3, <4>2, CopiesOf
    <3>4. CASE d \in S /\ d \notin DOMAIN b
      <4>1. r[d] = 1
        BY <1>3, <3>1, <3>4
      <4>2. i = r[d]
        BY <3>1, <4>1
      <4>3. QED
        BY <1>8, <3>4, <4>2
    <3>5. QED
      BY <3>2, <3>3, <3>4
  <2>2. \A k \in Copies(r) : \E d, i : k = <<d, i>>
    BY CopiesAre
  <2> HIDE DEF lasts
  <2>3. QED
    BY <2>1, <2>2
<1>10. IsFiniteSet(Copies(r))
  <2> HIDE DEF lasts
  <2>1. IsFiniteSet(Copies(b) \union lasts)
    BY <1>7, FS_Union DEF FiniteBag
  <2>2. QED
    BY <1>9, <2>1, FS_Subset
<1>11. IsABag(r)
  BY <1>2, <1>6, InABag
<1>12. QED
  BY <1>3, <1>5, <1>10, <1>11 DEF AreMore, FiniteBag

LEMMA NoneMore ==
  ASSUME NEW b, FiniteBag(b)
  PROVE  b (+) EmptyBag = b
<1>1. DOMAIN EmptyBag = {}
  BY EmptyIsFinite
<1>2. b (+) EmptyBag = [d \in DOMAIN b |-> b[d] + 0]
  BY <1>1 DEF (+)
<1>3. b = [d \in DOMAIN b |-> b[d]] /\ \A d \in DOMAIN b : b[d] \in Nat
  BY InABag DEF FiniteBag
<1>4. [d \in DOMAIN b |-> b[d] + 0] = [d \in DOMAIN b |-> b[d]]
  BY <1>3
<1>5. QED
  BY <1>2, <1>3, <1>4

-----------------------------------------------------------------------------
(* Requests that become others, f[c] for c, some of which are left out: no  *)
(* more of them are left than there were.                                   *)

AreLeft(r, b, D) == FiniteBag(r) /\ Size(r) <= Size(b) /\ DOMAIN r = D

LEMMA PassedOn ==
  ASSUME NEW b, FiniteBag(b), NEW f, NEW D, D \subseteq {f[c] : c \in DOMAIN b}
  PROVE  AreLeft([d \in D |-> Cardinality({k \in Copies(b) : f[k[1]] = d})], b, D)
<1> PICK r : r = [d \in D |-> Cardinality({k \in Copies(b) : f[k[1]] = d})]
  OBVIOUS
<1> DEFINE from(d) == {k \in Copies(b) : f[k[1]] = d}
<1>1. \A d : from(d) \subseteq Copies(b) /\ IsFiniteSet(from(d))
  <2>1. \A d : from(d) \in SUBSET Copies(b)
    OBVIOUS
  <2>2. QED
    BY <2>1, FS_Subset DEF FiniteBag
<1>2. \A d : Cardinality(from(d)) \in Nat /\ ExistsBijection(1..Cardinality(from(d)), from(d))
  BY <1>1, FS_CardinalityType
<1>3. \A d \in D : from(d) # {}
  <2>1. ASSUME NEW d \in D
        PROVE  from(d) # {}
    <3>1. PICK c \in DOMAIN b : f[c] = d
      OBVIOUS
    <3>2. 1 \in 1..b[c]
      BY InABag DEF FiniteBag
    <3>3. <<c, 1>> \in Copies(b) /\ <<c, 1>>[1] = c
      BY <3>2, CopiesOf
    <3>4. <<c, 1>> \in from(d)
      BY <3>1, <3>3
    <3>5. QED
      BY <3>4
  <2>2. QED
    BY <2>1
<1> HIDE DEF from
<1>4. /\ DOMAIN r = D
      /\ \A d \in D : r[d] = Cardinality(from(d))
  BY DEF from
<1>5. r = [d \in DOMAIN r |-> r[d]]
  OBVIOUS
<1>6. \A d \in D : r[d] \in Nat /\ r[d] > 0
  <2>1. ASSUME NEW d \in D
        PROVE  r[d] \in Nat /\ r[d] > 0
    <3>1. Cardinality(from(d)) \in Nat /\ Cardinality(from(d)) # 0
      BY <1>1, <1>2, <1>3, FS_EmptySet
    <3>2. QED
      BY <1>4, <3>1
  <2>2. QED
    BY <2>1
<1>7. IsABag(r)
  BY <1>4, <1>5, <1>6, InABag
\* Each copy in r is one in b, counted through.
<1> DEFINE nth(d) == CHOOSE g : g \in Bijection(1..Cardinality(from(d)), from(d))
<1>8. \A d : nth(d) \in Bijection(1..Cardinality(from(d)), from(d))
  BY <1>2 DEF ExistsBijection
<1> HIDE DEF nth
<1>9. /\ \A d \in D : \A i \in 1..r[d] : nth(d)[i] \in from(d)
      /\ \A d \in D : \A i, j \in 1..r[d] : nth(d)[i] = nth(d)[j] => i = j
  <2>1. ASSUME NEW d \in D
        PROVE  /\ \A i \in 1..r[d] : nth(d)[i] \in from(d)
               /\ \A i, j \in 1..r[d] : nth(d)[i] = nth(d)[j] => i = j
    <3>1. nth(d) \in Bijection(1..r[d], from(d))
      BY <1>4, <1>8
    <3> HIDE DEF nth
    <3>2. QED
      BY <3>1 DEF Bijection, Injection, Surjection, IsInjective
  <2>2. QED
    BY <2>1
<1> DEFINE orig == [k \in Copies(r) |-> nth(k[1])[k[2]]]
<1>10. \A k \in Copies(r) : /\ k = <<k[1], k[2]>> /\ k[1] \in D /\ k[2] \in 1..r[k[1]]
                            /\ orig[k] = nth(k[1])[k[2]] /\ orig[k] \in from(k[1])
  <2>1. ASSUME NEW k \in Copies(r)
        PROVE  k = <<k[1], k[2]>> /\ k[1] \in D /\ k[2] \in 1..r[k[1]]
    <3>1. PICK d \in DOMAIN r : \E i \in 1..r[d] : k = <<d, i>>
      BY CopiesAre
    <3>2. QED
      BY <1>4, <3>1
  <2>2. QED
    BY <1>9, <2>1
<1>11. orig \in Injection(Copies(r), Copies(b))
  <2>1. orig \in [Copies(r) -> Copies(b)]
    BY <1>1, <1>10
  <2>2. ASSUME NEW k \in Copies(r), NEW l \in Copies(r), orig[k] = orig[l]
        PROVE  k = l
    <3>1. f[orig[k][1]] = k[1] /\ f[orig[l][1]] = l[1]
      BY <1>10 DEF from
    <3>2. k[1] = l[1]
      BY <2>2, <3>1
    <3>3. k[2] = l[2]
      <4>1. nth(k[1])[k[2]] = nth(k[1])[l[2]] /\ k[2] \in 1..r[k[1]] /\ l[2] \in 1..r[k[1]]
        BY <1>10, <2>2, <3>2
      <4>2. QED
        BY <1>9, <1>10, <4>1
    <3>4. QED
      BY <1>10, <3>2, <3>3
  <2> HIDE DEF orig
  <2>3. QED
    BY <2>1, <2>2 DEF Injection, IsInjective
<1>12. IsFiniteSet(Copies(r)) /\ Cardinality(Copies(r)) <= Cardinality(Copies(b))
  <2> HIDE DEF orig
  <2>1. QED
    BY <1>11, FS_Injection DEF FiniteBag
<1>13. QED
  BY <1>4, <1>7, <1>12 DEF AreLeft, FiniteBag, Size
=============================================================================
