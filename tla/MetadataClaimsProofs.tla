------------------------ MODULE MetadataClaimsProofs ------------------------
(***************************************************************************)
(* Theorems about MetadataClaims, for any fields, values and editors.      *)
(***************************************************************************)
EXTENDS MetadataClaims, FiniteSetTheorems, SequenceTheorems, TLAPS

-----------------------------------------------------------------------------
(***************************************************************************)
(* Sets as sequences, and the greatest place of a set of places.           *)
(***************************************************************************)
\* SetToSeq lists every member of a finite set.
LEMMA SetToSeqLists ==
    ASSUME NEW S, IsFiniteSet(S)
    PROVE  /\ SetToSeq(S) \in Seq(S)
           /\ Len(SetToSeq(S)) = Cardinality(S) /\ Cardinality(S) \in Nat
           /\ \A x \in S : \E i \in 1..Len(SetToSeq(S)) : SetToSeq(S)[i] = x
<1> DEFINE n == Cardinality(S)
           s == SetToSeq(S)
<1>1. n \in Nat /\ ExistsBijection(1..n, S)
  BY FS_CardinalityType
<1>2. PICK b : b \in Bijection(1..n, S)
  BY <1>1 DEF ExistsBijection
<1>3. b \in [1..n -> S] /\ IsInjective(b)
  BY <1>2 DEF Bijection, Injection, Surjection, IsInjective
<1>4. s \in [1..n -> S] /\ IsInjective(s)
  BY <1>3 DEF SetToSeq
<1>5. s \in Seq(S) /\ Len(s) = n
  BY <1>1, <1>4
<1>6. s \in Injection(1..n, S)
  BY <1>4 DEF Injection, IsInjective
<1>7. s \in Surjection(1..n, S)
  <2>1. IsFiniteSet(1..n) /\ Cardinality(1..n) = n
    BY <1>1, FS_Interval
  <2> QED BY <1>6, <2>1, FS_Injection
<1>8. \A x \in S : \E i \in 1..n : s[i] = x
  BY <1>7 DEF Surjection
<1> QED BY <1>1, <1>5, <1>8

\* A set of places that is not empty has a greatest one.
LEMMA MaxOfPlaces ==
    ASSUME NEW n \in Nat, NEW S \in SUBSET (1..n), S # {}
    PROVE  Max(S) \in S /\ \A i \in S : i <= Max(S)
<1> DEFINE Above == {k \in Nat : \A i \in S : i <= k}
<1>1. n \in Above /\ Above \subseteq Nat
  OBVIOUS
<1>2. \E m \in Above : \A k \in Above : ~(<<k, m>> \in OpToRel(<, Nat))
  BY <1>1, NatLessThanWellFounded, WFMin
<1>3. PICK m \in Above : \A k \in Above : ~(k < m)
  BY <1>2 DEF OpToRel
<1>4. m \in S
  <2> SUFFICES ASSUME m \notin S PROVE FALSE
    OBVIOUS
  <2>1. m # 0
    <3>1. PICK i \in S : TRUE
      OBVIOUS
    <3>2. i \in 1..n /\ i <= m
      BY <1>3, <3>1
    <3> QED BY <3>2
  <2>2. m - 1 \in Above
    BY <1>3, <2>1
  <2> QED BY <1>3, <2>2, <2>1
<1>5. \E x \in S : \A y \in S : x >= y
  BY <1>3, <1>4
<1> QED BY <1>5 DEF Max

-----------------------------------------------------------------------------
(***************************************************************************)
(* Collections of claims: what each change does to them.                   *)
(***************************************************************************)
\* A claim with any number.
AnyClaim == [id : Nat, field : Fields, value : Values, rejected : BOOLEAN]

\* A collection whose claims have different numbers up to n.
Numbered(claims, n) ==
    /\ claims \in Seq(AnyClaim)
    /\ \A i \in DOMAIN claims : claims[i].id \in 1..n
    /\ \A i, j \in DOMAIN claims : claims[i].id = claims[j].id => i = j

\* Two claims that differ at most in being rejected.
SameButRejected(c, d) == c.id = d.id /\ c.field = d.field /\ c.value = d.value

\* A collection made of old by adding claims, with the numbers after n.
Grown(old, new, n) ==
    /\ Len(new) \in Nat /\ Len(old) <= Len(new)
    /\ Numbered(new, n + Len(new) - Len(old))

Kept(old, new) == \A i \in DOMAIN old : i \in DOMAIN new /\ new[i] = old[i]

\* After the first b claims there is an active one for each pair, in their order.
AddsLast(b, new, pairs) ==
    /\ b \in Nat /\ Len(new) = b + Len(pairs)
    /\ \A i \in DOMAIN pairs :
         /\ new[b + i].field = pairs[i][1] /\ new[b + i].value = pairs[i][2]
         /\ ~new[b + i].rejected

LEMMA NumberedDomain ==
    ASSUME NEW claims, NEW n, Numbered(claims, n)
    PROVE  /\ Len(claims) \in Nat /\ DOMAIN claims = 1..Len(claims)
           /\ \A i \in DOMAIN claims : claims[i] \in AnyClaim
BY DEF Numbered

\* Numbers may be left out.
LEMMA NumberedMore ==
    ASSUME NEW claims, NEW n \in Nat, NEW m \in Nat, n <= m, Numbered(claims, n)
    PROVE  Numbered(claims, m)
BY DEF Numbered

\* Rejecting any claims leaves the collection numbered.
LEMMA RejectionNumbered ==
    ASSUME NEW claims, NEW n \in Nat, Numbered(claims, n), NEW r,
           r \in [DOMAIN claims -> AnyClaim],
           \A i \in DOMAIN claims : r[i].id = claims[i].id
    PROVE  Numbered(r, n) /\ Len(r) = Len(claims)
<1>1. Len(claims) \in Nat /\ DOMAIN claims = 1..Len(claims)
  BY NumberedDomain
<1>2. r \in Seq(AnyClaim) /\ DOMAIN r = DOMAIN claims /\ Len(r) = Len(claims)
  BY <1>1
<1> QED BY <1>2 DEF Numbered

LEMMA RejectedClaims ==
    ASSUME NEW claims, NEW n \in Nat, Numbered(claims, n), NEW ids
    PROVE  LET r == Rejected(claims, ids) IN
           /\ Numbered(r, n) /\ Len(r) = Len(claims)
           /\ \A i \in DOMAIN claims :
                /\ SameButRejected(r[i], claims[i])
                /\ r[i].rejected <=> claims[i].rejected \/ claims[i].id \in ids
<1> DEFINE r == Rejected(claims, ids)
<1>1. \A i \in DOMAIN claims : claims[i] \in AnyClaim
  BY NumberedDomain
<1>2. \A i \in DOMAIN claims :
        /\ r[i] \in AnyClaim /\ SameButRejected(r[i], claims[i])
        /\ r[i].rejected <=> claims[i].rejected \/ claims[i].id \in ids
  BY <1>1 DEF Rejected, AnyClaim, SameButRejected
<1>3. r \in [DOMAIN claims -> AnyClaim]
  BY <1>2 DEF Rejected
<1>4. \A i \in DOMAIN claims : r[i].id = claims[i].id
  BY <1>2 DEF SameButRejected
<1>5. Numbered(r, n) /\ Len(r) = Len(claims)
  BY <1>3, <1>4, RejectionNumbered
<1> QED BY <1>2, <1>5

\* New claims take the numbers after n, one for each pair of field and value.
LEMMA ClaimsMade ==
    ASSUME NEW pairs \in Seq(Fields \X Values), NEW n \in Nat
    PROVE  LET c == NewClaims(pairs, n) IN
           /\ c \in Seq(AnyClaim) /\ Len(c) = Len(pairs) /\ Len(c) \in Nat
           /\ \A i \in 1..Len(c) : /\ c[i].id = n + i /\ c[i].field = pairs[i][1]
                                   /\ c[i].value = pairs[i][2] /\ ~c[i].rejected
<1> DEFINE c == NewClaims(pairs, n)
<1>1. Len(pairs) \in Nat /\ \A i \in 1..Len(pairs) : pairs[i] \in Fields \X Values
  OBVIOUS
<1>2. \A i \in 1..Len(pairs) : pairs[i][1] \in Fields /\ pairs[i][2] \in Values
  BY <1>1
<1>3. c = [i \in 1..Len(pairs) |->
            [id |-> n + i, field |-> pairs[i][1], value |-> pairs[i][2], rejected |-> FALSE]]
  BY DEF NewClaims
<1> HIDE DEF c
<1>4. \A i \in 1..Len(pairs) : /\ c[i] \in AnyClaim /\ c[i].id = n + i
                               /\ c[i].field = pairs[i][1] /\ c[i].value = pairs[i][2]
                               /\ ~c[i].rejected
  BY <1>1, <1>2, <1>3 DEF AnyClaim
<1>5. c \in Seq(AnyClaim) /\ Len(c) = Len(pairs)
  BY <1>1, <1>3, <1>4
<1> QED BY <1>1, <1>4, <1>5 DEF c

\* Appended to a collection, they leave it as it was and numbered.
LEMMA AppendedClaims ==
    ASSUME NEW claims, NEW n \in Nat, Numbered(claims, n),
           NEW pairs \in Seq(Fields \X Values)
    PROVE  LET m == claims \o NewClaims(pairs, n) IN
           Grown(claims, m, n) /\ Kept(claims, m) /\ AddsLast(Len(claims), m, pairs)
<1> DEFINE c == NewClaims(pairs, n)
           m == claims \o c
<1>1. /\ c \in Seq(AnyClaim) /\ Len(c) \in Nat /\ Len(c) = Len(pairs)
      /\ \A i \in 1..Len(c) : /\ c[i].id = n + i /\ c[i].field = pairs[i][1]
                              /\ c[i].value = pairs[i][2] /\ ~c[i].rejected
  BY ClaimsMade
<1> HIDE DEF c
<1>2. claims \in Seq(AnyClaim) /\ Len(claims) \in Nat /\ DOMAIN claims = 1..Len(claims)
  BY NumberedDomain DEF Numbered
<1>3. /\ m \in Seq(AnyClaim) /\ Len(m) = Len(claims) + Len(c) /\ DOMAIN m = 1..Len(m)
      /\ \A i \in 1..Len(claims) : m[i] = claims[i]
      /\ \A i \in 1..Len(c) : m[Len(claims) + i] = c[i]
  <2>1. c \in Seq(AnyClaim) /\ Len(c) \in Nat
    BY <1>1
  <2> QED BY <1>2, <2>1
<1> HIDE DEF m
<1>4. \A i \in DOMAIN m \ DOMAIN claims :
        /\ i - Len(claims) \in 1..Len(c) /\ m[i] = c[i - Len(claims)]
  <2> TAKE i \in DOMAIN m \ DOMAIN claims
  <2> DEFINE k == i - Len(claims)
  <2>1. i \in 1..Len(m) /\ i \notin 1..Len(claims)
    BY <1>2, <1>3
  <2>2. Len(m) = Len(claims) + Len(c) /\ Len(claims) \in Nat /\ Len(c) \in Nat
    BY <1>1, <1>2, <1>3
  <2>3. k \in 1..Len(c) /\ Len(claims) + k = i
    BY <2>1, <2>2
  <2>4. m[Len(claims) + k] = c[k]
    BY <1>3, <2>3
  <2> QED BY <2>3, <2>4
<1>5. \A i \in DOMAIN m \ DOMAIN claims : m[i].id = n + (i - Len(claims))
  BY <1>1, <1>4
<1>6. \A i \in DOMAIN m : m[i].id \in 1..(n + Len(m) - Len(claims))
  <2> TAKE i \in DOMAIN m
  <2>1. CASE i \in DOMAIN claims
    <3>1. m[i].id \in 1..n
      BY <1>2, <1>3, <2>1 DEF Numbered
    <3> QED BY <3>1, <1>1, <1>2, <1>3
  <2>2. CASE i \notin DOMAIN claims
    <3>1. m[i].id = n + (i - Len(claims)) /\ i - Len(claims) \in 1..Len(c)
      BY <1>4, <1>5, <2>2
    <3> QED BY <3>1, <1>1, <1>2, <1>3
  <2> QED BY <2>1, <2>2
<1>7. ASSUME NEW i \in DOMAIN m, NEW j \in DOMAIN m, m[i].id = m[j].id
      PROVE  i = j
  <2>1. CASE i \in DOMAIN claims /\ j \in DOMAIN claims
    BY <1>2, <1>3, <1>7, <2>1 DEF Numbered
  <2>2. CASE i \in DOMAIN claims /\ j \notin DOMAIN claims
    <3>1. m[i].id \in 1..n /\ m[j].id = n + (j - Len(claims)) /\ j - Len(claims) \in 1..Len(c)
      BY <1>2, <1>3, <1>4, <1>5, <2>2 DEF Numbered
    <3> QED BY <3>1, <1>1, <1>7
  <2>3. CASE i \notin DOMAIN claims /\ j \in DOMAIN claims
    <3>1. m[j].id \in 1..n /\ m[i].id = n + (i - Len(claims)) /\ i - Len(claims) \in 1..Len(c)
      BY <1>2, <1>3, <1>4, <1>5, <2>3 DEF Numbered
    <3> QED BY <3>1, <1>1, <1>7
  <2>4. CASE i \notin DOMAIN claims /\ j \notin DOMAIN claims
    <3>1. /\ m[i].id = n + (i - Len(claims)) /\ i \in Int
          /\ m[j].id = n + (j - Len(claims)) /\ j \in Int
      BY <1>3, <1>5, <2>4
    <3> QED BY <3>1, <1>2, <1>7
  <2> QED BY <2>1, <2>2, <2>3, <2>4
<1>8. Numbered(m, n + Len(m) - Len(claims))
  BY <1>3, <1>6, <1>7 DEF Numbered
<1>9. Grown(claims, m, n) /\ Kept(claims, m)
  BY <1>1, <1>2, <1>3, <1>8 DEF Grown, Kept
<1>10. AddsLast(Len(claims), m, pairs)
  <2>1. DOMAIN pairs = 1..Len(c) /\ Len(m) = Len(claims) + Len(pairs)
    BY <1>1, <1>3
  <2>2. \A i \in DOMAIN pairs : m[Len(claims) + i] = c[i]
    BY <1>3, <2>1
  <2> QED BY <1>1, <1>2, <2>1, <2>2 DEF AddsLast
<1> QED BY <1>9, <1>10 DEF m, c

\* The places that were added are those of the pairs.
LEMMA PlacesAdded ==
    ASSUME NEW new, NEW b, NEW n, NEW pairs \in Seq(Fields \X Values),
           Numbered(new, n), AddsLast(b, new, pairs)
    PROVE  /\ \A i \in DOMAIN new : i > b => i - b \in DOMAIN pairs /\ new[i] = new[b + (i - b)]
           /\ \A i \in DOMAIN pairs : b + i \in DOMAIN new /\ b + i > b
<1>1. /\ DOMAIN new = 1..Len(new) /\ Len(new) = b + Len(pairs) /\ b \in Nat
      /\ Len(pairs) \in Nat /\ DOMAIN pairs = 1..Len(pairs)
  BY NumberedDomain DEF AddsLast
<1>2. \A i \in 1..(b + Len(pairs)) : i > b => i - b \in 1..Len(pairs) /\ b + (i - b) = i
  BY <1>1
<1>3. \A i \in 1..Len(pairs) : b + i \in 1..(b + Len(pairs)) /\ b + i > b
  BY <1>1
<1> QED BY <1>1, <1>2, <1>3

-----------------------------------------------------------------------------
(***************************************************************************)
(* What a form does to the claims in memory.                               *)
(***************************************************************************)
LEMMA BodyValues ==
    /\ "judges" \in Fields
    /\ \A f \in Fields : Body[f] \in SUBSET Values /\ IsFiniteSet(Body[f])
BY FieldsAssumption, BodyAssumption DEF Fields

\* The judges of the body as pairs of field and value.
LEMMA BodyJudges ==
    LET pairs == SetToSeq(InBody({"judges"})) IN
    /\ pairs \in Seq(Fields \X Values)
    /\ \A i \in DOMAIN pairs : pairs[i][1] = "judges" /\ pairs[i][2] \in Body["judges"]
    /\ \A v \in Body["judges"] : \E i \in DOMAIN pairs : pairs[i] = <<"judges", v>>
<1> DEFINE said == InBody({"judges"})
           pairs == SetToSeq(said)
<1>1. said = {"judges"} \X Body["judges"]
  BY DEF InBody
<1>2. IsFiniteSet(said)
  <2>1. IsFiniteSet({"judges"}) /\ IsFiniteSet(Body["judges"])
    BY BodyValues, FS_Singleton
  <2> QED BY <1>1, <2>1, FS_Product
<1> HIDE DEF said
<1>3. /\ pairs \in Seq(said)
      /\ \A x \in said : \E i \in 1..Len(pairs) : pairs[i] = x
  BY <1>2, SetToSeqLists
<1>4. said \subseteq Fields \X Values
  BY <1>1, BodyValues
<1> HIDE DEF pairs
<1>5. DOMAIN pairs = 1..Len(pairs) /\ \A i \in DOMAIN pairs : pairs[i] \in said
  BY <1>3
<1>6. pairs \in Seq(Fields \X Values)
  BY <1>3, <1>4, <1>5
<1>7. \A v \in Body["judges"] : <<"judges", v>> \in said
  BY <1>1
<1>8. \A x \in said : x[1] = "judges" /\ x[2] \in Body["judges"]
  BY <1>1
<1> QED BY <1>3, <1>5, <1>6, <1>7, <1>8 DEF pairs, said

\* The claims of new only add judges of the body, and only where no judge's
\* claim was among the old ones.
OnlyJudges(old, new) ==
    \A i \in DOMAIN new \ DOMAIN old :
        /\ new[i].field = "judges" /\ new[i].value \in Body["judges"]
        /\ AllClaims(old, "judges") = {}

JudgesListed(claims) ==
    \A v \in Body["judges"] : \E i \in AllClaims(claims, "judges") : claims[i].value = v

\* A collection grows by no claim.
LEMMA SameGrown ==
    ASSUME NEW claims, NEW n \in Nat, Numbered(claims, n)
    PROVE  Grown(claims, claims, n) /\ Kept(claims, claims) /\ OnlyJudges(claims, claims)
<1>1. Len(claims) \in Nat /\ n + Len(claims) - Len(claims) = n
  BY NumberedDomain
<1> QED BY <1>1 DEF Grown, Kept, OnlyJudges

LEMMA MaterialisedClaims ==
    ASSUME NEW claims, NEW n \in Nat, Numbered(claims, n)
    PROVE  LET m == Materialised(claims, n) IN
           /\ Grown(claims, m, n) /\ Kept(claims, m) /\ OnlyJudges(claims, m)
           /\ AllClaims(claims, "judges") = {} => JudgesListed(m)
<1> DEFINE m == Materialised(claims, n)
<1>1. CASE AllClaims(claims, "judges") # {}
  <2>1. m = claims
    BY <1>1 DEF Materialised
  <2> QED BY <1>1, <2>1, SameGrown
<1>2. CASE AllClaims(claims, "judges") = {}
  <2> DEFINE pairs == SetToSeq(InBody({"judges"}))
  <2>1. m = claims \o NewClaims(pairs, n)
    BY <1>2 DEF Materialised
  <2>2. /\ pairs \in Seq(Fields \X Values)
        /\ \A i \in DOMAIN pairs : pairs[i][1] = "judges" /\ pairs[i][2] \in Body["judges"]
        /\ \A v \in Body["judges"] : \E i \in DOMAIN pairs : pairs[i] = <<"judges", v>>
    BY BodyJudges
  <2> HIDE DEF m, pairs
  <2>3. Grown(claims, m, n) /\ Kept(claims, m) /\ AddsLast(Len(claims), m, pairs)
    BY <2>1, <2>2, AppendedClaims
  <2>4. /\ \A i \in DOMAIN m : i > Len(claims) =>
                i - Len(claims) \in DOMAIN pairs /\ m[i] = m[Len(claims) + (i - Len(claims))]
        /\ \A i \in DOMAIN pairs : Len(claims) + i \in DOMAIN m
    BY <2>2, <2>3, PlacesAdded DEF Grown
  <2>5. JudgesListed(m)
    <3> SUFFICES ASSUME NEW v \in Body["judges"]
                 PROVE  \E i \in AllClaims(m, "judges") : m[i].value = v
      BY DEF JudgesListed
    <3>1. PICK i \in DOMAIN pairs : pairs[i] = <<"judges", v>>
      BY <2>2
    <3>2. Len(claims) + i \in DOMAIN m
      BY <2>4
    <3>3. m[Len(claims) + i].field = "judges" /\ m[Len(claims) + i].value = v
      BY <2>3, <3>1 DEF AddsLast
    <3> QED BY <3>2, <3>3 DEF AllClaims
  <2>6. OnlyJudges(claims, m)
    <3> SUFFICES ASSUME NEW i \in DOMAIN m \ DOMAIN claims
                 PROVE  m[i].field = "judges" /\ m[i].value \in Body["judges"]
      BY <1>2 DEF OnlyJudges
    <3>1. i > Len(claims)
      BY <2>3, NumberedDomain DEF Grown
    <3> QED BY <2>2, <2>3, <2>4, <3>1 DEF AddsLast
  <2> QED BY <2>3, <2>5, <2>6 DEF m
<1> QED BY <1>1, <1>2

\* Of the old claims those of the judges, and no other, have been rejected,
SuppressedOnly(old, new, judges) ==
    \A i \in DOMAIN old :
        /\ i \in DOMAIN new /\ SameButRejected(new[i], old[i])
        /\ new[i].rejected <=>
             old[i].rejected \/ (old[i].field = "judges" /\ old[i].value \in judges)

\* and no claim says that there is such a judge.
AllSuppressed(claims, judges) ==
    \A i \in AllClaims(claims, "judges") : claims[i].value \in judges => claims[i].rejected

LEMMA SuppressedClaims ==
    ASSUME NEW claims, NEW n \in Nat, Numbered(claims, n), NEW judges
    PROVE  LET s == Suppressed(claims, judges, n) IN
           /\ Grown(claims, s, n) /\ OnlyJudges(claims, s)
           /\ SuppressedOnly(claims, s, judges) /\ AllSuppressed(s, judges)
           /\ judges # {} /\ judges \subseteq JudgeValues(claims) => AllClaims(s, "judges") # {}
<1> DEFINE s == Suppressed(claims, judges, n)
<1>0. /\ Len(claims) \in Nat /\ DOMAIN claims = 1..Len(claims)
      /\ \A i \in DOMAIN claims : claims[i] \in AnyClaim
  BY NumberedDomain
<1>1. CASE judges = {}
  <2>1. s = claims
    BY <1>1 DEF Suppressed
  <2>2. Grown(claims, s, n) /\ OnlyJudges(claims, s)
    BY <2>1, SameGrown
  <2>3. SuppressedOnly(claims, s, judges) /\ AllSuppressed(s, judges)
    BY <1>0, <1>1, <2>1 DEF SuppressedOnly, AllSuppressed, SameButRejected
  <2> QED BY <1>1, <2>2, <2>3
<1>2. CASE judges # {}
  <2> DEFINE m == Materialised(claims, n)
  <2>1. /\ Grown(claims, m, n) /\ Kept(claims, m) /\ OnlyJudges(claims, m)
        /\ AllClaims(claims, "judges") = {} => JudgesListed(m)
    BY MaterialisedClaims
  <2>2. s = [i \in DOMAIN m |->
              [m[i] EXCEPT !.rejected = @ \/ (m[i].field = "judges" /\ m[i].value \in judges)]]
    BY <1>2 DEF Suppressed
  <2> HIDE DEF m, s
  <2>3. /\ Len(m) \in Nat /\ Len(claims) <= Len(m)
        /\ Numbered(m, n + Len(m) - Len(claims))
        /\ \A i \in DOMAIN m : m[i] \in AnyClaim
    BY <2>1, NumberedDomain DEF Grown
  <2>4. \A i \in DOMAIN m :
          /\ s[i] \in AnyClaim /\ SameButRejected(s[i], m[i])
          /\ s[i].rejected <=>
               m[i].rejected \/ (m[i].field = "judges" /\ m[i].value \in judges)
    BY <2>2, <2>3 DEF AnyClaim, SameButRejected
  <2>5. s \in [DOMAIN m -> AnyClaim] /\ DOMAIN s = DOMAIN m
    BY <2>2, <2>4
  <2>6. \A i \in DOMAIN m : s[i].id = m[i].id
    BY <2>4 DEF SameButRejected
  <2>7. n + Len(m) - Len(claims) \in Nat
    BY <1>0, <2>3
  <2>8. Grown(claims, s, n)
    BY <2>3, <2>5, <2>6, <2>7, RejectionNumbered DEF Grown
  <2>9. SuppressedOnly(claims, s, judges)
    BY <2>1, <2>4, <2>5 DEF SuppressedOnly, Kept
  <2>10. OnlyJudges(claims, s)
    BY <2>1, <2>4, <2>5 DEF OnlyJudges, SameButRejected
  <2>11. AllSuppressed(s, judges)
    BY <2>4, <2>5 DEF AllSuppressed, AllClaims, SameButRejected
  <2>12. ASSUME judges \subseteq JudgeValues(claims)
         PROVE  AllClaims(s, "judges") # {}
    <3>1. CASE AllClaims(claims, "judges") = {}
      <4>1. PICK v \in judges : v \in Body["judges"]
        BY <1>2, <2>12, <3>1 DEF JudgeValues
      <4>2. PICK i \in AllClaims(m, "judges") : m[i].value = v
        BY <2>1, <3>1, <4>1 DEF JudgesListed
      <4> QED BY <2>4, <2>5, <4>2 DEF AllClaims, SameButRejected
    <3>2. CASE AllClaims(claims, "judges") # {}
      <4>1. PICK i \in DOMAIN claims : claims[i].field = "judges"
        BY <3>2 DEF AllClaims
      <4> QED BY <2>9, <4>1 DEF AllClaims, SuppressedOnly, SameButRejected
    <3> QED BY <3>1, <3>2
  <2> QED BY <2>8, <2>9, <2>10, <2>11, <2>12 DEF s
<1> QED BY <1>1, <1>2

\* The new claims of a form.
AddForm(add) == add \in Seq(Fields \X Values)

\* Apart from what the form adds there are only the judges of the body.
AddsOnly(old, new, add) ==
    \A i \in DOMAIN new \ DOMAIN old :
        \/ <<new[i].field, new[i].value>> \in ToSet(add)
        \/ /\ new[i].field = "judges" /\ new[i].value \in Body["judges"]
           /\ AllClaims(old, "judges") = {}

\* The new claims of the form come last, after b others.
AddsAll(old, new, add) == \E b \in Nat : Len(old) <= b /\ AddsLast(b, new, add)

LEMMA AddedClaims ==
    ASSUME NEW claims, NEW n \in Nat, Numbered(claims, n),
           NEW add, AddForm(add), NEW keep \in BOOLEAN
    PROVE  LET a == Added(claims, add, keep, n) IN
           /\ Grown(claims, a, n) /\ Kept(claims, a)
           /\ AddsOnly(claims, a, add) /\ AddsAll(claims, a, add)
<1> DEFINE m == Keeping(claims, add, keep, n)
           k == n + Len(m) - Len(claims)
           a == Added(claims, add, keep, n)
<1>0. Len(claims) \in Nat /\ DOMAIN claims = 1..Len(claims)
  BY NumberedDomain
<1>1. a = m \o NewClaims(add, k)
  BY DEF Added
<1> HIDE DEF a
<1>2. Grown(claims, m, n) /\ Kept(claims, m) /\ OnlyJudges(claims, m)
  <2>1. CASE m = Materialised(claims, n)
    BY <2>1, MaterialisedClaims
  <2>2. CASE m = claims
    BY <2>2, SameGrown
  <2> QED BY <2>1, <2>2 DEF Keeping
<1> HIDE DEF m
<1>3. k \in Nat /\ Len(m) \in Nat /\ Len(claims) <= Len(m) /\ Numbered(m, k)
  BY <1>0, <1>2 DEF Grown
<1>4. Grown(m, a, k) /\ Kept(m, a) /\ AddsLast(Len(m), a, add)
  <2> HIDE DEF k
  <2> QED BY <1>1, <1>3, AppendedClaims DEF AddForm
<1>5. Grown(claims, a, n)
  <2>1. Len(a) \in Nat /\ Len(m) <= Len(a) /\ Numbered(a, k + Len(a) - Len(m))
    BY <1>4 DEF Grown
  <2>2. k + Len(a) - Len(m) = n + Len(a) - Len(claims)
    BY <1>0, <1>3, <2>1
  <2> QED BY <1>0, <1>3, <2>1, <2>2 DEF Grown
<1>6. Kept(claims, a)
  BY <1>2, <1>4 DEF Kept
<1>7. AddsOnly(claims, a, add)
  <2> SUFFICES ASSUME NEW i \in DOMAIN a \ DOMAIN claims
               PROVE  \/ <<a[i].field, a[i].value>> \in ToSet(add)
                      \/ /\ a[i].field = "judges" /\ a[i].value \in Body["judges"]
                         /\ AllClaims(claims, "judges") = {}
    BY DEF AddsOnly
  <2>1. CASE i \in DOMAIN m
    BY <1>2, <1>4, <2>1 DEF OnlyJudges, Kept
  <2>2. CASE i \notin DOMAIN m
    <3>1. PICK l : Numbered(a, l)
      BY <1>4 DEF Grown
    <3>2. i > Len(m)
      BY <1>3, <2>2, <3>1, NumberedDomain
    <3>3. i - Len(m) \in DOMAIN add /\ a[i] = a[Len(m) + (i - Len(m))]
      BY <1>4, <3>1, <3>2, PlacesAdded DEF AddForm
    <3> DEFINE p == i - Len(m)
    <3> HIDE DEF p
    <3>4. p \in DOMAIN add /\ a[i].field = add[p][1] /\ a[i].value = add[p][2]
      BY <1>4, <3>3 DEF AddsLast, p
    <3>5. add[p] \in Fields \X Values
      BY <3>4 DEF AddForm
    <3>6. <<a[i].field, a[i].value>> = add[p]
      BY <3>4, <3>5
    <3> QED BY <3>4, <3>6 DEF ToSet
  <2> QED BY <2>1, <2>2
<1>8. AddsAll(claims, a, add)
  BY <1>3, <1>4 DEF AddsAll
<1> QED BY <1>5, <1>6, <1>7, <1>8 DEF a

\* The old claims stay, and the form rejects those of its boxes and no other.
RejectsOnly(form, old, new) ==
    \A i \in DOMAIN old :
        /\ i \in DOMAIN new /\ SameButRejected(new[i], old[i])
        /\ new[i].rejected <=>
             \/ old[i].rejected
             \/ old[i].id \in form.reject
             \/ old[i].field = "judges" /\ old[i].value \in form.suppress

\* A judge that the form suppresses is one only if the form adds it.
SuppressedUnlessAdded(form, claims) ==
    \A v \in form.suppress :
        v \in ActiveValues(claims, "judges") => <<"judges", v>> \in ToSet(form.add)

Effect(form, old, new) ==
    /\ RejectsOnly(form, old, new)
    /\ AddsOnly(old, new, form.add)
    /\ SuppressedUnlessAdded(form, new)
    /\ AddForm(form.add) /\ AddsAll(old, new, form.add)

\* What post does to the claims that it has loaded (Applied).
LEMMA AppliedEffect ==
    ASSUME made \in Nat, NEW claims, Numbered(claims, made),
           NEW form, AddForm(form.add), NEW keep \in BOOLEAN,
           form.suppress \subseteq JudgeValues(Rejected(claims, form.reject))
    PROVE  LET m == Applied(claims, form, keep) IN
           Grown(claims, m, made) /\ Effect(form, claims, m)
<1> DEFINE r == Rejected(claims, form.reject)
           s == Suppressed(r, form.suppress, made)
           k == made + Len(s) - Len(claims)
           a == Added(s, form.add, keep, k)
<1>1. /\ Numbered(r, made) /\ Len(r) = Len(claims)
      /\ \A i \in DOMAIN claims :
           /\ SameButRejected(r[i], claims[i])
           /\ r[i].rejected <=> claims[i].rejected \/ claims[i].id \in form.reject
  BY RejectedClaims
<1>2. a = Applied(claims, form, keep)
  BY DEF Applied
<1> HIDE DEF r
<1>3. /\ Len(claims) \in Nat /\ DOMAIN claims = 1..Len(claims)
      /\ DOMAIN r = DOMAIN claims
  BY <1>1, NumberedDomain
<1>4. /\ Grown(r, s, made) /\ OnlyJudges(r, s)
      /\ SuppressedOnly(r, s, form.suppress) /\ AllSuppressed(s, form.suppress)
      /\ form.suppress # {} /\ form.suppress \subseteq JudgeValues(r) => AllClaims(s, "judges") # {}
  BY <1>1, SuppressedClaims
<1>5. form.suppress \subseteq JudgeValues(r)
  BY DEF r
<1> HIDE DEF s
<1>6. Len(s) \in Nat /\ Len(claims) <= Len(s) /\ Numbered(s, k) /\ k \in Nat
  BY <1>1, <1>3, <1>4 DEF Grown
<1> HIDE DEF k
<1>7. Grown(s, a, k) /\ Kept(s, a) /\ AddsOnly(s, a, form.add) /\ AddsAll(s, a, form.add)
  BY <1>6, AddedClaims
<1> HIDE DEF a
<1>8. Grown(claims, a, made)
  <2>1. Len(a) \in Nat /\ Len(s) <= Len(a) /\ Numbered(a, k + Len(a) - Len(s))
    BY <1>7 DEF Grown
  <2>2. k + Len(a) - Len(s) = made + Len(a) - Len(claims)
    BY <1>3, <1>6, <2>1 DEF k
  <2> QED BY <1>3, <1>6, <2>1, <2>2 DEF Grown
<1>9. RejectsOnly(form, claims, a)
  <2> SUFFICES ASSUME NEW i \in DOMAIN claims
               PROVE  /\ i \in DOMAIN a /\ SameButRejected(a[i], claims[i])
                      /\ a[i].rejected <=>
                           \/ claims[i].rejected
                           \/ claims[i].id \in form.reject
                           \/ claims[i].field = "judges" /\ claims[i].value \in form.suppress
    BY DEF RejectsOnly
  <2>1. /\ i \in DOMAIN s /\ SameButRejected(s[i], r[i])
        /\ s[i].rejected <=>
             r[i].rejected \/ (r[i].field = "judges" /\ r[i].value \in form.suppress)
    BY <1>3, <1>4 DEF SuppressedOnly
  <2>2. i \in DOMAIN a /\ a[i] = s[i]
    BY <1>7, <2>1 DEF Kept
  <2> QED BY <1>1, <2>1, <2>2 DEF SameButRejected
<1>10. AllClaims(r, "judges") = {} => AllClaims(claims, "judges") = {}
  BY <1>1, <1>3 DEF AllClaims, SameButRejected
<1>11. AllClaims(s, "judges") = {} => AllClaims(r, "judges") = {}
  BY <1>4 DEF AllClaims, SuppressedOnly, SameButRejected
<1>12. AddsOnly(claims, a, form.add)
  <2> SUFFICES ASSUME NEW i \in DOMAIN a \ DOMAIN claims
               PROVE  \/ <<a[i].field, a[i].value>> \in ToSet(form.add)
                      \/ /\ a[i].field = "judges" /\ a[i].value \in Body["judges"]
                         /\ AllClaims(claims, "judges") = {}
    BY DEF AddsOnly
  <2>1. CASE i \in DOMAIN s
    BY <1>3, <1>4, <1>7, <1>10, <2>1 DEF OnlyJudges, Kept
  <2>2. CASE i \notin DOMAIN s
    BY <1>7, <1>10, <1>11, <2>2 DEF AddsOnly
  <2> QED BY <2>1, <2>2
<1>13. SuppressedUnlessAdded(form, a)
  <2> SUFFICES ASSUME NEW v \in form.suppress, v \in ActiveValues(a, "judges")
               PROVE  <<"judges", v>> \in ToSet(form.add)
    BY DEF SuppressedUnlessAdded
  <2>1. PICK i \in DOMAIN a : a[i].field = "judges" /\ ~a[i].rejected /\ a[i].value = v
    BY DEF ActiveValues, ValuesOf, ActiveClaims, AllClaims
  <2>2. i \notin DOMAIN s
    BY <1>4, <1>7, <2>1 DEF AllSuppressed, AllClaims, Kept
  <2>3. AllClaims(s, "judges") # {}
    BY <1>4, <1>5
  <2> QED BY <1>7, <2>1, <2>2, <2>3 DEF AddsOnly
<1>14. AddsAll(claims, a, form.add)
  BY <1>3, <1>6, <1>7 DEF AddsAll
<1> QED BY <1>2, <1>8, <1>9, <1>12, <1>13, <1>14 DEF Effect

-----------------------------------------------------------------------------
(***************************************************************************)
(* The inductive invariant.  The claims that a request holds in memory are *)
(* those that it loaded with the effect of its form, under numbers that    *)
(* were given by then; the claims stored come from some request's memory.  *)
(***************************************************************************)
Pending(j, n) ==
    /\ Numbered(j.loaded, n)
    /\ Numbered(j.memory, n)
    /\ Effect(j.form, j.loaded, j.memory)

ClaimsInv ==
    /\ made \in 0..MaxClaims
    /\ Numbered(stored, made)
    /\ offered.claims \subseteq 1..made /\ offered.judges \subseteq Body["judges"]
    /\ DOMAIN job = Workers
    /\ \A w \in Workers : ~Free(w) => Pending(job[w], made)

LEMMA BoxesMade ==
    ASSUME NEW claims, NEW n, Numbered(claims, n)
    PROVE  Boxes(claims).claims \subseteq 1..n /\ Boxes(claims).judges \subseteq Body["judges"]
<1>1. \A f \in Fields : Ids(claims, CurrentClaims(claims, f)) \subseteq 1..n
  BY DEF Numbered, Ids, CurrentClaims, AllClaims
<1> QED BY <1>1 DEF Boxes

LEMMA InitClaims == Init => ClaimsInv
<1> SUFFICES ASSUME Init PROVE ClaimsInv
  OBVIOUS
<1>1. Numbered(stored, made) /\ made \in 0..MaxClaims
  <2>1. PICK parsed \in SUBSET InBody(Single) : stored = NewClaims(SetToSeq(parsed), 0)
    BY DEF Init
  <2> DEFINE pairs == SetToSeq(parsed)
  <2>2. IsFiniteSet(parsed) /\ Cardinality(parsed) <= Cardinality(InBody(Single))
    BY MaxClaimsAssumption, FS_Subset
  <2>3. pairs \in Seq(parsed) /\ Len(pairs) = Cardinality(parsed)
    BY <2>2, SetToSeqLists
  <2>4. parsed \subseteq Fields \X Values
    BY BodyAssumption DEF InBody, Fields
  <2> HIDE DEF pairs
  <2>5. pairs \in Seq(Fields \X Values)
    BY <2>3, <2>4
  <2>6. /\ stored \in Seq(AnyClaim) /\ Len(stored) = Len(pairs) /\ Len(stored) \in Nat
        /\ \A i \in 1..Len(stored) : stored[i].id = 0 + i
    BY <2>1, <2>5, ClaimsMade DEF pairs
  <2>7. made = Len(stored) /\ made \in 0..MaxClaims
    <3>1. Cardinality(InBody(Single)) \in Nat
      BY MaxClaimsAssumption, FS_CardinalityType
    <3> QED BY <2>2, <2>3, <2>6, <3>1, MaxClaimsAssumption DEF Init
  <2> QED BY <2>6, <2>7 DEF Numbered
<1>2. offered.claims \subseteq 1..made /\ offered.judges \subseteq Body["judges"]
  BY <1>1, BoxesMade DEF Init
<1>3. DOMAIN job = Workers /\ \A w \in Workers : Free(w)
  BY DEF Init, Free
<1> QED BY <1>1, <1>2, <1>3 DEF ClaimsInv

\* A request that is answered ends; those of the other workers go on.
LEMMA AnswerEnds ==
    ASSUME ClaimsInv, NEW w \in Workers, NEW a, Answered(w, a)
    PROVE  /\ DOMAIN job' = Workers /\ Free(w)' /\ job'[w].answer = a
           /\ \A u \in Workers \ {w} : job'[u] = job[u]
BY DEF ClaimsInv, Answered, Free

\* While claims are made, what a request waits with stays as it is.
LEMMA PendingStays ==
    ASSUME NEW n \in Nat, NEW m \in Nat, n <= m, NEW j, Pending(j, n)
    PROVE  Pending(j, m)
BY NumberedMore DEF Pending

\* A step in which worker w's request ends without an effect.
LEMMA EndKeeps ==
    ASSUME ClaimsInv, NEW w \in Workers, NEW a, Answered(w, a),
           UNCHANGED <<stored, made, offered>>
    PROVE  ClaimsInv'
<1>1. /\ DOMAIN job' = Workers /\ Free(w)'
      /\ \A u \in Workers \ {w} : job'[u] = job[u]
  BY AnswerEnds
<1>2. \A u \in Workers : ~Free(u)' => Pending(job'[u], made')
  BY <1>1 DEF ClaimsInv, Free
<1> QED BY <1>1, <1>2 DEF ClaimsInv

LEMMA FormAdds ==
    ASSUME NEW form \in Form
    PROVE  AddForm(form.add)
BY AdditionsAssumption DEF Form, AddForm

LEMMA NextClaims == ClaimsInv /\ [Next]_vars => ClaimsInv'
<1> SUFFICES ASSUME ClaimsInv, [Next]_vars PROVE ClaimsInv'
  OBVIOUS
<1>0. made \in Nat /\ Len(stored) \in Nat
  BY MaxClaimsAssumption, NumberedDomain DEF ClaimsInv
<1>1. ASSUME NEW w \in Workers, Free(w), NEW form \in Form, Refuse(w, form) \/ NoChange(w, form)
      PROVE  ClaimsInv'
  BY <1>1, EndKeeps DEF Refuse, NoChange
<1>2. ASSUME NEW w \in Workers, Free(w), NEW form \in Form, Process(w, form)
      PROVE  ClaimsInv'
  <2>1. PICK keep \in BOOLEAN :
          LET memory == Applied(stored, form, keep) IN
          /\ made + Len(memory) - Len(stored) <= MaxClaims
          /\ made' = made + Len(memory) - Len(stored)
          /\ job' = [job EXCEPT ![w] = [form |-> form, loaded |-> stored, memory |-> memory]]
    BY <1>2 DEF Process
  <2> DEFINE memory == Applied(stored, form, keep)
             j == [form |-> form, loaded |-> stored, memory |-> memory]
  <2>2. UNCHANGED <<stored, offered>>
    BY <1>2 DEF Process
  <2>3. Grown(stored, memory, made) /\ Effect(form, stored, memory)
    <3>1. form.suppress \subseteq JudgeValues(Rejected(stored, form.reject))
      BY <1>2 DEF Process, Accepted
    <3>2. Numbered(stored, made) /\ AddForm(form.add)
      BY FormAdds DEF ClaimsInv
    <3> QED BY <1>0, <3>1, <3>2, AppliedEffect
  <2> HIDE DEF memory
  <2>4. made' \in 0..MaxClaims /\ made <= made' /\ Numbered(memory, made')
    BY <1>0, <2>1, <2>3 DEF Grown, memory
  <2>5. Numbered(stored, made')
    BY <1>0, <2>4, NumberedMore DEF ClaimsInv
  <2>6. Pending(j, made')
    BY <2>3, <2>4, <2>5 DEF Pending
  <2>7. DOMAIN job' = Workers /\ job'[w] = j /\ \A u \in Workers \ {w} : job'[u] = job[u]
    BY <2>1 DEF ClaimsInv, memory
  <2> HIDE DEF j
  <2>8. \A u \in Workers \ {w} : ~Free(u)' => Pending(job'[u], made')
    BY <1>0, <2>4, <2>7, PendingStays DEF ClaimsInv, Free
  <2>9. \A u \in Workers : ~Free(u)' => Pending(job'[u], made')
    BY <2>6, <2>7, <2>8
  <2>10. offered'.claims \subseteq 1..made' /\ offered'.judges \subseteq Body["judges"]
    BY <1>0, <2>2, <2>4 DEF ClaimsInv
  <2> QED BY <2>2, <2>4, <2>5, <2>7, <2>9, <2>10 DEF ClaimsInv
<1>3. ASSUME NEW w \in Workers, Save(w)
      PROVE  ClaimsInv'
  <2>1. ~Free(w) /\ stored' = job[w].memory /\ made' = made
    BY <1>3 DEF Save, Store
  <2>2. Numbered(stored', made')
    BY <2>1 DEF ClaimsInv, Pending
  <2>3. offered'.claims \subseteq 1..made' /\ offered'.judges \subseteq Body["judges"]
    <3>1. /\ offered'.claims = offered.claims \cup Boxes(stored').claims
          /\ offered'.judges = offered.judges \cup Boxes(stored').judges
      BY <1>3 DEF Save
    <3>2. Boxes(stored').claims \subseteq 1..made' /\ Boxes(stored').judges \subseteq Body["judges"]
      BY <2>2, BoxesMade
    <3> QED BY <2>1, <3>1, <3>2 DEF ClaimsInv
  <2>4. PICK a : Answered(w, a)
    BY <1>3 DEF Save
  <2>5. /\ DOMAIN job' = Workers /\ Free(w)'
        /\ \A u \in Workers \ {w} : job'[u] = job[u]
    BY <2>4, AnswerEnds
  <2>6. \A u \in Workers : ~Free(u)' => Pending(job'[u], made')
    BY <2>1, <2>5 DEF ClaimsInv, Free
  <2> QED BY <2>1, <2>2, <2>3, <2>5, <2>6 DEF ClaimsInv
<1>4. ASSUME NEW w \in Workers, SaveFails(w)
      PROVE  ClaimsInv'
  BY <1>4, EndKeeps DEF SaveFails
<1>5. CASE UNCHANGED vars
  BY <1>5 DEF vars, ClaimsInv, Free
<1> QED BY <1>1, <1>2, <1>3, <1>4, <1>5 DEF Next, Post

THEOREM ClaimsInvariant == Spec => []ClaimsInv
BY InitClaims, NextClaims, PTL DEF Spec

-----------------------------------------------------------------------------
(***************************************************************************)
(* The invariants.                                                         *)
(***************************************************************************)
\* A numbered collection whose numbers have been given consists of claims.
LEMMA NumberedClaims ==
    ASSUME NEW claims, NEW n \in 0..MaxClaims, Numbered(claims, n)
    PROVE  claims \in Seq(Claim)
<1>1. Len(claims) \in Nat /\ DOMAIN claims = 1..Len(claims)
  BY NumberedDomain
<1>2. \A i \in 1..Len(claims) : claims[i] \in AnyClaim /\ claims[i].id \in 1..MaxClaims
  BY <1>1, NumberedDomain, MaxClaimsAssumption DEF Numbered
<1>3. \A i \in 1..Len(claims) : claims[i] \in Claim
  BY <1>2 DEF AnyClaim, Claim
<1>4. claims = [i \in 1..Len(claims) |-> claims[i]]
  BY <1>1 DEF Numbered
<1> QED BY <1>1, <1>3, <1>4, IsASeq

\* No two claims ever have one identity, whatever saves overtake one another, and
\* every box that a page has offered is of a claim that was made.
THEOREM TypeCorrect == Spec => []TypeOK
<1>1. ClaimsInv => TypeOK
  BY NumberedClaims DEF ClaimsInv, TypeOK, Numbered, Pending
<1> QED BY <1>1, ClaimsInvariant, PTL

\* A field that holds one value shows the newest claim that was not rejected as its
\* current one, no other, and the box to reject it is the only one of its active
\* claims that the page has.
THEOREM OneCurrentAlways == Spec => []OneCurrent
<1>1. ASSUME ClaimsInv, NEW f \in Single
      PROVE  LET current == CurrentClaims(stored, f)
                 active == ActiveClaims(stored, f) IN
             /\ current = (IF active = {} THEN {} ELSE {Max(active)})
             /\ active # {} => /\ DisplayedValues(stored, f) = {Winner(stored, f).value}
                               /\ Boxes(stored).claims \cap Ids(stored, active) = {Winner(stored, f).id}
  <2> DEFINE current == CurrentClaims(stored, f)
             active == ActiveClaims(stored, f)
  <2>1. f \in Fields /\ f \notin Multiple
    BY FieldsAssumption DEF Fields
  <2>2. \A i, j \in DOMAIN stored : stored[i].id = stored[j].id => i = j
    BY <1>1 DEF ClaimsInv, Numbered
  <2>3. current \subseteq active
    BY DEF CurrentClaims, IsCurrent, ActiveClaims
  <2>4. ASSUME active # {}
        PROVE  /\ current = {Max(active)}
               /\ DisplayedValues(stored, f) = {Winner(stored, f).value}
               /\ Boxes(stored).claims \cap Ids(stored, active) = {Winner(stored, f).id}
    <3>1. Len(stored) \in Nat /\ active \in SUBSET (1..Len(stored))
      BY <1>1, NumberedDomain DEF ClaimsInv, ActiveClaims, AllClaims
    <3>2. Max(active) \in active
      BY <2>4, <3>1, MaxOfPlaces
    <3> DEFINE top == Max(active)
    <3>3. Winner(stored, f) = stored[top]
      BY DEF Winner
    <3> HIDE DEF top
    <3>4. top \in active /\ top \in DOMAIN stored /\ stored[top].field = f /\ ~stored[top].rejected
      BY <3>2 DEF top, ActiveClaims, AllClaims
    <3>5. current = {top}
      BY <2>1, <2>2, <3>3, <3>4 DEF CurrentClaims, IsCurrent, AllClaims
    <3>6. DisplayedValues(stored, f) = {Winner(stored, f).value}
      BY <3>3, <3>4, <3>5 DEF DisplayedValues, CurrentValues, ValuesOf, AllClaims
    <3>7. ASSUME NEW g \in Fields, NEW i \in CurrentClaims(stored, g), NEW j \in active,
                 stored[i].id = stored[j].id
          PROVE  i = top
      <4>1. i \in DOMAIN stored /\ j \in DOMAIN stored /\ stored[i].field = g /\ stored[j].field = f
        BY DEF CurrentClaims, ActiveClaims, AllClaims
      <4>2. i = j /\ g = f
        BY <2>2, <3>7, <4>1
      <4> QED BY <3>5, <4>2
    <3>8. \A x \in Boxes(stored).claims \cap Ids(stored, active) : x = stored[top].id
      BY <3>7 DEF Boxes, Ids
    <3>9. stored[top].id \in Boxes(stored).claims \cap Ids(stored, active)
      BY <2>1, <3>4, <3>5 DEF Boxes, Ids
    <3> QED BY <3>3, <3>5, <3>6, <3>8, <3>9 DEF top
  <2> QED BY <2>3, <2>4
<1>2. ClaimsInv => OneCurrent
  BY <1>1 DEF OneCurrent
<1> QED BY <1>2, ClaimsInvariant, PTL

-----------------------------------------------------------------------------
(***************************************************************************)
(* What a step may never do.                                               *)
(***************************************************************************)
\* The claims stored change only when some request's memory is saved,
LEMMA StoredChanges ==
    ASSUME Next, stored' # stored
    PROVE  \E w \in Workers : Save(w)
BY DEF Next, Post, Refuse, NoChange, Process, SaveFails

\* and a request ends when its memory has been saved or the save has failed.
LEMMA RequestEnds ==
    ASSUME ClaimsInv, Next, NEW w \in Workers, ~Free(w), job'[w] # job[w]
    PROVE  Save(w) \/ SaveFails(w)
<1>1. PICK u \in Workers : Post(u) \/ Save(u) \/ SaveFails(u)
  BY DEF Next
<1>2. CASE u = w
  BY <1>1, <1>2 DEF Post
<1>3. CASE u # w
  <2>1. ASSUME NEW a, Answered(u, a)
        PROVE  FALSE
    BY <1>3, <2>1, AnswerEnds
  <2>2. CASE Post(u)
    <3>1. PICK form \in Form : Process(u, form)
      BY <2>1, <2>2 DEF Post, Refuse, NoChange
    <3>2. PICK j : job' = [job EXCEPT ![u] = j]
      BY <3>1 DEF Process
    <3> QED BY <1>3, <3>2 DEF ClaimsInv
  <2> QED BY <1>1, <2>1, <2>2 DEF Save, SaveFails
<1> QED BY <1>2, <1>3

LEMMA SaveEnds ==
    ASSUME ClaimsInv, NEW w \in Workers, Save(w)
    PROVE  ~Free(w) /\ Free(w)' /\ job'[w] # job[w] /\ Pending(job[w], made) /\ stored' = job[w].memory
<1>1. PICK a : Answered(w, a)
  BY DEF Save
<1>2. ~Free(w) /\ stored' = job[w].memory
  BY DEF Save, Store
<1>3. Free(w)'
  BY <1>1, AnswerEnds
<1> QED BY <1>2, <1>3 DEF Free, ClaimsInv

\* The place of each new claim of the form.
LEMMA PlaceOfNew ==
    ASSUME NEW j, NEW n, Pending(j, n)
    PROVE  \E b \in Nat :
             /\ \A i \in DOMAIN j.form.add :
                  /\ b + i \in ActiveClaims(j.memory, j.form.add[i][1])
                  /\ j.memory[b + i].value = j.form.add[i][2]
                  /\ b + i \notin DOMAIN j.loaded
             /\ \A p \in DOMAIN j.memory : p > b =>
                  \E k \in DOMAIN j.form.add : p = b + k /\ j.memory[p].field = j.form.add[k][1]
<1> DEFINE add == j.form.add
           new == j.memory
<1>1. /\ Numbered(new, n) /\ AddForm(add) /\ AddsAll(j.loaded, new, add)
      /\ DOMAIN j.loaded = 1..Len(j.loaded) /\ Len(j.loaded) \in Nat
  BY NumberedDomain DEF Pending, Effect
<1> HIDE DEF add, new
<1>2. PICK b \in Nat : Len(j.loaded) <= b /\ AddsLast(b, new, add)
  BY <1>1 DEF AddsAll
<1>3. /\ \A i \in DOMAIN new : i > b => i - b \in DOMAIN add /\ new[i] = new[b + (i - b)]
      /\ \A i \in DOMAIN add : b + i \in DOMAIN new /\ b + i > b
  BY <1>1, <1>2, PlacesAdded DEF AddForm
<1>4. ASSUME NEW i \in DOMAIN add
      PROVE  /\ b + i \in ActiveClaims(new, add[i][1])
             /\ new[b + i].value = add[i][2]
             /\ b + i \notin DOMAIN j.loaded
  <2>1. /\ new[b + i].field = add[i][1] /\ new[b + i].value = add[i][2]
        /\ ~new[b + i].rejected /\ b + i \in DOMAIN new
    BY <1>2, <1>3 DEF AddsLast
  <2>2. b + i \notin DOMAIN j.loaded
    <3>1. i \in Nat
      BY <1>1 DEF AddForm
    <3> QED BY <1>1, <1>2, <1>3, <3>1
  <2> QED BY <2>1, <2>2 DEF ActiveClaims, AllClaims
<1>5. ASSUME NEW p \in DOMAIN new, p > b
      PROVE  \E k \in DOMAIN add : p = b + k /\ new[p].field = add[k][1]
  <2>1. p - b \in DOMAIN add /\ p \in Nat
    BY <1>1, <1>3, <1>5, NumberedDomain
  <2>2. p = b + (p - b)
    BY <2>1
  <2>3. new[b + (p - b)].field = add[p - b][1]
    BY <1>2, <2>1 DEF AddsLast
  <2> QED BY <2>1, <2>2, <2>3
<1> QED BY <1>4, <1>5 DEF add, new

LEMMA NewPlaces ==
    ASSUME NEW j, NEW n, Pending(j, n)
    PROVE  \E at \in [DOMAIN j.form.add -> DOMAIN j.memory] : AddedAt(at, j.form, j.loaded, j.memory)
<1>1. PICK b \in Nat :
        \A i \in DOMAIN j.form.add :
          /\ b + i \in ActiveClaims(j.memory, j.form.add[i][1])
          /\ j.memory[b + i].value = j.form.add[i][2]
          /\ b + i \notin DOMAIN j.loaded
  BY PlaceOfNew
<1> DEFINE at == [i \in DOMAIN j.form.add |-> b + i]
<1>2. /\ \A i, k \in DOMAIN j.memory : j.memory[i].id = j.memory[k].id => i = k
      /\ \A i \in DOMAIN j.loaded : i \in DOMAIN j.memory /\ j.memory[i].id = j.loaded[i].id
      /\ j.form.add \in Seq(Fields \X Values)
  BY DEF Pending, Numbered, Effect, RejectsOnly, SameButRejected, AddForm
<1>3. \A i \in DOMAIN j.form.add : at[i] \in DOMAIN j.memory
  BY <1>1 DEF ActiveClaims, AllClaims
<1>4. \A i \in DOMAIN j.form.add : j.memory[at[i]].id \notin Ids(j.loaded, DOMAIN j.loaded)
  <2>1. ASSUME NEW i \in DOMAIN j.form.add, NEW q \in DOMAIN j.loaded,
               j.memory[at[i]].id = j.loaded[q].id
        PROVE  FALSE
    <3>1. at[i] = q
      BY <1>2, <1>3, <2>1
    <3> QED BY <1>1, <3>1
  <2> QED BY <2>1 DEF Ids
<1>5. \A i, k \in DOMAIN j.form.add : i < k => at[i] < at[k]
  <2>1. \A i \in DOMAIN j.form.add : i \in Nat
    BY <1>2
  <2> QED BY <2>1
<1>6. at \in [DOMAIN j.form.add -> DOMAIN j.memory]
  BY <1>3
<1>7. AddedAt(at, j.form, j.loaded, j.memory)
  <2>1. \A i \in DOMAIN j.form.add : at[i] = b + i
    OBVIOUS
  <2> HIDE DEF at
  <2> QED BY <1>1, <1>4, <1>5, <2>1 DEF AddedAt
<1> QED BY <1>6, <1>7

\* The last value that the form has for a field with one value becomes its current one.
LEMMA LastIsCurrent ==
    ASSUME NEW j, NEW n, Pending(j, n), NEW i \in DOMAIN j.form.add
    PROVE  \/ \E k \in DOMAIN j.form.add : i < k /\ j.form.add[k][1] = j.form.add[i][1]
           \/ j.form.add[i][1] \in Multiple
           \/ CurrentValues(j.memory, j.form.add[i][1]) = {j.form.add[i][2]}
<1> DEFINE new == j.memory
           f == j.form.add[i][1]
<1> SUFFICES ASSUME \A k \in DOMAIN j.form.add : i < k => j.form.add[k][1] # f,
                    f \notin Multiple
             PROVE  CurrentValues(new, f) = {j.form.add[i][2]}
  OBVIOUS
<1>1. PICK b \in Nat :
        /\ b + i \in ActiveClaims(new, f)
        /\ new[b + i].value = j.form.add[i][2]
        /\ \A p \in DOMAIN new : p > b =>
             \E k \in DOMAIN j.form.add : p = b + k /\ new[p].field = j.form.add[k][1]
  BY PlaceOfNew
<1>2. Numbered(new, n) /\ j.form.add \in Seq(Fields \X Values)
  BY DEF Pending, Effect, AddForm
<1> HIDE DEF new, f
<1>3. Len(new) \in Nat /\ DOMAIN new = 1..Len(new)
  BY <1>2, NumberedDomain
<1>4. i \in Nat
  BY <1>2
<1> DEFINE active == ActiveClaims(new, f)
<1>5. active \in SUBSET (1..Len(new)) /\ active # {}
  BY <1>1, <1>3 DEF ActiveClaims, AllClaims
<1>6. ASSUME NEW q \in active
      PROVE  q <= b + i
  <2> SUFFICES ASSUME q > b + i PROVE FALSE
    BY <1>4, <1>5
  <2>1. q \in DOMAIN new /\ new[q].field = f
    BY DEF ActiveClaims, AllClaims
  <2>2. PICK k \in DOMAIN j.form.add : q = b + k /\ new[q].field = j.form.add[k][1]
    BY <1>1, <1>3, <1>4, <2>1
  <2>3. k \in Nat
    BY <1>2
  <2>4. i < k
    BY <1>4, <2>2, <2>3
  <2> QED BY <2>1, <2>2, <2>4
<1> HIDE DEF active
<1>7. Max(active) \in active /\ \A q \in active : q <= Max(active)
  BY <1>3, <1>5, MaxOfPlaces
<1>8. Max(active) = b + i
  <2>1. Max(active) <= b + i /\ b + i <= Max(active)
    BY <1>1, <1>6, <1>7 DEF active
  <2>2. Max(active) \in Nat
    <3>1. active \subseteq Nat
      BY <1>3, <1>5
    <3> QED BY <1>7, <3>1, Zenon
  <2> QED BY <1>4, <2>1, <2>2
<1> DEFINE top == b + i
<1>9. /\ Winner(new, f) = new[top] /\ top \in DOMAIN new
      /\ new[top].field = f /\ ~new[top].rejected
  BY <1>1, <1>8 DEF Winner, active, ActiveClaims, AllClaims
<1> HIDE DEF top
<1>10. CurrentClaims(new, f) = {top}
  BY <1>2, <1>9 DEF CurrentClaims, IsCurrent, AllClaims, Numbered
<1> QED BY <1>1, <1>10 DEF CurrentValues, ValuesOf, top

LEMMA EffectIsWhole ==
    ASSUME NEW j, NEW n, Pending(j, n)
    PROVE  InEffect(j.form, j.loaded, j.memory)
<1>1. \A i \in DOMAIN j.loaded : j.loaded[i] \in AnyClaim
  BY NumberedDomain DEF Pending
<1>2. \A i \in DOMAIN j.memory : j.memory[i] \in AnyClaim
  BY NumberedDomain DEF Pending
<1>3. ASSUME NEW i \in DOMAIN j.loaded
      PROVE  \E k \in DOMAIN j.memory :
               /\ [j.memory[k] EXCEPT !.rejected = j.loaded[i].rejected] = j.loaded[i]
               /\ j.memory[k].rejected <=>
                    \/ j.loaded[i].rejected
                    \/ j.loaded[i].id \in j.form.reject
                    \/ j.loaded[i].field = "judges" /\ j.loaded[i].value \in j.form.suppress
  <2>1. /\ i \in DOMAIN j.memory /\ SameButRejected(j.memory[i], j.loaded[i])
        /\ j.memory[i].rejected <=>
             \/ j.loaded[i].rejected
             \/ j.loaded[i].id \in j.form.reject
             \/ j.loaded[i].field = "judges" /\ j.loaded[i].value \in j.form.suppress
    BY DEF Pending, Effect, RejectsOnly
  <2>2. j.loaded[i] \in AnyClaim /\ j.memory[i] \in AnyClaim
    BY <1>1, <1>2, <2>1
  <2>3. [j.memory[i] EXCEPT !.rejected = j.loaded[i].rejected] = j.loaded[i]
    BY <2>1, <2>2 DEF SameButRejected, AnyClaim
  <2> QED BY <2>1, <2>3
<1>4. \A v \in j.form.suppress :
        v \in ActiveValues(j.memory, "judges") => <<"judges", v>> \in ToSet(j.form.add)
  BY DEF Pending, Effect, SuppressedUnlessAdded
<1>5. \E at \in [DOMAIN j.form.add -> DOMAIN j.memory] : AddedAt(at, j.form, j.loaded, j.memory)
  BY NewPlaces
<1>6. \A i \in DOMAIN j.form.add :
        \/ \E k \in DOMAIN j.form.add : i < k /\ j.form.add[k][1] = j.form.add[i][1]
        \/ j.form.add[i][1] \in Multiple
        \/ CurrentValues(j.memory, j.form.add[i][1]) = {j.form.add[i][2]}
  BY LastIsCurrent
<1> QED BY <1>3, <1>4, <1>5, <1>6 DEF InEffect

\* Only a form that was accepted as a whole changes the stored claims, with all of
\* its effect, however many new claims it has and for whatever fields, and "updated"
\* is answered only then (post, _add_new_claims, save_metadata_fields).
THEOREM FormsAppliedWhole == Spec => FormAppliedWhole
<1>1. ASSUME ClaimsInv, Next, stored' # stored
      PROVE  \E w \in Workers : ~Free(w) /\ Free(w)'
  BY <1>1, StoredChanges, SaveEnds
<1>2. ASSUME ClaimsInv, Next, NEW w \in Workers, ~Free(w), Free(w)',
             stored' # stored \/ job'[w].answer = "updated"
      PROVE  InEffect(job[w].form, job[w].loaded, stored')
  <2>1. job'[w] # job[w]
    BY <1>2 DEF Free
  <2>2. ~SaveFails(w)
    <3> SUFFICES ASSUME SaveFails(w) PROVE FALSE
      OBVIOUS
    <3>1. stored' = stored /\ Answered(w, "none")
      BY DEF SaveFails
    <3>2. job'[w].answer = "none"
      BY <1>2, <3>1, AnswerEnds
    <3> QED BY <1>2, <3>1, <3>2
  <2>3. Save(w)
    BY <1>2, <2>1, <2>2, RequestEnds
  <2> QED BY <1>2, <2>3, SaveEnds, EffectIsWhole
<1>3. ClaimsInv /\ [Next]_vars =>
        [/\ stored' # stored => \E w \in Workers : ~Free(w) /\ Free(w)'
         /\ \A w \in Workers :
              ~Free(w) /\ Free(w)' /\ (stored' # stored \/ job'[w].answer = "updated")
                => InEffect(job[w].form, job[w].loaded, stored')]_vars
  BY <1>1, <1>2
<1> QED BY <1>3, ClaimsInvariant, PTL DEF Spec, FormAppliedWhole

\* A value that appears was added by the form, or had been superseded: what the
\* form's effect on the claims it loaded can show anew.
LEMMA EffectShows ==
    ASSUME NEW j, NEW n, Pending(j, n), NEW f \in Fields,
           NEW v \in DisplayedValues(j.memory, f) \ DisplayedValues(j.loaded, f)
    PROVE  <<f, v>> \in ToSet(j.form.add) \/ (f \in Single /\ v \in ActiveValues(j.loaded, f))
<1> DEFINE old == j.loaded
           new == j.memory
<1>1. RejectsOnly(j.form, old, new) /\ AddsOnly(old, new, j.form.add)
  BY DEF Pending, Effect
<1> HIDE DEF old, new
<1>2. AllClaims(new, f) # {}
  <2> SUFFICES ASSUME AllClaims(new, f) = {} PROVE FALSE
    OBVIOUS
  <2>1. AllClaims(old, f) = {}
    BY <1>1 DEF RejectsOnly, AllClaims, SameButRejected
  <2> QED BY <2>1 DEF DisplayedValues, old, new
<1>3. PICK i \in DOMAIN new :
        /\ new[i].field = f /\ new[i].value = v /\ ~new[i].rejected
        /\ f \in Multiple \/ f \in Single
  <2>1. v \in CurrentValues(new, f)
    BY <1>2 DEF DisplayedValues, new
  <2> QED BY <2>1 DEF CurrentValues, ValuesOf, CurrentClaims, AllClaims, IsCurrent, Fields
<1>4. CASE i \in DOMAIN old
  <2>1. old[i].field = f /\ old[i].value = v /\ ~old[i].rejected
    BY <1>1, <1>3, <1>4 DEF RejectsOnly, SameButRejected
  <2>2. v \in ActiveValues(old, f)
    BY <1>4, <2>1 DEF ActiveValues, ValuesOf, ActiveClaims, AllClaims
  <2>3. CASE f \in Multiple
    <3>1. i \in CurrentClaims(old, f) /\ AllClaims(old, f) # {}
      BY <1>4, <2>1, <2>3 DEF CurrentClaims, AllClaims, IsCurrent
    <3>2. v \in DisplayedValues(old, f)
      BY <2>1, <3>1 DEF DisplayedValues, CurrentValues, ValuesOf
    <3> QED BY <3>2 DEF old
  <2> QED BY <1>3, <2>2, <2>3 DEF old
<1>5. CASE i \notin DOMAIN old
  <2>1. CASE f = "judges" /\ v \in Body["judges"] /\ AllClaims(old, "judges") = {}
    BY <2>1 DEF DisplayedValues, old
  <2> QED BY <1>1, <1>3, <1>5, <2>1 DEF AddsOnly
<1> QED BY <1>4, <1>5

\* Unless a save overtakes another one, a value comes back only when the form adds it
\* or when the claim that superseded it is rejected; a suppressed judge of the body
\* does not come back because claims are rejected (_display_claims).
THEOREM NothingEverComesBack == Spec => NothingComesBack
<1>1. ASSUME ClaimsInv, Next, NEW f \in Fields,
             NEW v \in DisplayedValues(stored', f) \ DisplayedValues(stored, f)
      PROVE  \E w \in Workers :
               /\ ~Free(w) /\ job'[w] # job[w]
               /\ \/ <<f, v>> \in ToSet(job[w].form.add)
                  \/ f \in Single /\ v \in ActiveValues(stored, f)
                  \/ job[w].loaded # stored
  <2>1. PICK w \in Workers : Save(w)
    BY <1>1, StoredChanges
  <2>2. ~Free(w) /\ job'[w] # job[w] /\ Pending(job[w], made) /\ stored' = job[w].memory
    BY <1>1, <2>1, SaveEnds
  <2>3. CASE job[w].loaded = stored
    BY <1>1, <2>2, <2>3, EffectShows
  <2> QED BY <2>2, <2>3
<1>2. ClaimsInv /\ [Next]_vars =>
        [\A f \in Fields :
           \A v \in DisplayedValues(stored', f) \ DisplayedValues(stored, f) :
             \E w \in Workers :
               /\ ~Free(w) /\ job'[w] # job[w]
               /\ \/ <<f, v>> \in ToSet(job[w].form.add)
                  \/ f \in Single /\ v \in ActiveValues(stored, f)
                  \/ job[w].loaded # stored]_vars
  BY <1>1
<1> QED BY <1>2, ClaimsInvariant, PTL DEF Spec, NothingComesBack

=============================================================================
