---------------------------- MODULE GGUFMoEProofs ----------------------------
(***************************************************************************)
(* Theorems about GGUFMoE for every number of experts, every set of types  *)
(* and every order of arrival.                                             *)
(***************************************************************************)
EXTENDS GGUFMoE, FiniteSetTheorems, TLAPS

\* The kinds of answers.
LEMMA AnswerKind ==
  ASSUME NEW a, NEW tokens
  PROVE  Answer(a, tokens).kind \in {"rows", "empty", "mismatch", "too long", "no route"}
BY DEF Answer

\* A parameter keeps its shape when a type or an expert's rows are stored.
LEMMA StoredShape ==
  ASSUME NEW p \in Params, NEW s \in Shards, NEW t \in Types
  PROVE  /\ TypeStored(p, s, t) \in Params
         /\ \A e \in Expert, cols \in Nat :
              [p EXCEPT !.cols = cols, !.part[<<s, e>>] = t] \in Params
<1>1. TypeStored(p, s, t) \in Params
  BY DEF TypeStored, Params
<1>2. ASSUME NEW e \in Expert, NEW cols \in Nat
      PROVE  [p EXCEPT !.cols = cols, !.part[<<s, e>>] = t] \in Params
  <2>1. [p.part EXCEPT ![<<s, e>>] = t] \in [Shards \X Expert -> Types \cup {NoType}]
    BY DEF Params
  <2>. QED
    BY <2>1 DEF Params
<1>. QED
  BY <1>1, <1>2

LEMMA NextType == TypeOK /\ [Next]_vars => TypeOK'
<1> SUFFICES ASSUME TypeOK, [Next]_vars PROVE TypeOK'
  OBVIOUS
<1>1. ASSUME NEW s \in Shards, LoadType(s) PROVE TypeOK'
  <2>1. Param(s) \in Params /\ file[s] \in Types
    BY DEF Param, TypeOK
  <2>2. w13' \in Params /\ w2' \in Params
    <3>1. TypeStored(Param(s), s, file[s]) \in Params
      BY <2>1, StoredShape
    <3>2. SetParam(s, TypeStored(Param(s), s, file[s]))
      BY <1>1 DEF LoadType
    <3>. QED
      BY <3>1, <3>2 DEF SetParam, TypeOK
  <2>3. [shard |-> s, expert |-> 0] \in [shard : Shards, expert : Expert]
    BY SizesAssumption DEF Expert
  <2>. QED
    BY <1>1, <2>2, <2>3 DEF LoadType, TypeOK
<1>2. CASE LoadExpert
  <2> DEFINE s == loading.shard
             e == loading.expert
             cols == IF Param(s).cols = 0 THEN Width[file[s]] ELSE Param(s).cols
  <2>1. s \in Shards /\ e \in Expert
    BY <1>2 DEF LoadExpert, TypeOK
  <2>2. Param(s) \in Params /\ file[s] \in Types
    BY <2>1 DEF Param, TypeOK
  <2>3. cols \in Nat
    BY <2>2, TypesAssumption DEF Params
  <2>4. CASE cols # Width[file[s]]
    BY <1>2, <2>4 DEF LoadExpert, TypeOK
  <2>5. CASE cols = Width[file[s]]
    <3>1. /\ SetParam(s, [Param(s) EXCEPT !.cols = cols, !.part[<<s, e>>] = file[s]])
          /\ loading' = IF e + 1 \in Expert THEN [loading EXCEPT !.expert = e + 1]
                        ELSE Idle
          /\ UNCHANGED status
      BY <1>2, <2>5 DEF LoadExpert
    <3>2. [Param(s) EXCEPT !.cols = cols, !.part[<<s, e>>] = file[s]] \in Params
      BY <2>1, <2>2, <2>3, StoredShape
    <3>3. w13' \in Params /\ w2' \in Params
      BY <3>1, <3>2 DEF SetParam, TypeOK
    <3>4. loading' = Idle \/ loading' \in [shard : Shards, expert : Expert]
      BY <1>2, <3>1 DEF LoadExpert, TypeOK
    <3>. QED
      BY <1>2, <3>1, <3>3, <3>4 DEF LoadExpert, TypeOK
  <2>. QED
    BY <2>4, <2>5
<1>3. CASE Process
  <2>1. w13' \in Params /\ w2' \in Params
    BY <1>3 DEF Process, TypeOK, Params
  <2>. QED
    BY <1>3, <2>1 DEF Process, TypeOK
<1>4. CASE Reload
  <2>1. reloads' \in 0 .. MaxReloads
    <3>1. reloads < MaxReloads /\ reloads' = reloads + 1
      BY <1>4 DEF Reload
    <3>2. MaxReloads \in Nat /\ reloads \in 0 .. MaxReloads
      BY SizesAssumption DEF TypeOK
    <3>. QED
      BY <3>1, <3>2
  <2>2. due' \subseteq Shards /\ status' = "loading"
    BY <1>4 DEF Reload
  <2>3. answer'.kind = "none"
    BY <1>4 DEF Reload, NoAnswer
  <2>. QED
    BY <1>4, <2>1, <2>2, <2>3 DEF Reload, TypeOK
<1>5. CASE Apply
  <2>1. PICK tokens \in Batches : \E a \in Requests(tokens) : answer' = Answer(a, tokens)
    BY <1>5 DEF Apply
  <2>2. answer'.kind \in {"none", "rows", "empty", "mismatch", "too long", "no route"}
    BY <2>1, AnswerKind
  <2>. QED
    BY <1>5, <2>2 DEF Apply, TypeOK
<1>6. CASE UNCHANGED vars
  BY <1>6 DEF TypeOK, vars
<1>. QED
  BY <1>1, <1>2, <1>3, <1>4, <1>5, <1>6 DEF Next

\* The parameters of the layer keep their shapes whatever is delivered.
THEOREM TypeCorrect == Spec => []TypeOK
<1>1. Init => TypeOK
  BY SizesAssumption, TypesAssumption
     DEF Init, TypeOK, Blank, Params, Idle, NoAnswer, Shards
<1>2. TypeOK /\ [Next]_vars => TypeOK'
  BY NextType
<1>. QED
  BY <1>1, <1>2, PTL DEF Spec

-----------------------------------------------------------------------------
(* Width and type.  Between its type and its last expert a tensor is the   *)
(* one in `loading`; outside that window a parameter has a width exactly   *)
(* when it has a type, and while its width is missing the only type it saw *)
(* is that of the tensor being delivered.                                  *)
OneType(p) ==
  \A s \in Shards : p.shard_weight_type = {s} => p.weight_type = file[s]
Opening(p, mine) ==
  status # "refused" /\ p.cols = 0 =>
    p.shard_weight_type = IF loading.shard \in mine THEN {loading.shard} ELSE {}
Typed(p) == p.cols # 0 => p.shard_weight_type # {}
WidthInv ==
  /\ WidthOfType
  /\ OneType(w13) /\ OneType(w2)
  /\ Typed(w13) /\ Typed(w2)
  /\ Opening(w13, {"w1", "w3"}) /\ Opening(w2, {"w2"})

\* Storing the type of a parameter that has a width changes nothing that
\* the width depends on.
LEMMA NextWidth == TypeOK /\ WidthInv /\ [Next]_vars => WidthInv'
<1> SUFFICES ASSUME TypeOK, WidthInv, [Next]_vars PROVE WidthInv'
  OBVIOUS
<1> USE DEF WidthInv, WidthOfType, OneType, Typed, Opening
<1>1. ASSUME NEW s \in Shards, LoadType(s) PROVE WidthInv'
  <2> DEFINE p == Param(s)
             q == TypeStored(p, s, file[s])
  <2>1. /\ SetParam(s, q) /\ file' = file /\ loading = Idle /\ status = "loading"
        /\ \/ loading'.shard = s
           \/ status' = "refused"
    BY <1>1 DEF LoadType
  <2>2. /\ q.cols = p.cols
        /\ q.shard_weight_type = p.shard_weight_type \cup {s}
        /\ q.weight_type = IF p.shard_weight_type \subseteq {s} THEN file[s]
                           ELSE p.weight_type
    BY DEF TypeStored, TypeOK, Params, Param
  <2>3. p.shard_weight_type \subseteq Shards
    BY DEF Param, TypeOK, Params
  <2> HIDE DEF q
  <2>4. CASE s = "w2"
    <3>1. p = w2 /\ w2' = q /\ w13' = w13
      BY <2>1, <2>4 DEF Param, SetParam
    <3>2. w2.cols # 0 => q.weight_type = w2.weight_type
      BY <2>2, <2>3, <2>4, <3>1
    <3>. QED
      BY <2>1, <2>2, <2>3, <2>4, <3>1, <3>2 DEF Idle, Shards
  <2>5. CASE s # "w2"
    <3>1. p = w13 /\ w13' = q /\ w2' = w2
      BY <2>1, <2>5 DEF Param, SetParam
    <3>2. w13.cols # 0 => q.weight_type = w13.weight_type
      BY <2>2, <2>3, <2>5, <3>1
    <3>. QED
      BY <2>1, <2>2, <2>3, <2>5, <3>1, <3>2 DEF Idle, Shards
  <2>. QED
    BY <2>4, <2>5
<1>2. CASE LoadExpert
  <2> DEFINE s == loading.shard
             e == loading.expert
             p == Param(s)
             cols == IF p.cols = 0 THEN Width[file[s]] ELSE p.cols
             q == [p EXCEPT !.cols = cols, !.part[<<s, e>>] = file[s]]
  <2>1. s \in Shards /\ e \in Expert /\ p \in Params /\ file' = file
    BY <1>2 DEF LoadExpert, TypeOK, Param
  <2>2. CASE cols # Width[file[s]]
    <3>1. UNCHANGED <<w13, w2>> /\ status' = "refused"
      BY <1>2, <2>2 DEF LoadExpert
    <3>. QED
      BY <2>1, <3>1
  <2>3. CASE cols = Width[file[s]]
    <3>1. SetParam(s, q) /\ status' = status /\ status = "loading"
      BY <1>2, <2>3 DEF LoadExpert
    <3>2. loading'.shard \in {s, "none"}
      <4>1. loading \in [shard : Shards, expert : Expert]
        BY <1>2 DEF LoadExpert, TypeOK
      <4>2. loading' = [loading EXCEPT !.expert = e + 1] \/ loading' = Idle
        BY <1>2, <2>3 DEF LoadExpert
      <4>. QED
        BY <4>1, <4>2 DEF Idle
    <3>3. q.cols = cols /\ q.weight_type = p.weight_type
          /\ q.shard_weight_type = p.shard_weight_type
      BY <2>1 DEF Params
    <3>4. cols # 0
      BY <2>1, <2>3, TypesAssumption DEF TypeOK
    <3>5. p.cols = 0 => p.shard_weight_type = {s}
      BY <2>1, <3>1 DEF Param, Shards
    <3>6. cols = Width[p.weight_type]
      BY <2>1, <2>3, <3>5 DEF Param
    <3>7. p.shard_weight_type # {}
      BY <3>5 DEF Param
    <3> HIDE DEF q, cols
    <3>8. CASE s = "w2"
      <4>1. p = w2 /\ w2' = q /\ w13' = w13
        BY <3>1, <3>8 DEF Param, SetParam
      <4>. QED
        BY <2>1, <3>1, <3>2, <3>3, <3>4, <3>6, <3>7, <3>8, <4>1
    <3>9. CASE s # "w2"
      <4>1. p = w13 /\ w13' = q /\ w2' = w2
        BY <3>1, <3>9 DEF Param, SetParam
      <4>. QED
        BY <2>1, <3>1, <3>2, <3>3, <3>4, <3>6, <3>7, <3>9, <4>1 DEF Shards
    <3>. QED
      BY <3>8, <3>9
  <2>. QED
    BY <2>2, <2>3
<1>3. CASE Process
  BY <1>3 DEF Process, TypeOK, Params, Idle
<1>4. CASE Reload
  BY <1>4 DEF Reload
<1>5. CASE Apply
  BY <1>5 DEF Apply
<1>6. CASE UNCHANGED vars
  BY <1>6 DEF vars
<1>. QED
  BY <1>1, <1>2, <1>3, <1>4, <1>5, <1>6 DEF Next

\* For every set of types and widths and every order of arrival, whatever is
\* missing and however often loading is tried again, a parameter is as wide
\* as a row of the type apply passes to the kernels.
THEOREM WidthFollowsType == Spec => []WidthOfType
<1>1. Init => WidthInv
  BY DEF Init, Blank, Idle, WidthInv, WidthOfType, OneType, Typed, Opening
<1>2. TypeOK /\ WidthInv /\ [Next]_vars => WidthInv'
  BY NextWidth
<1>3. WidthInv => WidthOfType
  BY DEF WidthInv
<1>. QED
  BY <1>1, <1>2, <1>3, TypeCorrect, PTL DEF Spec

-----------------------------------------------------------------------------
(* Whose rows a slot reads.  The blocks of different experts do not        *)
(* overlap, so that a kernel that reads the sorted slots in blocks of the  *)
(* size they were sorted for finds the expert of every slot.               *)

\* The first k numbers, from one and from zero.
LEMMA Interval ==
  ASSUME NEW k \in Nat
  PROVE  /\ IsFiniteSet(1 .. k) /\ Cardinality(1 .. k) = k
         /\ IsFiniteSet(0 .. k - 1) /\ Cardinality(0 .. k - 1) = k
<1>1. 0 \in Int /\ 1 \in Int /\ k \in Int /\ k - 1 \in Int
  OBVIOUS
<1>2. IsFiniteSet(1 .. k) /\ IsFiniteSet(0 .. k - 1)
  BY <1>1, FS_Interval
<1>3. Cardinality(1 .. k) = IF 1 > k THEN 0 ELSE k - 1 + 1
  BY <1>1, FS_Interval, Zenon
<1>4. Cardinality(0 .. k - 1) = IF 0 > k - 1 THEN 0 ELSE k - 1 - 0 + 1
  BY <1>1, FS_Interval, Zenon
<1>. QED
  BY <1>2, <1>3, <1>4

\* Quotient and remainder are the only pair of their kind.
LEMMA Division ==
  ASSUME NEW q \in Nat, NEW r \in Nat, NEW m \in Nat \ {0}, r < m
  PROVE  (q * m + r) \div m = q /\ (q * m + r) % m = r
  OBVIOUS

\* A number and the block it lies in.
LEMMA BlockOf ==
  ASSUME NEW b \in Nat, NEW c \in Nat, NEW m \in Nat, NEW B \in Nat \ {0}, c < m
  PROVE  /\ (b * B + c) \div B = b + c \div B
         /\ c \div B \in 0 .. ((m + B - 1) \div B) - 1
<1> DEFINE q == c \div B
           r == c % B
<1>1. q \in Nat /\ r \in 0 .. B - 1 /\ c = q * B + r
  OBVIOUS
<1>2. (b * B + c) \div B = b + q
  <2>1. b * B + c = (b + q) * B + r
    BY <1>1
  <2>2. b + q \in Nat /\ r \in Nat /\ r < B
    BY <1>1
  <2>. HIDE DEF q, r
  <2>3. ((b + q) * B + r) \div B = b + q
    BY <2>2, Division
  <2>. QED
    BY <2>1, <2>3
<1>3. q < (m + B - 1) \div B
  <2> DEFINE p == (m + B - 1) \div B
             s == (m + B - 1) % B
  <2>1. p \in Nat /\ s \in 0 .. B - 1 /\ m + B - 1 = p * B + s
    OBVIOUS
  <2>2. q * B + B <= p * B + s
    BY <1>1, <2>1
  <2>. HIDE DEF q, p, s
  <2>3. CASE p <= q
    <3>1. p * B <= q * B
      BY <1>1, <2>1, <2>3
    <3>2. p * B \in Nat /\ q * B \in Nat
      BY <1>1, <2>1
    <3>. QED
      BY <2>1, <2>2, <3>1, <3>2
  <2>. QED
    BY <1>1, <2>1, <2>3 DEF p, q
<1>. QED
  BY <1>1, <1>2, <1>3

\* The slots of an expert are finitely many, and so are its blocks.
LEMMA SlotsOfExpert ==
  ASSUME NEW n \in Nat, NEW a \in [0 .. n - 1 -> Expert], NEW B \in Nat \ {0}, NEW e
  PROVE  /\ IsFiniteSet(Slots(a, e)) /\ Cardinality(Slots(a, e)) \in 0 .. n
         /\ BlocksOf(a, B, e) \in 0 .. n + B
<1>1. IsFiniteSet(0 .. n - 1) /\ Cardinality(0 .. n - 1) = n
  BY Interval
<1>2. Slots(a, e) \in SUBSET (0 .. n - 1)
  BY DEF Slots
<1>3. IsFiniteSet(Slots(a, e)) /\ Cardinality(Slots(a, e)) <= n
  BY <1>1, <1>2, FS_Subset
<1>4. Cardinality(Slots(a, e)) \in Nat
  BY <1>3, FS_CardinalityType
<1>. DEFINE m == Cardinality(Slots(a, e))
<1>5. m \in 0 .. n
  BY <1>3, <1>4
<1>. HIDE DEF m
<1>6. (m + B - 1) \div B \in 0 .. n + B
  <2>1. m + B - 1 \in Nat /\ m + B - 1 <= n + B
    BY <1>5
  <2>. DEFINE x == m + B - 1
  <2>. HIDE DEF x
  <2>2. x \in Nat => x \div B \in Nat /\ x \div B <= x
    OBVIOUS
  <2>3. x \div B \in Nat /\ x \div B <= x /\ x \in Nat /\ x <= n + B
    BY <2>1, <2>2 DEF x
  <2>4. x \div B \in 0 .. n + B
    BY <2>3
  <2>. QED
    BY <2>4 DEF x
<1>7. BlocksOf(a, B, e) = (m + B - 1) \div B
  BY DEF BlocksOf, m
<1>. QED
  BY <1>3, <1>5, <1>6, <1>7 DEF m

Blocks(a, B, e) == UNION { {f} \X (1 .. BlocksOf(a, B, f)) : f \in 0 .. e - 1 }

\* The blocks before those of an expert are finitely many.
LEMMA BlocksFinite ==
  ASSUME NEW n \in Nat, NEW a \in [0 .. n - 1 -> Expert], NEW B \in Nat \ {0},
         NEW e \in Expert
  PROVE  /\ IsFiniteSet(Blocks(a, B, e))
         /\ BlocksBefore(a, B, e) = Cardinality(Blocks(a, B, e))
         /\ BlocksBefore(a, B, e) \in Nat
<1>1. Blocks(a, B, e) \in SUBSET ((0 .. E - 1) \X (1 .. n + B))
  <2>1. ASSUME NEW x \in Blocks(a, B, e) PROVE x \in (0 .. E - 1) \X (1 .. n + B)
    <3>1. PICK f \in 0 .. e - 1 : x \in {f} \X (1 .. BlocksOf(a, B, f))
      BY DEF Blocks
    <3>2. f \in 0 .. E - 1
      BY SizesAssumption DEF Expert
    <3>3. BlocksOf(a, B, f) \in 0 .. n + B
      BY SlotsOfExpert
    <3>. QED
      BY <3>1, <3>2, <3>3
  <2>. QED
    BY <2>1
<1>2. IsFiniteSet(0 .. E - 1) /\ IsFiniteSet(1 .. n + B)
  BY SizesAssumption, FS_Interval
<1>3. IsFiniteSet((0 .. E - 1) \X (1 .. n + B))
  BY <1>2, FS_Product
<1>4. IsFiniteSet(Blocks(a, B, e))
  BY <1>1, <1>3, FS_Subset
<1>5. BlocksBefore(a, B, e) = Cardinality(Blocks(a, B, e))
  BY DEF BlocksBefore, Blocks
<1>. QED
  BY <1>4, <1>5, FS_CardinalityType

\* The blocks of an expert come before those of the next.
LEMMA BlocksApart ==
  ASSUME NEW n \in Nat, NEW a \in [0 .. n - 1 -> Expert], NEW B \in Nat \ {0},
         NEW e \in Expert, NEW f \in Expert, e < f
  PROVE  BlocksBefore(a, B, e) + BlocksOf(a, B, e) <= BlocksBefore(a, B, f)
<1> DEFINE S == Blocks(a, B, e)
           T == {e} \X (1 .. BlocksOf(a, B, e))
           U == Blocks(a, B, f)
           k == BlocksOf(a, B, e)
<1>1. IsFiniteSet(S) /\ IsFiniteSet(U)
  BY BlocksFinite
<1>2. k \in Nat
  <2>1. BlocksOf(a, B, e) \in 0 .. n + B
    BY SlotsOfExpert
  <2>. QED
    BY <2>1
<1>3. IsFiniteSet(T) /\ Cardinality(T) = k
  <2>1. IsFiniteSet(1 .. k) /\ Cardinality(1 .. k) = k
    BY <1>2, Interval
  <2>2. IsFiniteSet({e}) /\ Cardinality({e}) = 1
    BY FS_Singleton
  <2>. HIDE DEF k
  <2>3. /\ IsFiniteSet({e} \X (1 .. k))
        /\ Cardinality({e} \X (1 .. k)) = Cardinality({e}) * Cardinality(1 .. k)
    BY <2>1, <2>2, FS_Product, Zenon
  <2>. QED
    BY <1>2, <2>1, <2>2, <2>3 DEF k
<1>4. S \subseteq U
  <2>1. 0 .. e - 1 \subseteq 0 .. f - 1
    BY DEF Expert
  <2>. QED
    BY <2>1 DEF Blocks
<1>5. T \subseteq U
  <2>1. e \in 0 .. f - 1
    BY DEF Expert
  <2>2. T \in { {g} \X (1 .. BlocksOf(a, B, g)) : g \in 0 .. f - 1 }
    BY <2>1
  <2>. QED
    BY <2>2 DEF Blocks
<1>6. S \cap T = {}
  <2>1. ASSUME NEW x \in S, x \in T PROVE FALSE
    <3>1. PICK g \in 0 .. e - 1 : x \in {g} \X (1 .. BlocksOf(a, B, g))
      BY DEF Blocks
    <3>2. x[1] = g /\ x[1] = e
      BY <2>1, <3>1
    <3>. QED
      BY <3>2 DEF Expert
  <2>. QED
    BY <2>1
<1>. HIDE DEF S, T, U, k
<1>7. IsFiniteSet(S \cup T) /\ Cardinality(S \cup T) = Cardinality(S) + Cardinality(T)
  <2>1. Cardinality(S \cup T) = Cardinality(S) + Cardinality(T) - Cardinality(S \cap T)
    BY <1>1, <1>3, FS_Union
  <2>2. Cardinality(S \cap T) = 0
    BY <1>6, FS_EmptySet
  <2>3. Cardinality(S) \in Nat /\ Cardinality(T) \in Nat
    BY <1>1, <1>3, FS_CardinalityType
  <2>. QED
    BY <1>1, <1>3, <2>1, <2>2, <2>3, FS_Union
<1>8. Cardinality(S \cup T) <= Cardinality(U)
  <2>1. S \cup T \in SUBSET U
    BY <1>4, <1>5
  <2>. QED
    BY <1>1, <2>1, FS_Subset
<1>9. BlocksBefore(a, B, e) = Cardinality(S) /\ BlocksBefore(a, B, f) = Cardinality(U)
  BY BlocksFinite DEF S, U
<1>10. Cardinality(S) + Cardinality(T) <= Cardinality(U)
  BY <1>7, <1>8
<1>11. Cardinality(S) + k <= Cardinality(U)
  BY <1>3, <1>10
<1>. QED
  BY <1>9, <1>11 DEF k

\* A kernel that reads the sorted slots in blocks of the size they were sorted
\* for finds in expert_ids the expert the router chose for the slot.
LEMMA ReadsOwn ==
  ASSUME NEW n \in Nat, NEW a \in [0 .. n - 1 -> Expert], NEW B \in Nat \ {0},
         NEW i \in 0 .. n - 1
  PROVE  ExpertRead(a, B, B, i) = a[i]
<1> DEFINE e == a[i]
           before == {j \in Slots(a, e) : j < i}
           c == Cardinality(before)
           m == Cardinality(Slots(a, e))
           b == BlocksBefore(a, B, e)
<1>1. e \in Expert /\ b \in Nat /\ m \in Nat
  <2>1. e \in Expert
    OBVIOUS
  <2>2. b \in Nat
    BY <2>1, BlocksFinite
  <2>3. m \in 0 .. n
    BY SlotsOfExpert
  <2>. QED
    BY <2>1, <2>2, <2>3
<1>2. c \in Nat /\ c < m
  <2>1. IsFiniteSet(Slots(a, e))
    BY SlotsOfExpert
  <2>2. before \in SUBSET Slots(a, e) /\ i \in Slots(a, e) /\ i \notin before
    BY DEF Slots
  <2>. HIDE DEF before
  <2>3. IsFiniteSet(before) /\ c <= m /\ c # m
    BY <2>1, <2>2, FS_Subset
  <2>4. c \in Nat
    BY <2>3, FS_CardinalityType
  <2>. QED
    BY <1>1, <2>3, <2>4
<1>3. Position(a, B, i) = b * B + c
  BY DEF Position
<1>. HIDE DEF c, m, b, before
<1>4. /\ Position(a, B, i) \div B = b + c \div B
      /\ c \div B \in 0 .. BlocksOf(a, B, e) - 1
  <2>1. (b * B + c) \div B = b + c \div B /\ c \div B \in 0 .. ((m + B - 1) \div B) - 1
    <3>1. b \in Nat /\ c \in Nat /\ m \in Nat /\ B \in Nat \ {0} /\ c < m
      BY <1>1, <1>2
    <3>. HIDE DEF e
    <3>2. (b * B + c) \div B = b + c \div B
      BY <3>1, BlockOf, SMT
    <3>3. c \div B \in 0 .. ((m + B - 1) \div B) - 1
      BY <3>1, BlockOf, Zenon
    <3>. QED
      BY <3>2, <3>3
  <2>2. BlocksOf(a, B, e) = (m + B - 1) \div B
    BY DEF BlocksOf, m
  <2>. QED
    BY <1>3, <2>1, <2>2
<1>. DEFINE at == Position(a, B, i) \div B
            Holds(g) == at - BlocksBefore(a, B, g) \in 0 .. BlocksOf(a, B, g) - 1
<1>5. at \in Nat /\ Holds(e)
  BY <1>1, <1>4 DEF b
<1>6. ASSUME NEW g \in Expert, Holds(g) PROVE g = e
  <2> DEFINE bg == BlocksBefore(a, B, g)
             kg == BlocksOf(a, B, g)
             ke == BlocksOf(a, B, e)
  <2>1. bg \in Nat /\ kg \in 0 .. n + B /\ ke \in 0 .. n + B
    BY BlocksFinite, SlotsOfExpert
  <2>2. at - bg \in 0 .. kg - 1 /\ at - b \in 0 .. ke - 1
    BY <1>5, <1>6 DEF b
  <2>3. g < e => bg + kg <= b
    BY <1>1, BlocksApart DEF b
  <2>4. e < g => b + ke <= bg
    BY <1>1, BlocksApart DEF b
  <2>5. g \in Int /\ e \in Int
    BY <1>1 DEF Expert
  <2>. HIDE DEF bg, kg, ke, at, e
  <2>. QED
    BY <1>1, <1>5, <2>1, <2>2, <2>3, <2>4, <2>5
<1>7. ExpertRead(a, B, B, i) = CHOOSE g \in Expert : Holds(g)
  <2>1. \E g \in Expert : Holds(g)
    BY <1>1, <1>5
  <2>. QED
    BY <2>1 DEF ExpertRead, ExpertAt
<1>. HIDE DEF Holds, e
<1>8. (CHOOSE g \in Expert : Holds(g)) = e
  BY <1>1, <1>5, <1>6
<1>. QED
  BY <1>7, <1>8 DEF e

\* Slots sorted for a block size that is a multiple of the kernel's are too many
\* for the kernel's arguments.
LEMMA SortedForMore ==
  ASSUME NEW n \in Nat \ {0}, NEW a \in [0 .. n - 1 -> Expert], NEW B \in Nat \ {0},
         NEW M \in Nat \ {0}, 2 * M <= B
  PROVE  TooLong(a, B, M)
<1> DEFINE L == n + E * (B - 1)
           q == (L + B - 1) \div B
<1>1. E * (B - 1) \in Nat /\ E * (B - 1) >= B - 1
  BY SizesAssumption
<1>2. SortedLength(a, B) = L
  <2>1. Cardinality(0 .. n - 1) = n
    BY Interval
  <2>2. DOMAIN a = 0 .. n - 1
    OBVIOUS
  <2>. QED
    BY <2>1, <2>2 DEF SortedLength
<1>3. L \in Nat /\ L >= B
  BY <1>1
<1>4. BlockCount(a, B) = q
  BY <1>2 DEF BlockCount
<1>. HIDE DEF L
<1>5. q \in Nat /\ q * B <= L + B - 1
  BY <1>3
<1>. HIDE DEF q
<1>6. q * (2 * M) <= q * B
  BY <1>5
<1>7. q * (2 * M) = 2 * (q * M) /\ q * M \in Nat
  BY <1>5
<1>8. L > q * M
  BY <1>3, <1>5, <1>6, <1>7
<1>. QED
  BY <1>2, <1>4, <1>8 DEF TooLong

\* The rows of an answer.
Rows(a, lane) ==
  [i \in DOMAIN a |-> SlotRow(Experts(lane, a, BlockSize(w13.weight_type), w13.weight_type),
                             Experts(lane, a, BlockSize(w13.weight_type), w2.weight_type), i)]

\* What lies behind an answer that has rows.
LEMMA RowsOf ==
  ASSUME NEW a, NEW tokens, Answer(a, tokens).kind = "rows"
  PROVE  /\ w13.cols # 0 /\ w2.cols # 0
         /\ Answer(a, tokens).lane = Lane(w13.weight_type, w2.weight_type, tokens)
         /\ Answer(a, tokens).rows = Rows(a, Answer(a, tokens).lane)
         /\ Answer(a, tokens).lane = "rocmfpx" => ~ Mismatch(w13.weight_type, w2.weight_type)
         /\ Answer(a, tokens).lane \in {"rocmfpx", "mmq"} =>
              ~ Refused(Answer(a, tokens).lane, a, BlockSize(w13.weight_type), w13.weight_type)
  BY DEF Answer, Rows

\* What the lane of an answer tells of the types.
LEMMA Lanes ==
  ASSUME NEW t1, NEW t2, NEW tokens
  PROVE  /\ Lane(t1, t2, tokens) \in {"rocmfpx", "mmq", "vec", "slow"}
         /\ Lane(t1, t2, tokens) = "rocmfpx" => {t1, t2} \subseteq TritonMoE /\ Gfx115x
  BY DEF Lane

\* The sizes of blocks are sizes.
LEMMA BlockSizes ==
  ASSUME NEW t \in Types, NEW lane
  PROVE  /\ BlockSize(t) \in Nat \ {0} /\ TritonBlockM[t] \in Nat \ {0}
         /\ KernelBlockM(lane, t) \in Nat \ {0}
  BY BlockAssumption DEF BlockSize, KernelBlockM

\* When the kernels of both tensors read blocks of one size, the slots of an
\* answer with rows were sorted for that size, in the lanes that sort them.
LEMMA SortedAsRead ==
  ASSUME NEW tokens \in Batches, NEW a \in Requests(tokens),
         w13.weight_type \in Types, w2.weight_type \in Types,
         Answer(a, tokens).kind = "rows",
         Answer(a, tokens).lane \in {"rocmfpx", "mmq"}
  PROVE  BlockSize(w13.weight_type) = KernelBlockM(Answer(a, tokens).lane, w13.weight_type)
<1> DEFINE t1 == w13.weight_type
           lane == Answer(a, tokens).lane
<1>1. CASE lane = "mmq"
  BY <1>1 DEF BlockSize, KernelBlockM
<1>2. CASE lane = "rocmfpx"
  <2>1. lane = Lane(t1, w2.weight_type, tokens) /\ ~ Refused(lane, a, BlockSize(t1), t1)
    BY <1>2, RowsOf
  <2>2. t1 \in TritonMoE /\ Gfx115x
    BY <1>2, <2>1, Lanes
  <2>3. CASE t1 \notin NativeGEMM
    BY <1>2, <2>3 DEF BlockSize, KernelBlockM
  <2>4. CASE t1 \in NativeGEMM
    <3> DEFINE M == TritonBlockM[t1]
               n == tokens * K
    <3>1. BlockSize(t1) = NativeBlockM /\ KernelBlockM(lane, t1) = M
      BY <1>2, <2>4 DEF BlockSize, KernelBlockM
    <3>2. ~ TooLong(a, NativeBlockM, M)
      BY <1>2, <2>1, <3>1 DEF Refused
    <3>3. NativeBlockM \in Nat \ {0} /\ M \in Nat \ {0}
      BY BlockAssumption
    <3>4. n \in Nat \ {0}
      BY SizesAssumption
    <3>5. a \in [0 .. n - 1 -> Expert]
      BY DEF Requests
    <3>6. M = NativeBlockM \/ 2 * M <= NativeBlockM
      BY <2>2, DeviceAssumption
    <3>. HIDE DEF M, n
    <3>7. ~ (2 * M <= NativeBlockM)
      BY <3>2, <3>3, <3>4, <3>5, SortedForMore
    <3>. QED
      BY <3>1, <3>6, <3>7
  <2>. QED
    BY <2>3, <2>4
<1>. QED
  BY <1>1, <1>2

\* Both matmuls of an answer read the expert of every slot if their kernels read
\* blocks of one size.
LEMMA RoutedAnswer ==
  ASSUME NEW tokens \in Batches, NEW a \in Requests(tokens),
         w13.weight_type \in Types, w2.weight_type \in Types,
         Answer(a, tokens).kind = "rows",
         KernelBlockM(Answer(a, tokens).lane, w13.weight_type)
           = KernelBlockM(Answer(a, tokens).lane, w2.weight_type),
         NEW i \in DOMAIN a
  PROVE  /\ Answer(a, tokens).rows[i].token = i \div K
         /\ Answer(a, tokens).rows[i].expert1 = a[i]
         /\ Answer(a, tokens).rows[i].expert2 = a[i]
<1> DEFINE n == tokens * K
           lane == Answer(a, tokens).lane
           B == BlockSize(w13.weight_type)
<1>1. n \in Nat \ {0} /\ a \in [0 .. n - 1 -> Expert] /\ i \in 0 .. n - 1
  BY SizesAssumption DEF Requests
<1>2. lane \in {"rocmfpx", "mmq", "vec", "slow"}
  BY RowsOf, Lanes
<1>3. ASSUME NEW t \in {w13.weight_type, w2.weight_type}
      PROVE  Experts(lane, a, B, t)[i] = a[i]
  <2>1. TritonBlockM[t] \in Nat \ {0} /\ B \in Nat \ {0}
    BY BlockSizes
  <2>2. lane \in {"rocmfpx", "mmq"} => B = KernelBlockM(lane, t)
    BY <1>3, SortedAsRead
  <2>. HIDE DEF B, n, lane
  <2>3. ExpertRead(a, TritonBlockM[t], TritonBlockM[t], i) = a[i] /\ ExpertRead(a, B, B, i) = a[i]
    BY <1>1, <2>1, ReadsOwn
  <2>4. CASE lane \in {"rocmfpx", "mmq"}
    BY <2>2, <2>3, <2>4 DEF Experts
  <2>5. CASE lane \in {"vec", "slow"}
    BY <2>3, <2>5 DEF Experts
  <2>. QED
    BY <1>2, <2>4, <2>5
<1>4. Answer(a, tokens).rows[i]
        = SlotRow(Experts(lane, a, B, w13.weight_type), Experts(lane, a, B, w2.weight_type), i)
  <2>1. Answer(a, tokens).rows = Rows(a, lane)
    BY RowsOf
  <2>. HIDE DEF lane
  <2>. QED
    BY <2>1 DEF Rows
<1>. HIDE DEF B, lane
<1>. QED
  BY <1>3, <1>4 DEF SlotRow

-----------------------------------------------------------------------------
(* The last answer.  It was computed from the parameters as they still are,*)
(* and a layer that serves has, of every projection whose type it saw, the *)
(* rows of every expert.                                                   *)
Asked ==
  answer # NoAnswer =>
    /\ status = "ready"
    /\ \E tokens \in Batches : asked \in Requests(tokens) /\ answer = Answer(asked, tokens)

LEMMA NextAsked == Asked /\ [Next]_vars => Asked'
<1> SUFFICES ASSUME Asked, [Next]_vars PROVE Asked'
  OBVIOUS
<1>1. ASSUME UNCHANGED <<w13, w2>>
      PROVE  \A a, tokens : Answer(a, tokens)' = Answer(a, tokens)
  BY <1>1 DEF Answer, SlotRow, Decoded
<1>2. CASE Apply
  <2>1. UNCHANGED <<w13, w2, status>> /\ status = "ready"
    BY <1>2 DEF Apply
  <2>2. \E tokens \in Batches : asked' \in Requests(tokens) /\ answer' = Answer(asked', tokens)
    BY <1>2 DEF Apply
  <2>. QED
    BY <1>1, <2>1, <2>2 DEF Asked
<1>3. CASE UNCHANGED vars
  <2>1. UNCHANGED <<w13, w2, status, asked, answer>>
    BY <1>3 DEF vars
  <2>. QED
    BY <1>1, <2>1 DEF Asked
<1>4. CASE Reload
  BY <1>4 DEF Reload, Asked
<1>5. CASE UNCHANGED answer /\ status = "loading"
  BY <1>5 DEF Asked
<1>6. ASSUME NEW s \in Shards, LoadType(s) PROVE UNCHANGED answer /\ status = "loading"
  BY <1>6 DEF LoadType
<1>7. LoadExpert \/ Process => UNCHANGED answer /\ status = "loading"
  BY DEF LoadExpert, Process
<1>. QED
  BY <1>2, <1>3, <1>4, <1>5, <1>6, <1>7 DEF Next

LEMMA AskedAlways == Spec => []Asked
<1>1. Init => Asked
  BY DEF Init, Asked
<1>. QED
  BY <1>1, NextAsked, PTL DEF Spec

\* In every lane, with every pair of types and for every request, a slot's
\* activations meet the rows of its own expert in both matmuls, if the kernels
\* read the sorted slots in blocks of one size.
THEOREM RoutedInStepAlways == Spec => []RoutedInStep
<1>1. TypeOK /\ Asked => RoutedInStep
  <2> SUFFICES ASSUME TypeOK, Asked, answer.kind = "rows",
                      KernelBlockM(answer.lane, w13.weight_type)
                        = KernelBlockM(answer.lane, w2.weight_type),
                      NEW i \in DOMAIN asked
               PROVE  /\ answer.rows[i].token = i \div K
                      /\ answer.rows[i].expert1 = asked[i]
                      /\ answer.rows[i].expert2 = asked[i]
    BY DEF RoutedInStep, Routed
  <2>1. PICK tokens \in Batches : asked \in Requests(tokens) /\ answer = Answer(asked, tokens)
    BY DEF Asked, NoAnswer
  <2>2. w13.weight_type \in Types /\ w2.weight_type \in Types
    BY DEF TypeOK, Params
  <2>3. Answer(asked, tokens).kind = "rows"
    BY <2>1
  <2>4. KernelBlockM(Answer(asked, tokens).lane, w13.weight_type)
          = KernelBlockM(Answer(asked, tokens).lane, w2.weight_type)
    BY <2>1
  <2>5. /\ Answer(asked, tokens).rows[i].token = i \div K
        /\ Answer(asked, tokens).rows[i].expert1 = asked[i]
        /\ Answer(asked, tokens).rows[i].expert2 = asked[i]
    BY <2>1, <2>2, <2>3, <2>4, RoutedAnswer
  <2>. QED
    BY <2>1, <2>5
<1>. QED
  BY <1>1, TypeCorrect, AskedAlways, PTL

\* The check of BLOCK_M in the ROCmFPX lane, together with that of _validate_args
\* on the number of sorted slots, leaves no misaligned answer.
THEOREM GuardedLaneAlways == Spec => []GuardedLane
<1>1. Asked /\ RoutedInStep => GuardedLane
  <2> SUFFICES ASSUME Asked, RoutedInStep, answer.lane = "rocmfpx", answer.kind = "rows"
               PROVE  Routed
    BY DEF GuardedLane, Routed
  <2>1. PICK tokens \in Batches : answer = Answer(asked, tokens)
    BY DEF Asked, NoAnswer
  <2>2. ~ Mismatch(w13.weight_type, w2.weight_type)
    <3>1. Answer(asked, tokens).kind = "rows" /\ Answer(asked, tokens).lane = "rocmfpx"
      BY <2>1
    <3>. QED
      BY <3>1, RowsOf
  <2>3. KernelBlockM(answer.lane, w13.weight_type) = KernelBlockM(answer.lane, w2.weight_type)
    BY <2>2 DEF Mismatch, KernelBlockM
  <2>. QED
    BY <2>3 DEF RoutedInStep
<1>. QED
  BY <1>1, AskedAlways, RoutedInStepAlways, PTL

\* Of a projection whose type a parameter saw, every expert's rows arrived, or
\* those of the experts before the one that is next; none is of another type.
Projection(p, mine) ==
  /\ p.shard_weight_type \subseteq mine
  /\ \A s \in mine : \A e \in Expert : p.part[<<s, e>>] \in {NoType, file[s]}
  /\ p.shard_weight_type # {} =>
       \E s \in p.shard_weight_type : p.weight_type = file[s]
  /\ status # "refused" =>
       \A s \in p.shard_weight_type : \A e \in Expert :
         p.part[<<s, e>>] = file[s] \/ (loading.shard = s /\ loading.expert <= e)
Complete ==
  /\ Projection(w13, {"w1", "w3"}) /\ Projection(w2, {"w2"})
  /\ status = "ready" => loading = Idle

LEMMA NextComplete == TypeOK /\ Complete /\ [Next]_vars => Complete'
<1> SUFFICES ASSUME TypeOK, Complete, [Next]_vars PROVE Complete'
  OBVIOUS
<1> DEFINE Mine(s) == IF s = "w2" THEN {"w2"} ELSE {"w1", "w3"}
           Others(s) == IF s = "w2" THEN {"w1", "w3"} ELSE {"w2"}
<1>0. w13 \in Params /\ w2 \in Params /\ Idle.shard = "none"
  BY DEF TypeOK, Idle
<1>1. ASSUME NEW s \in Shards, LoadType(s) PROVE Complete'
  <2> DEFINE p == Param(s)
             q == TypeStored(p, s, file[s])
  <2>1. /\ SetParam(s, q) /\ file' = file /\ loading = Idle /\ status = "loading"
        /\ loading' = [shard |-> s, expert |-> 0] \/ status' = "refused"
        /\ status' # "ready"
    BY <1>1 DEF LoadType
  <2>2. p \in Params /\ Projection(p, Mine(s))
    BY <1>0 DEF Param, Complete
  <2>3. /\ q.part = p.part /\ q.shard_weight_type = p.shard_weight_type \cup {s}
        /\ q.weight_type = IF p.shard_weight_type \subseteq {s} THEN file[s] ELSE p.weight_type
    BY <2>2 DEF TypeStored, Params
  <2>. HIDE DEF p, q
  <2>4. /\ q.shard_weight_type \subseteq Mine(s)
        /\ \A t \in Mine(s) : \A e \in Expert : q.part[<<t, e>>] \in {NoType, file'[t]}
        /\ \E t \in q.shard_weight_type : q.weight_type = file'[t]
    BY <2>1, <2>2, <2>3 DEF Projection, Shards
  <2>5. status' # "refused" =>
          \A t \in q.shard_weight_type : \A e \in Expert :
            q.part[<<t, e>>] = file'[t] \/ (loading'.shard = t /\ loading'.expert <= e)
    <3> SUFFICES ASSUME status' # "refused",
                        NEW t \in q.shard_weight_type, NEW e \in Expert
                 PROVE  q.part[<<t, e>>] = file'[t] \/ (loading'.shard = t /\ loading'.expert <= e)
      OBVIOUS
    <3>1. CASE t = s
      <4>1. loading'.shard = s /\ loading'.expert = 0
        BY <2>1
      <4>. QED
        BY <3>1, <4>1 DEF Expert
    <3>2. CASE t # s
      <4>1. t \in p.shard_weight_type /\ loading.shard # t
        BY <1>0, <2>1, <2>2, <2>3, <3>2 DEF Projection
      <4>. QED
        BY <2>1, <2>2, <2>3, <4>1 DEF Projection
    <3>. QED
      BY <3>1, <3>2
  <2>6. CASE s = "w2"
    <3>1. w2' = q /\ w13' = w13
      BY <2>1, <2>6 DEF SetParam
    <3>2. Projection(w2, {"w2"})'
      BY <2>4, <2>5, <2>6, <3>1 DEF Projection
    <3>3. Projection(w13, {"w1", "w3"})'
      BY <1>0, <2>1, <3>1 DEF Projection, Complete
    <3>. QED
      BY <2>1, <3>2, <3>3 DEF Complete
  <2>7. CASE s # "w2"
    <3>1. w13' = q /\ w2' = w2
      BY <2>1, <2>7 DEF SetParam
    <3>2. Projection(w13, {"w1", "w3"})'
      BY <2>4, <2>5, <2>7, <3>1 DEF Projection
    <3>3. Projection(w2, {"w2"})'
      BY <1>0, <2>1, <3>1 DEF Projection, Complete
    <3>. QED
      BY <2>1, <3>2, <3>3 DEF Complete
  <2>. QED
    BY <2>6, <2>7
<1>2. CASE LoadExpert
  <2> DEFINE s == loading.shard
             e == loading.expert
             p == Param(s)
             cols == IF p.cols = 0 THEN Width[file[s]] ELSE p.cols
             q == [p EXCEPT !.cols = cols, !.part[<<s, e>>] = file[s]]
  <2>1. s \in Shards /\ e \in Expert /\ file' = file /\ status = "loading"
        /\ loading \in [shard : Shards, expert : Expert]
    BY <1>2 DEF LoadExpert, TypeOK
  <2>2. CASE cols # Width[file[s]]
    <3>1. UNCHANGED <<loading, w13, w2>> /\ status' = "refused"
      BY <1>2, <2>2 DEF LoadExpert
    <3>. QED
      BY <2>1, <3>1 DEF Complete, Projection
  <2>3. CASE cols = Width[file[s]]
    <3>1. /\ SetParam(s, q) /\ status' = status
          /\ loading' = IF e + 1 \in Expert THEN [loading EXCEPT !.expert = e + 1] ELSE Idle
      BY <1>2, <2>3 DEF LoadExpert
    <3>2. p \in Params /\ Projection(p, Mine(s))
      BY <1>0, <2>1 DEF Param, Complete
    <3>3. /\ q.shard_weight_type = p.shard_weight_type /\ q.weight_type = p.weight_type
          /\ \A t \in Shards, g \in Expert :
               q.part[<<t, g>>] = IF t = s /\ g = e THEN file[s] ELSE p.part[<<t, g>>]
      BY <2>1, <3>2 DEF Params
    <3>4. \A g \in Expert : g # e /\ e <= g => loading'.shard = s /\ loading'.expert <= g
      <4> SUFFICES ASSUME NEW g \in Expert, g # e, e <= g
                   PROVE  loading'.shard = s /\ loading'.expert <= g
        OBVIOUS
      <4>1. e + 1 \in Expert /\ e + 1 <= g
        BY <2>1, SizesAssumption DEF Expert
      <4>2. loading'.shard = s /\ loading'.expert = e + 1
        BY <2>1, <3>1, <4>1
      <4>. QED
        BY <4>1, <4>2
    <3>. HIDE DEF p, q, cols, e
    <3>5. /\ q.shard_weight_type \subseteq Mine(s)
          /\ \A t \in Mine(s) : \A g \in Expert : q.part[<<t, g>>] \in {NoType, file'[t]}
          /\ q.shard_weight_type # {} => \E t \in q.shard_weight_type : q.weight_type = file'[t]
      BY <2>1, <3>2, <3>3 DEF Projection, Shards
    <3>6. \A t \in q.shard_weight_type : \A g \in Expert :
            q.part[<<t, g>>] = file'[t] \/ (loading'.shard = t /\ loading'.expert <= g)
      <4> SUFFICES ASSUME NEW t \in q.shard_weight_type, NEW g \in Expert
                   PROVE  q.part[<<t, g>>] = file'[t]
                            \/ (loading'.shard = t /\ loading'.expert <= g)
        OBVIOUS
      <4>1. p.part[<<t, g>>] = file[t] \/ (s = t /\ e <= g)
        BY <2>1, <3>2, <3>3 DEF Projection, e
      <4>2. t \in Shards
        BY <3>5 DEF Shards
      <4>. QED
        BY <2>1, <3>3, <3>4, <4>1, <4>2
    <3>7. CASE s = "w2"
      <4>1. w2' = q /\ w13' = w13
        BY <3>1, <3>7 DEF SetParam
      <4>2. Projection(w2, {"w2"})'
        BY <3>5, <3>6, <3>7, <4>1 DEF Projection
      <4>3. Projection(w13, {"w1", "w3"})'
        BY <2>1, <3>1, <3>7, <4>1 DEF Projection, Complete
      <4>. QED
        BY <2>1, <3>1, <4>2, <4>3 DEF Complete
    <3>8. CASE s # "w2"
      <4>1. w13' = q /\ w2' = w2
        BY <3>1, <3>8 DEF SetParam
      <4>2. Projection(w13, {"w1", "w3"})'
        BY <3>5, <3>6, <3>8, <4>1 DEF Projection
      <4>3. Projection(w2, {"w2"})'
        BY <2>1, <3>1, <3>8, <4>1 DEF Projection, Complete
      <4>. QED
        BY <2>1, <3>1, <4>2, <4>3 DEF Complete
    <3>. QED
      BY <3>7, <3>8
  <2>. QED
    BY <2>2, <2>3
<1>3. CASE Process
  <2>1. /\ w13'.part = w13.part /\ w13'.weight_type = w13.weight_type
        /\ w13'.shard_weight_type = w13.shard_weight_type
        /\ w2'.part = w2.part /\ w2'.weight_type = w2.weight_type
        /\ w2'.shard_weight_type = w2.shard_weight_type
        /\ UNCHANGED <<file, loading>> /\ loading = Idle /\ status = "loading"
    BY <1>0, <1>3 DEF Process, Params
  <2>. QED
    BY <2>1 DEF Complete, Projection
<1>4. CASE Reload
  <2>1. UNCHANGED <<file, loading, w13, w2>> /\ status = "ready" /\ status' = "loading"
    BY <1>4 DEF Reload
  <2>. QED
    BY <2>1 DEF Complete, Projection
<1>5. CASE Apply \/ UNCHANGED vars
  <2>1. UNCHANGED <<file, loading, w13, w2, status>>
    BY <1>5 DEF Apply, vars
  <2>. QED
    BY <2>1 DEF Complete, Projection
<1>. QED
  BY <1>1, <1>2, <1>3, <1>4, <1>5 DEF Next

LEMMA CompleteAlways == Spec => []Complete
<1>1. Init => Complete
  BY DEF Init, Complete, Projection, Blank, Shards
<1>. QED
  BY <1>1, NextComplete, TypeCorrect, PTL DEF Spec

\* A layer whose gate and up projections share a type decodes every row it
\* multiplies as it was packed, after any order of arrival, missing tensors and
\* reloads.
THEOREM OneTypeDecodesAlways == Spec => []OneTypeDecodes
<1>1. Asked /\ Complete /\ Typed(w2) => OneTypeDecodes
  <2> SUFFICES ASSUME Asked, Complete, Typed(w2), answer.kind = "rows",
                      file["w1"] = file["w3"], w13.shard_weight_type = {"w1", "w3"},
                      NEW i \in DOMAIN asked
               PROVE  answer.rows[i].decoded
    BY DEF OneTypeDecodes
  <2>1. PICK tokens \in Batches : answer = Answer(asked, tokens)
    BY DEF Asked, NoAnswer
  <2>2. Answer(asked, tokens).kind = "rows"
    BY <2>1
  <2>3. answer.rows = Rows(asked, answer.lane) /\ w2.cols # 0
    BY <2>1, <2>2, RowsOf
  <2>4. status # "refused" /\ loading.shard = "none"
    BY DEF Asked, Complete, NoAnswer, Idle
  <2>5. \A e \in Expert, s \in {"w1", "w3"} : w13.part[<<s, e>>] = w13.weight_type
    BY <2>4 DEF Complete, Projection
  <2>6. \A e \in Expert : w2.part[<<"w2", e>>] = w2.weight_type
    <3>1. w2.shard_weight_type = {"w2"}
      BY <2>3 DEF Complete, Projection, Typed
    <3>2. w2.weight_type = file["w2"]
      BY <3>1 DEF Complete, Projection
    <3>3. ASSUME NEW e \in Expert PROVE w2.part[<<"w2", e>>] = file["w2"]
      <4>1. "w2" \in w2.shard_weight_type
        BY <3>1
      <4>2. w2.part[<<"w2", e>>] = file["w2"] \/ loading.shard = "w2"
        BY <2>4, <4>1 DEF Complete, Projection
      <4>. QED
        BY <2>4, <4>2
    <3>. QED
      BY <3>2, <3>3
  <2>7. \A e : Decoded(w13, {"w1", "w3"}, e) /\ Decoded(w2, {"w2"}, e)
    BY <2>5, <2>6 DEF Decoded
  <2>8. \A first, second : SlotRow(first, second, i).decoded = TRUE
    BY <2>7 DEF SlotRow
  <2>. QED
    BY <2>3, <2>8 DEF Rows
<1>2. Spec => []Typed(w2)
  <2>1. Init => WidthInv
    BY DEF Init, Blank, Idle, WidthInv, WidthOfType, OneType, Typed, Opening
  <2>2. WidthInv => Typed(w2)
    BY DEF WidthInv
  <2>. QED
    BY <2>1, <2>2, NextWidth, TypeCorrect, PTL DEF Spec
<1>. QED
  BY <1>1, <1>2, AskedAlways, CompleteAlways, PTL
===============================================================================
