----------------------------- MODULE AuditProofs -----------------------------
(***************************************************************************)
(* The host's books and the chain agree, for any payments, blocks and      *)
(* scans, if the host asks Pending after errors and pays only others.      *)
(***************************************************************************)
EXTENDS Audit, DepositsProofs, FiniteSetTheorems

----------------------------------------------------------------------------
(* Sums: what SumFunctionOnSet of a finite set returns.  Each fact is shown *)
(* of a smallest set it would fail for.                                     *)

LEMMA Smallest ==
  ASSUME NEW S, IsFiniteSet(S), NEW T, T \subseteq SUBSET S, T # {}
  PROVE  \E s \in T : \A t \in T : t \subseteq s => t = s
PROOF
<1>1. IsWellFoundedOn(StrictSubsetOrdering(S), SUBSET S)
  BY FS_StrictSubsetOrderingWellFounded, FS_FiniteSubsetsOfFinite
<1>2. PICK s \in T : \A t \in T : <<t, s>> \notin StrictSubsetOrdering(S)
  BY <1>1, WFMin
<1>3. ASSUME NEW t \in T, t \subseteq s PROVE t = s
  BY <1>2, <1>3 DEF StrictSubsetOrdering
<1>4. QED  BY <1>3

LEMMA ImageFinite ==
  ASSUME NEW S, IsFiniteSet(S), NEW m
  PROVE  IsFiniteSet({m[x] : x \in S})
PROOF
<1> DEFINE f == [x \in S |-> m[x]]
           T == {m[x] : x \in S}
<1>1. f \in Surjection(S, T)  BY DEF Surjection
<1> HIDE DEF f, T
<1>2. IsFiniteSet(T)  BY <1>1, FS_Surjection
<1>3. QED  BY <1>2 DEF T

\* The element a sum begins with, and the function by which it is computed.
Foremost(s) == CHOOSE x \in s : TRUE
Summing(g, f, S) ==
  g = [s \in SUBSET S |->
        IF s = {} THEN 0 ELSE f[Foremost(s)] + g[s \ {Foremost(s)}]]

LEMMA ForemostIn == ASSUME NEW s, s # {} PROVE Foremost(s) \in s
PROOF
  BY DEF Foremost

LEMMA SumIsSumming ==
  ASSUME NEW f, NEW S
  PROVE  SumFunctionOnSet(f, S) = (CHOOSE g : Summing(g, f, S))[S]
PROOF
  BY DEF SumFunctionOnSet, FoldFunctionOnSet, MapThenFoldSet, Summing, Foremost

LEMMA SummingStep ==
  ASSUME NEW f, NEW S, NEW g, Summing(g, f, S), NEW s \in SUBSET S
  PROVE  g[s] = IF s = {} THEN 0 ELSE f[Foremost(s)] + g[s \ {Foremost(s)}]
PROOF
  BY DEF Summing

LEMMA SummingUnique ==
  ASSUME NEW f, NEW S, IsFiniteSet(S), NEW A, NEW B, S \subseteq A, S \subseteq B,
         NEW g, Summing(g, f, A), NEW h, Summing(h, f, B)
  PROVE  g[S] = h[S]
PROOF
<1> DEFINE T == {s \in SUBSET S : g[s] # h[s]}
<1> SUFFICES ASSUME T # {} PROVE FALSE
  OBVIOUS
<1>1. T \subseteq SUBSET S  OBVIOUS
<1> HIDE DEF T
<1>2. PICK s \in T : \A t \in T : t \subseteq s => t = s  BY <1>1, Smallest
<1> USE DEF T
<1>3. s \in SUBSET A /\ s \in SUBSET B /\ g[s] # h[s]  BY <1>2
<1>4. /\ g[s] = IF s = {} THEN 0 ELSE f[Foremost(s)] + g[s \ {Foremost(s)}]
      /\ h[s] = IF s = {} THEN 0 ELSE f[Foremost(s)] + h[s \ {Foremost(s)}]
  BY <1>3, SummingStep
<1>5. s # {} /\ Foremost(s) \in s  BY <1>3, <1>4, ForemostIn
<1>6. s \ {Foremost(s)} \in SUBSET S /\ s \ {Foremost(s)} # s  BY <1>2, <1>5
<1>7. g[s \ {Foremost(s)}] = h[s \ {Foremost(s)}]  BY <1>2, <1>6
<1>8. QED  BY <1>3, <1>4, <1>5, <1>7

LEMMA SummingExists ==
  ASSUME NEW f, NEW S, IsFiniteSet(S)
  PROVE  \E g : Summing(g, f, S)
PROOF
<1> DEFINE T == {s \in SUBSET S : ~ \E g : Summing(g, f, s)}
<1> SUFFICES ASSUME T # {} PROVE FALSE
  OBVIOUS
<1>1. T \subseteq SUBSET S  OBVIOUS
<1> HIDE DEF T
<1>2. PICK s \in T : \A t \in T : t \subseteq s => t = s  BY <1>1, Smallest
<1> DEFINE below(t) == CHOOSE g : Summing(g, f, t)
           rest(t) == t \ {Foremost(t)}
           g0 == [t \in SUBSET s |->
                   IF t = {} THEN 0 ELSE f[Foremost(t)] + below(rest(t))[rest(t)]]
<1>3. ASSUME NEW t \in SUBSET s, t # s PROVE Summing(below(t), f, t)
  <2>1. t \notin T /\ t \in SUBSET S  BY <1>1, <1>2, <1>3
  <2>2. \E g : Summing(g, f, t)  BY <2>1 DEF T
  <2>3. QED  BY <2>2
<1>4. \A t \in SUBSET s : t # {} => rest(t) \in SUBSET s /\ rest(t) # s /\ rest(t) \subseteq t
  BY ForemostIn
<1>5. \A t \in SUBSET s :
        g0[t] = IF t = {} THEN 0 ELSE f[Foremost(t)] + below(rest(t))[rest(t)]
  OBVIOUS
<1>6. DOMAIN g0 = SUBSET s /\ g0 = [t \in SUBSET s |-> g0[t]]  OBVIOUS
<1> HIDE DEF below, g0
<1>7. ASSUME NEW t \in SUBSET s, t # s PROVE g0[t] = below(t)[t]
  <2>1. Summing(below(t), f, t)  BY <1>3, <1>7
  <2>2. below(t)[t] = IF t = {} THEN 0 ELSE f[Foremost(t)] + below(t)[rest(t)]
    BY <2>1, SummingStep
  <2>3. t # {} => below(t)[rest(t)] = below(rest(t))[rest(t)]
    <3> SUFFICES ASSUME t # {} PROVE below(t)[rest(t)] = below(rest(t))[rest(t)]
      OBVIOUS
    <3>1. rest(t) \in SUBSET s /\ rest(t) # s /\ rest(t) \subseteq t  BY <1>4
    <3>2. Summing(below(rest(t)), f, rest(t))  BY <3>1, <1>3
    <3>3. IsFiniteSet(rest(t))  BY <3>1, <1>1, <1>2, FS_Subset
    <3> HIDE DEF rest
    <3>4. QED  BY <2>1, <3>1, <3>2, <3>3, SummingUnique
  <2>4. QED  BY <1>5, <2>2, <2>3
<1>8. \A t \in SUBSET s : g0[t] = IF t = {} THEN 0 ELSE f[Foremost(t)] + g0[rest(t)]
  <2> HIDE DEF rest
  <2>1. QED  BY <1>4, <1>5, <1>7
<1>9. Summing(g0, f, s)
  <2>1. g0 = [t \in SUBSET s |-> IF t = {} THEN 0 ELSE f[Foremost(t)] + g0[t \ {Foremost(t)}]]
    BY <1>6, <1>8
  <2>2. QED  BY <2>1 DEF Summing
<1>10. QED  BY <1>2, <1>9 DEF T

\* A sum is nothing, or its foremost element's value and the sum of the rest.
LEMMA SumUnfolds ==
  ASSUME NEW f, NEW S, IsFiniteSet(S)
  PROVE  SumFunctionOnSet(f, S) =
           IF S = {} THEN 0
           ELSE f[Foremost(S)] + SumFunctionOnSet(f, S \ {Foremost(S)})
PROOF
<1> DEFINE g == CHOOSE g : Summing(g, f, S)
           R == S \ {Foremost(S)}
           h == CHOOSE h : Summing(h, f, R)
<1>1. IsFiniteSet(R)  BY FS_Subset
<1>2. Summing(g, f, S) /\ Summing(h, f, R)
  <2>1. \E u : Summing(u, f, S)  BY SummingExists
  <2> HIDE DEF R
  <2>2. \E u : Summing(u, f, R)  BY <1>1, SummingExists
  <2>3. QED  BY <2>1, <2>2
<1>3. SumFunctionOnSet(f, S) = g[S]  BY SumIsSumming
<1>4. SumFunctionOnSet(f, R) = h[R]
  <2> HIDE DEF R
  <2>1. QED  BY SumIsSumming
<1> HIDE DEF g, h
<1>5. g[S] = IF S = {} THEN 0 ELSE f[Foremost(S)] + g[R]
  <2>1. S \in SUBSET S  OBVIOUS
  <2>2. Summing(g, f, S)  BY <1>2
  <2>3. QED  BY <2>1, <2>2, SummingStep
<1>6. g[R] = h[R]
  <2>1. R \subseteq S  OBVIOUS
  <2> HIDE DEF R
  <2>2. QED  BY <1>1, <1>2, <2>1, SummingUnique
<1>7. QED  BY <1>3, <1>4, <1>5, <1>6

LEMMA SumOfNone == ASSUME NEW f PROVE SumFunctionOnSet(f, {}) = 0
PROOF
  BY SumUnfolds, FS_EmptySet

LEMMA SumIsInt ==
  ASSUME NEW S, IsFiniteSet(S), NEW f, \A x \in S : f[x] \in Int
  PROVE  SumFunctionOnSet(f, S) \in Int
PROOF
<1> DEFINE T == {s \in SUBSET S : SumFunctionOnSet(f, s) \notin Int}
<1> SUFFICES ASSUME T # {} PROVE FALSE
  OBVIOUS
<1>1. T \subseteq SUBSET S  OBVIOUS
<1> HIDE DEF T
<1>2. PICK s \in T : \A t \in T : t \subseteq s => t = s  BY <1>1, Smallest
<1> DEFINE r == s \ {Foremost(s)}
<1>3. s \in SUBSET S /\ IsFiniteSet(s)  BY <1>1, <1>2, FS_Subset
<1>4. SumFunctionOnSet(f, s) =
        IF s = {} THEN 0 ELSE f[Foremost(s)] + SumFunctionOnSet(f, r)
  BY <1>3, SumUnfolds
<1>5. SumFunctionOnSet(f, s) \notin Int  BY <1>2 DEF T
<1>6. s # {} /\ Foremost(s) \in s  BY <1>4, <1>5, ForemostIn
<1>7. r \notin T /\ r \in SUBSET S  BY <1>2, <1>3, <1>6
<1>8. SumFunctionOnSet(f, r) \in Int  BY <1>7 DEF T
<1>9. f[Foremost(s)] \in Int  BY <1>3, <1>6
<1> HIDE DEF r
<1>10. QED  BY <1>4, <1>5, <1>6, <1>8, <1>9

\* The order of the elements does not matter: any of them may come first.
LEMMA SumTakes ==
  ASSUME NEW S, IsFiniteSet(S), NEW f, \A x \in S : f[x] \in Int, NEW e \in S
  PROVE  SumFunctionOnSet(f, S) = f[e] + SumFunctionOnSet(f, S \ {e})
PROOF
<1> DEFINE Sum(s) == SumFunctionOnSet(f, s)
           T == {s \in SUBSET S : \E x \in s : Sum(s) # f[x] + Sum(s \ {x})}
<1> SUFFICES ASSUME T # {} PROVE FALSE
  OBVIOUS
<1>1. T \subseteq SUBSET S  OBVIOUS
<1> HIDE DEF T
<1>2. PICK s \in T : \A t \in T : t \subseteq s => t = s  BY <1>1, Smallest
<1>3. PICK x \in s : Sum(s) # f[x] + Sum(s \ {x})  BY <1>2 DEF T
<1> DEFINE c == Foremost(s)
<1>4. s \in SUBSET S /\ IsFiniteSet(s)  BY <1>1, <1>2, FS_Subset
<1>5. c \in s /\ Sum(s) = f[c] + Sum(s \ {c})  BY <1>3, <1>4, SumUnfolds, ForemostIn
<1>6. c # x  BY <1>3, <1>5
<1> DEFINE r == (s \ {c}) \ {x}
<1>7. (s \ {x}) \ {c} = r  OBVIOUS
<1>8. \A t \in SUBSET s : t # s => t \notin T  BY <1>2
<1>9. Sum(s \ {c}) = f[x] + Sum(r)
  <2>1. s \ {c} \notin T /\ s \ {c} \in SUBSET S /\ x \in s \ {c}
    BY <1>4, <1>5, <1>6, <1>8
  <2> HIDE DEF c, Sum
  <2>2. QED  BY <2>1 DEF T
<1>10. Sum(s \ {x}) = f[c] + Sum(r)
  <2>1. s \ {x} \notin T /\ s \ {x} \in SUBSET S /\ c \in s \ {x}
    BY <1>3, <1>4, <1>5, <1>6, <1>8
  <2> HIDE DEF c, Sum
  <2>2. QED  BY <1>7, <2>1 DEF T
<1>11. Sum(r) \in Int
  <2>1. r \in SUBSET S  BY <1>4
  <2> HIDE DEF r
  <2>2. IsFiniteSet(r) /\ \A y \in r : f[y] \in Int  BY <2>1, FS_Subset
  <2>3. QED  BY <2>2, SumIsInt
<1>12. f[x] \in Int /\ f[c] \in Int  BY <1>3, <1>4, <1>5
<1> HIDE DEF c, r, Sum
<1>13. QED  BY <1>3, <1>5, <1>9, <1>10, <1>11, <1>12

LEMMA SumSame ==
  ASSUME NEW S, IsFiniteSet(S), NEW f, NEW g, \A x \in S : f[x] = g[x]
  PROVE  SumFunctionOnSet(f, S) = SumFunctionOnSet(g, S)
PROOF
<1> DEFINE T == {s \in SUBSET S : SumFunctionOnSet(f, s) # SumFunctionOnSet(g, s)}
<1> SUFFICES ASSUME T # {} PROVE FALSE
  OBVIOUS
<1>1. T \subseteq SUBSET S  OBVIOUS
<1> HIDE DEF T
<1>2. PICK s \in T : \A t \in T : t \subseteq s => t = s  BY <1>1, Smallest
<1> DEFINE r == s \ {Foremost(s)}
<1>3. s \in SUBSET S /\ IsFiniteSet(s)  BY <1>1, <1>2, FS_Subset
<1>4. /\ SumFunctionOnSet(f, s) =
           IF s = {} THEN 0 ELSE f[Foremost(s)] + SumFunctionOnSet(f, r)
      /\ SumFunctionOnSet(g, s) =
           IF s = {} THEN 0 ELSE g[Foremost(s)] + SumFunctionOnSet(g, r)
  BY <1>3, SumUnfolds
<1>5. SumFunctionOnSet(f, s) # SumFunctionOnSet(g, s)  BY <1>2 DEF T
<1>6. s # {} /\ Foremost(s) \in s  BY <1>4, <1>5, ForemostIn
<1>7. r \notin T /\ r \in SUBSET S  BY <1>2, <1>3, <1>6
<1>8. SumFunctionOnSet(f, r) = SumFunctionOnSet(g, r)  BY <1>7 DEF T
<1>9. QED  BY <1>3, <1>4, <1>5, <1>6, <1>8

\* Sums subtract.
LEMMA SumOfDifferences ==
  ASSUME NEW S, IsFiniteSet(S), NEW f, NEW g, NEW h,
         \A x \in S : f[x] \in Int /\ g[x] \in Int /\ h[x] = f[x] - g[x]
  PROVE  SumFunctionOnSet(h, S) = SumFunctionOnSet(f, S) - SumFunctionOnSet(g, S)
PROOF
<1> DEFINE T == {s \in SUBSET S : SumFunctionOnSet(h, s) #
                                  SumFunctionOnSet(f, s) - SumFunctionOnSet(g, s)}
<1> SUFFICES ASSUME T # {} PROVE FALSE
  OBVIOUS
<1>1. T \subseteq SUBSET S  OBVIOUS
<1> HIDE DEF T
<1>2. PICK s \in T : \A t \in T : t \subseteq s => t = s  BY <1>1, Smallest
<1> DEFINE r == s \ {Foremost(s)}
<1>3. s \in SUBSET S /\ IsFiniteSet(s)  BY <1>1, <1>2, FS_Subset
<1>4. /\ SumFunctionOnSet(f, s) =
           IF s = {} THEN 0 ELSE f[Foremost(s)] + SumFunctionOnSet(f, r)
      /\ SumFunctionOnSet(g, s) =
           IF s = {} THEN 0 ELSE g[Foremost(s)] + SumFunctionOnSet(g, r)
      /\ SumFunctionOnSet(h, s) =
           IF s = {} THEN 0 ELSE h[Foremost(s)] + SumFunctionOnSet(h, r)
  BY <1>3, SumUnfolds
<1>5. SumFunctionOnSet(h, s) # SumFunctionOnSet(f, s) - SumFunctionOnSet(g, s)
  BY <1>2 DEF T
<1>6. s # {} /\ Foremost(s) \in s  BY <1>4, <1>5, ForemostIn
<1>7. r \notin T /\ r \in SUBSET S  BY <1>2, <1>3, <1>6
<1>8. SumFunctionOnSet(h, r) = SumFunctionOnSet(f, r) - SumFunctionOnSet(g, r)
  BY <1>7 DEF T
<1>9. SumFunctionOnSet(f, r) \in Int /\ SumFunctionOnSet(g, r) \in Int
  <2> HIDE DEF r
  <2>1. IsFiniteSet(r) /\ \A x \in r : f[x] \in Int /\ g[x] \in Int  BY <1>7, FS_Subset
  <2>2. QED  BY <2>1, SumIsInt
<1>10. /\ f[Foremost(s)] \in Int /\ g[Foremost(s)] \in Int
       /\ h[Foremost(s)] = f[Foremost(s)] - g[Foremost(s)]
  BY <1>3, <1>6
<1> HIDE DEF r
<1>11. QED  BY <1>4, <1>5, <1>6, <1>8, <1>9, <1>10

\* What is zero may be left out.
LEMMA SumLeavesZeros ==
  ASSUME NEW S, IsFiniteSet(S), NEW f, NEW R \in SUBSET S,
         \A x \in S : f[x] \in Int, \A x \in S \ R : f[x] = 0
  PROVE  SumFunctionOnSet(f, S) = SumFunctionOnSet(f, R)
PROOF
<1> DEFINE T == {s \in SUBSET S : R \subseteq s /\
                                  SumFunctionOnSet(f, s) # SumFunctionOnSet(f, R)}
<1> SUFFICES ASSUME T # {} PROVE FALSE
  OBVIOUS
<1>1. T \subseteq SUBSET S  OBVIOUS
<1> HIDE DEF T
<1>2. PICK s \in T : \A t \in T : t \subseteq s => t = s  BY <1>1, Smallest
<1>3. /\ s \in SUBSET S /\ IsFiniteSet(s)
      /\ R \subseteq s /\ SumFunctionOnSet(f, s) # SumFunctionOnSet(f, R)
  BY <1>1, <1>2, FS_Subset DEF T
<1>4. PICK x \in s : x \notin R  BY <1>3
<1> DEFINE r == s \ {x}
<1>5. r \notin T /\ r \in SUBSET S /\ R \subseteq r  BY <1>2, <1>3, <1>4
<1>6. SumFunctionOnSet(f, r) = SumFunctionOnSet(f, R)  BY <1>5 DEF T
<1>7. SumFunctionOnSet(f, s) = f[x] + SumFunctionOnSet(f, r)  BY <1>3, <1>4, SumTakes
<1>8. SumFunctionOnSet(f, r) \in Int
  <2> HIDE DEF r
  <2>1. IsFiniteSet(r) /\ \A y \in r : f[y] \in Int  BY <1>5, FS_Subset
  <2>2. QED  BY <2>1, SumIsInt
<1>9. f[x] = 0  BY <1>3, <1>4
<1> HIDE DEF r
<1>10. QED  BY <1>3, <1>6, <1>7, <1>8, <1>9

\* A sum does not depend on the names of what is summed.
LEMMA SumRenamed ==
  ASSUME NEW S, IsFiniteSet(S), NEW f, NEW g, NEW m,
         \A x \in S : g[m[x]] = f[x] /\ f[x] \in Int,
         \A x, y \in S : m[x] = m[y] => x = y
  PROVE  SumFunctionOnSet(f, S) = SumFunctionOnSet(g, {m[x] : x \in S})
PROOF
<1> DEFINE Image(s) == {m[x] : x \in s}
           T == {s \in SUBSET S : SumFunctionOnSet(f, s) # SumFunctionOnSet(g, Image(s))}
<1> SUFFICES ASSUME T # {} PROVE FALSE
  OBVIOUS
<1>1. T \subseteq SUBSET S  OBVIOUS
<1> HIDE DEF T
<1>2. PICK s \in T : \A t \in T : t \subseteq s => t = s  BY <1>1, Smallest
<1>3. s \in SUBSET S /\ IsFiniteSet(s)  BY <1>1, <1>2, FS_Subset
<1>4. SumFunctionOnSet(f, s) # SumFunctionOnSet(g, Image(s))
  <2> HIDE DEF Image
  <2>1. QED  BY <1>2 DEF T
<1> DEFINE c == Foremost(s)
           r == s \ {c}
<1>5. s # {}
  <2>1. ASSUME s = {} PROVE FALSE
    <3>1. Image(s) = {}  BY <2>1
    <3> HIDE DEF Image
    <3>2. QED  BY <1>4, <2>1, <3>1, SumOfNone
  <2>2. QED  BY <2>1
<1>6. c \in s /\ SumFunctionOnSet(f, s) = f[c] + SumFunctionOnSet(f, r)
  BY <1>3, <1>5, SumUnfolds, ForemostIn
<1>7. SumFunctionOnSet(f, r) = SumFunctionOnSet(g, Image(r))
  <2>1. r \notin T /\ r \in SUBSET S  BY <1>2, <1>3, <1>6
  <2> HIDE DEF r, Image
  <2>2. QED  BY <2>1 DEF T
<1> HIDE DEF c
<1>8. Image(s) \ {m[c]} = Image(r) /\ m[c] \in Image(s)  BY <1>3, <1>6
<1>9. IsFiniteSet(Image(s)) /\ \A y \in Image(s) : g[y] \in Int
  <2>1. IsFiniteSet(Image(s))  BY <1>3, ImageFinite
  <2>2. QED  BY <2>1, <1>3
<1>10. SumFunctionOnSet(g, Image(s)) = g[m[c]] + SumFunctionOnSet(g, Image(r))
  <2> HIDE DEF Image, r
  <2>1. SumFunctionOnSet(g, Image(s)) = g[m[c]] + SumFunctionOnSet(g, Image(s) \ {m[c]})
    BY <1>8, <1>9, SumTakes
  <2>2. QED  BY <1>8, <2>1
<1>11. g[m[c]] = f[c]  BY <1>3, <1>6
<1> HIDE DEF Image, r
<1>12. QED  BY <1>4, <1>6, <1>7, <1>10, <1>11
----------------------------------------------------------------------------
(* Types *)

\* No more operations than there may be, and none is asked about that is not
\* one of them.
Fits == Len(ops) <= MaxOps /\ audit.todo \subseteq DOMAIN ops

TInv == Inv /\ TypeOK /\ Fits

LEMMA OperationTyped ==
  ASSUME TypeOK, NEW k \in DOMAIN ops
  PROVE  /\ ops[k] \in Operations /\ k \in Nat /\ k \in 1 .. Len(ops)
         /\ ops[k].amount \in Nat \ {0} /\ ops[k].block \in Nat
         /\ ops[k].kind \in {"payment", "refill"} /\ ops[k].to \in {"self", "other"}
PROOF
<1>1. ops \in Seq(Operations) /\ DOMAIN ops = 1 .. Len(ops) /\ Len(ops) \in Nat
  BY LenProperties DEF TypeOK
<1>2. ops[k] \in Operations  BY <1>1, ElementOfSeq
<1>3. k \in 1 .. Len(ops) /\ k \in Nat  BY <1>1
<1>4. /\ ops[k].amount \in Amounts /\ ops[k].block \in 0 .. MaxBlock
      /\ ops[k].kind \in {"payment", "refill"} /\ ops[k].to \in Payees \cup {"other"}
  BY <1>2 DEF Operations
<1>5. ops[k].amount \in Nat \ {0}  BY <1>4, PaymentsAssumption
<1>6. ops[k].to \in {"self", "other"}  BY <1>4, PaymentsAssumption
<1>7. ops[k].block \in Nat  BY <1>4, ContentsAssumption
<1>8. QED  BY <1>2, <1>3, <1>4, <1>5, <1>6, <1>7

\* What an operation emits: its own sends, a payment at most one and of its
\* amount.
LEMMA EmitsSends ==
  ASSUME TypeOK, NEW k \in DOMAIN ops, NEW e \in Emits(k) \cup {<<>>}
  PROVE  /\ e \in Seq(Transfers)
         /\ \A i \in DOMAIN e :
              /\ e[i].from = "self" /\ e[i].by = k
              /\ e[i].to = "other" \/ e[i].to = ops[k].to
              /\ ops[k].kind = "payment" => e[i].amount = ops[k].amount
         /\ ops[k].kind = "payment" => Len(e) <= 1
PROOF
<1>1. /\ k \in Nat /\ ops[k].amount \in Nat /\ ops[k].to \in {"self", "other"}
  BY OperationTyped
<1>2. ASSUME NEW to \in {"self", "other"}, NEW n \in Nat PROVE Send(k, to, n) \in Transfers
  BY <1>1 DEF Send, Transfers
<1>3. CASE e = <<>>
  BY <1>3, EmptySeq
<1>4. CASE e = <<Send(k, ops[k].to, ops[k].amount)>>
  <2> DEFINE t == Send(k, ops[k].to, ops[k].amount)
  <2>1. t \in Transfers  BY <1>1, <1>2
  <2>2. t.from = "self" /\ t.by = k /\ t.to = ops[k].to /\ t.amount = ops[k].amount
    BY DEF Send
  <2> HIDE DEF t
  <2>3. QED  BY <1>4, <2>1, <2>2 DEF t
<1>5. ASSUME ops[k].kind # "payment", NEW n \in Nat,
             e = <<Send(k, "other", n)>> \/ e = <<Send(k, "other", n), Send(k, "other", 1)>>
      PROVE  /\ e \in Seq(Transfers)
             /\ \A i \in DOMAIN e : e[i].from = "self" /\ e[i].by = k /\ e[i].to = "other"
  <2> DEFINE t == Send(k, "other", n)
             u == Send(k, "other", 1)
  <2>1. t \in Transfers /\ u \in Transfers  BY <1>2
  <2>2. t.from = "self" /\ t.by = k /\ t.to = "other" /\ u.from = "self" /\ u.by = k /\ u.to = "other"
    BY DEF Send
  <2>3. e = <<t>> \/ e = <<t, u>>  BY <1>5
  <2> HIDE DEF t, u
  <2>4. CASE e = <<t>>  BY <2>1, <2>2, <2>4
  <2>5. CASE e = <<t, u>>
    <3>1. e \in Seq(Transfers)  BY <2>1, <2>5
    <3>2. DOMAIN e = {1, 2} /\ e[1] = t /\ e[2] = u  BY <2>5
    <3>3. QED  BY <2>2, <3>1, <3>2
  <2>6. QED  BY <2>3, <2>4, <2>5
<1>6. CASE ops[k].kind = "payment"  BY <1>3, <1>4, <1>6 DEF Emits
<1>7. CASE ops[k].kind # "payment"
  <2>1. e = <<>> \/ \E n \in Nat : \/ e = <<Send(k, "other", n)>>
                                   \/ e = <<Send(k, "other", n), Send(k, "other", 1)>>
    BY <1>1, <1>7 DEF Emits
  <2>2. QED  BY <1>3, <1>5, <1>7, <2>1
<1>8. QED  BY <1>6, <1>7

\* Mining an operation is mining one more block.
LEMMA MineOperationMines ==
  ASSUME TInv, NEW k \in DOMAIN ops, NEW c \in Contents, NEW e \in Emits(k) \cup {<<>>},
         NEW success, MineOperation(k, c, e, success)
  PROVE  c \o e \in Seq(Transfers) /\ MineBlock(c \o e)
PROOF
<1>1. c \in Seq(Transfers) /\ e \in Seq(Transfers)
  BY ContentsAssumption, EmitsSends DEF TInv
<1>2. QED  BY <1>1, ConcatProperties DEF MineOperation, MineBlock

\* Whatever the host does, the scan keeps what it has.
LEMMA ScanKeeps == ASSUME TInv, [Next]_vars PROVE Inv'
PROOF
<1>1. Inv  BY DEF TInv
<1>2. CASE UNCHANGED vars  BY <1>1, <1>2, StepInv DEF vars
<1>3. CASE ChainMoves
  <2>1. ASSUME NEW c \in Contents, MineBlock(c) PROVE Inv'
    BY <1>1, <2>1, MineKeeps, ContentsAssumption
  <2>2. CASE Undo  BY <1>1, <2>2, UndoKeeps DEF Undo
  <2>3. CASE SettleBlock  BY <1>1, <2>3, SettleKeeps
  <2>4. ASSUME NEW k \in DOMAIN ops, NEW c \in Contents, NEW success,
               NEW e \in Emits(k) \cup {<<>>}, MineOperation(k, c, e, success)
        PROVE  Inv'
    BY <1>1, <2>4, MineOperationMines, MineKeeps
  <2>5. QED  BY <1>3, <2>1, <2>2, <2>3, <2>4 DEF ChainMoves
<1>4. CASE Scanning
  <2>1. ScanNext  BY <1>4 DEF Scanning, ScanNext
  <2>2. QED  BY <1>1, <2>1, StepInv
<1>5. CASE Calls
  <2>1. CASE Die  BY <1>1, <2>1, DropKeeps DEF Die
  <2>2. ASSUME NEW n, NEW answer, PayRefill(n, answer) PROVE Inv'
    <3>1. CASE answer = "killed"  BY <1>1, <2>2, <3>1, DropKeeps DEF PayRefill
    <3>2. CASE answer # "killed"
      <4>1. UNCHANGED scanVars  BY <2>2, <3>2 DEF PayRefill, scanVars
      <4>2. QED  BY <1>1, <4>1, StepInv
    <3>3. QED  BY <3>1, <3>2
  <2>3. CASE UNCHANGED scanVars  BY <1>1, <2>3, StepInv
  <2>4. QED
    BY <1>5, <2>1, <2>2, <2>3 DEF Calls, PayOut, PayRefused, AskStatus, AskPending
<1>6. CASE Auditing
  <2>1. UNCHANGED scanVars
    BY <1>6 DEF Auditing, SettledBalances, DepositsScannedTo, CountOutcome, EndAudit
  <2>2. QED  BY <1>1, <2>1, StepInv
<1>7. QED  BY <1>2, <1>3, <1>4, <1>5, <1>6 DEF Next
\* The transfers up to a block there is.
LEMMA LogsTyped ==
  ASSUME ScanTypeOK, NEW n \in 0 .. Len(chain)
  PROVE  /\ IsFiniteSet(Logs(n))
         /\ \A p \in Logs(n) :
              /\ p = <<p[1], p[2]>> /\ p[1] \in 1 .. n
              /\ p[1] \in DOMAIN chain /\ p[2] \in DOMAIN chain[p[1]]
              /\ p[1] \in Nat /\ p[2] \in Nat
              /\ chain[p[1]][p[2]] \in Transfers /\ chain[p[1]][p[2]].amount \in Nat
PROOF
<1> DEFINE of == [b \in 1 .. n |-> {<<b, i>> : i \in DOMAIN chain[b]}]
<1>1. chain \in Seq(Seq(Transfers)) /\ DOMAIN chain = 1 .. Len(chain) /\ Len(chain) \in Nat
      /\ n \in Nat
  BY LenProperties DEF ScanTypeOK
<1>2. \A b \in 1 .. n : b \in DOMAIN chain  BY <1>1
<1>3. ASSUME NEW b \in 1 .. n PROVE IsFiniteSet(of[b])
  <2>1. chain[b] \in Seq(Transfers)  BY <1>1, <1>2, ElementOfSeq
  <2>2. DOMAIN chain[b] = 1 .. Len(chain[b]) /\ Len(chain[b]) \in Nat  BY <2>1, LenProperties
  <2>3. IsFiniteSet(DOMAIN chain[b])  BY <2>2, FS_Interval
  <2> DEFINE m == [i \in DOMAIN chain[b] |-> <<b, i>>]
  <2>4. of[b] = {m[i] : i \in DOMAIN chain[b]}  OBVIOUS
  <2> HIDE DEF m, of
  <2>5. QED  BY <2>3, <2>4, ImageFinite
<1>4. IsFiniteSet(Logs(n))
  <2>1. Logs(n) = UNION {of[b] : b \in 1 .. n}  BY DEF Logs
  <2> HIDE DEF of
  <2>2. IsFiniteSet(1 .. n)  BY <1>1, FS_Interval
  <2>3. IsFiniteSet({of[b] : b \in 1 .. n})  BY <2>2, ImageFinite
  <2>4. \A s \in {of[b] : b \in 1 .. n} : IsFiniteSet(s)  BY <1>3
  <2>5. QED  BY <2>1, <2>3, <2>4, FS_UNION
<1>5. ASSUME NEW p \in Logs(n)
      PROVE  /\ p = <<p[1], p[2]>> /\ p[1] \in 1 .. n
             /\ p[1] \in DOMAIN chain /\ p[2] \in DOMAIN chain[p[1]]
  BY <1>2 DEF Logs
<1>6. QED
  BY <1>4, <1>5, BlockTyped

LEMMA BalanceIsSum ==
  ASSUME ScanTypeOK, NEW n \in 0 .. Len(chain)
  PROVE  /\ BalanceAt(n) =
              SumFunctionOnSet([p \in Logs(n) |-> Worth(chain[p[1]][p[2]])], Logs(n))
         /\ \A p \in Logs(n) : Worth(chain[p[1]][p[2]]) \in Int
         /\ BalanceAt(n) \in Int
PROOF
<1> DEFINE w == [p \in Logs(n) |-> Worth(chain[p[1]][p[2]])]
<1>1. BalanceAt(n) = SumFunctionOnSet(w, Logs(n))  BY DEF BalanceAt, SumFunction
<1>2. \A p \in Logs(n) : Worth(chain[p[1]][p[2]]) \in Int  BY LogsTyped DEF Worth
<1>3. \A p \in Logs(n) : w[p] \in Int  BY <1>2
<1> HIDE DEF w
<1>4. SumFunctionOnSet(w, Logs(n)) \in Int  BY <1>3, LogsTyped, SumIsInt
<1>5. QED  BY <1>1, <1>2, <1>4 DEF w

LEMMA CostTyped ==
  ASSUME TInv, NEW k \in DOMAIN ops, Settled(k), NEW cost \in Costs(k)
  PROVE  cost \in Nat
PROOF
<1>1. ops[k].amount \in Nat /\ 0 \in Nat  BY OperationTyped DEF TInv
<1>2. ops[k].block \in DOMAIN chain
  <2>1. DOMAIN chain = 1 .. Len(chain) /\ Len(chain) \in Nat /\ head \in 0 .. Len(chain)
    BY LenProperties DEF TInv, TypeOK, ScanTypeOK
  <2>2. QED  BY <2>1 DEF Settled
<1>3. ASSUME NEW i \in DOMAIN chain[ops[k].block] PROVE chain[ops[k].block][i].amount \in Nat
  BY <1>2, <1>3, BlockTyped DEF TInv, TypeOK
<1>4. QED  BY <1>1, <1>3 DEF Costs, RefillCost, Sent

\* One operation more.
LEMMA Recorded ==
  ASSUME TInv, NEW kind \in {"payment", "refill"}, NEW to \in Payees \cup {"other"},
         NEW amount \in Amounts, Len(ops) < MaxOps, ops' = Append(ops, New(kind, to, amount))
  PROVE  /\ ops' \in Seq(Operations) /\ Len(ops') <= MaxOps
         /\ DOMAIN ops' = DOMAIN ops \cup {Len(ops) + 1} /\ Len(ops) + 1 \notin DOMAIN ops
         /\ \A k \in DOMAIN ops : ops'[k] = ops[k]
         /\ ops'[Len(ops) + 1].block = 0
PROOF
<1>1. ops \in Seq(Operations) /\ DOMAIN ops = 1 .. Len(ops) /\ Len(ops) \in Nat
  BY LenProperties DEF TInv, TypeOK
<1>2. New(kind, to, amount) \in Operations /\ New(kind, to, amount).block = 0
  BY ContentsAssumption DEF New, Operations
<1>3. /\ ops' \in Seq(Operations) /\ Len(ops') = Len(ops) + 1
      /\ \A i \in 1 .. Len(ops) : ops'[i] = ops[i]
      /\ ops'[Len(ops) + 1] = New(kind, to, amount)
  BY <1>1, <1>2, AppendProperties
<1>4. DOMAIN ops' = 1 .. Len(ops) + 1  BY <1>1, <1>3, LenProperties
<1>5. QED  BY <1>1, <1>2, <1>3, <1>4, PaymentsAssumption

LEMMA FunctionIsSeq ==
  ASSUME NEW S, NEW n \in Nat, NEW f \in [1 .. n -> S]
  PROVE  f \in Seq(S) /\ Len(f) = n
PROOF
<1>1. f \in Seq(S)  BY SeqDef
<1>2. DOMAIN f = 1 .. Len(f) /\ Len(f) \in Nat /\ DOMAIN f = 1 .. n  BY <1>1, LenProperties
<1>3. QED  BY <1>1, <1>2

\* An operation that was not mined, mined.
LEMMA Mined ==
  ASSUME TInv, NEW k \in DOMAIN ops, NEW c, NEW e, NEW success \in BOOLEAN,
         MineOperation(k, c, e, success)
  PROVE  /\ ops' \in Seq(Operations) /\ Len(ops') = Len(ops) /\ DOMAIN ops' = DOMAIN ops
         /\ \A j \in DOMAIN ops : j # k => ops'[j] = ops[j]
         /\ ops'[k].kind = ops[k].kind /\ ops'[k].to = ops[k].to
         /\ ops'[k].amount = ops[k].amount
         /\ ops[k].block = 0 /\ ops'[k].block = Len(chain) + 1 /\ ops'[k].success = success
PROOF
<1> DEFINE o == [ops[k] EXCEPT !.block = Len(chain) + 1, !.success = success]
<1>1. ops \in Seq(Operations) /\ DOMAIN ops = 1 .. Len(ops) /\ Len(ops) \in Nat
  BY LenProperties DEF TInv, TypeOK
<1>2. ops[k] \in Operations  BY OperationTyped DEF TInv
<1>3. Len(chain) + 1 \in 0 .. MaxBlock
  BY LenProperties, ContentsAssumption DEF TInv, TypeOK, ScanTypeOK, MineOperation
<1>4. o \in Operations /\ o.kind = ops[k].kind /\ o.to = ops[k].to /\ o.amount = ops[k].amount
      /\ o.block = Len(chain) + 1 /\ o.success = success
  BY <1>2, <1>3 DEF Operations
<1>5. ops' = [ops EXCEPT ![k] = o] /\ ops[k].block = 0
  BY <1>1, <1>2 DEF MineOperation, Operations
<1> HIDE DEF o
<1>6. ops' \in Seq(Operations) /\ Len(ops') = Len(ops)
  BY <1>1, <1>4, <1>5, ExceptSeq
<1>7. QED  BY <1>1, <1>4, <1>5, <1>6

\* Operations whose block was undone, put back.
LEMMA Undone ==
  ASSUME TInv, Undo
  PROVE  /\ ops' \in Seq(Operations) /\ Len(ops') = Len(ops) /\ DOMAIN ops' = DOMAIN ops
         /\ \A k \in DOMAIN ops :
              /\ ops'[k].kind = ops[k].kind /\ ops'[k].amount = ops[k].amount
              /\ ops[k].block = Len(chain) => ops'[k].block = 0
              /\ ops[k].block # Len(chain) => ops'[k] = ops[k]
PROOF
<1> DEFINE Back(k) == IF ops[k].block = Len(chain)
                      THEN [ops[k] EXCEPT !.block = 0, !.success = FALSE] ELSE ops[k]
<1>1. ops \in Seq(Operations) /\ DOMAIN ops = 1 .. Len(ops) /\ Len(ops) \in Nat
  BY LenProperties DEF TInv, TypeOK
<1>2. ASSUME NEW k \in DOMAIN ops
      PROVE  /\ Back(k) \in Operations
             /\ Back(k).kind = ops[k].kind /\ Back(k).amount = ops[k].amount
             /\ ops[k].block = Len(chain) => Back(k).block = 0
             /\ ops[k].block # Len(chain) => Back(k) = ops[k]
  <2>1. ops[k] \in Operations  BY OperationTyped DEF TInv
  <2>2. CASE ops[k].block # Len(chain)  BY <2>1, <2>2
  <2>3. CASE ops[k].block = Len(chain)
    <3>1. Back(k) = [ops[k] EXCEPT !.block = 0, !.success = FALSE]  BY <2>3
    <3>2. 0 \in 0 .. MaxBlock  BY ContentsAssumption
    <3> HIDE DEF Back
    <3>3. QED  BY <2>1, <2>3, <3>1, <3>2 DEF Operations
  <2>4. QED  BY <2>2, <2>3
<1>3. ops' = [k \in DOMAIN ops |-> Back(k)]  BY DEF Undo
<1> HIDE DEF Back
<1>4. ops' \in [1 .. Len(ops) -> Operations]  BY <1>1, <1>2, <1>3
<1>5. ops' \in Seq(Operations) /\ Len(ops') = Len(ops)
  <2> DEFINE f == [k \in DOMAIN ops |-> Back(k)]
  <2>1. f \in [1 .. Len(ops) -> Operations] /\ ops' = f  BY <1>3, <1>4
  <2> HIDE DEF f
  <2>2. QED  BY <1>1, <2>1, FunctionIsSeq
<1>6. QED  BY <1>2, <1>3, <1>5
LEMMA InitTyped == Init => TInv
PROOF
<1> SUFFICES ASSUME Init PROVE TInv
  OBVIOUS
<1>1. Inv  BY InitInv DEF Init
<1>2. <<>> \in Seq(Operations) /\ Len(<<>>) = 0 /\ DOMAIN <<>> = {}  BY EmptySeq
<1>3. NoAudit \in Audits  BY DEF NoAudit, Audits
<1>4. TypeOK  BY <1>1, <1>2, <1>3 DEF Init, Inv, TypeOK
<1>5. Fits  BY <1>2, PaymentsAssumption DEF Init, Fits, NoAudit
<1>6. QED  BY <1>1, <1>4, <1>5 DEF TInv

LEMMA ChainTyped == ASSUME TInv, ChainMoves, Inv' PROVE TInv'
PROOF
<1>1. known' = known /\ heard' = heard /\ host' = host /\ audit' = audit
  BY DEF ChainMoves, Undo, MineOperation, hostVars, bookVars
<1>2. ops' \in Seq(Operations) /\ Len(ops') = Len(ops) /\ DOMAIN ops' = DOMAIN ops
  <2>1. CASE ops' = ops  BY <2>1 DEF TInv, TypeOK
  <2>2. CASE Undo  BY <2>2, Undone
  <2>3. ASSUME NEW k \in DOMAIN ops, NEW c, NEW e, NEW success \in BOOLEAN,
               MineOperation(k, c, e, success)
        PROVE  ops' \in Seq(Operations) /\ Len(ops') = Len(ops) /\ DOMAIN ops' = DOMAIN ops
    BY <2>3, Mined
  <2>4. QED  BY <2>1, <2>2, <2>3 DEF ChainMoves, hostVars, bookVars
<1>3. QED  BY <1>1, <1>2 DEF TInv, Inv, TypeOK, Fits

LEMMA CallsTyped == ASSUME TInv, Calls, Inv' PROVE TInv'
PROOF
<1>1. /\ ops \in Seq(Operations) /\ known \subseteq DOMAIN ops /\ heard \subseteq DOMAIN ops
      /\ host \in {"running", "unsure", "stopped"} /\ audit \in Audits
      /\ Len(ops) <= MaxOps /\ audit.todo \subseteq DOMAIN ops
  BY DEF TInv, TypeOK, Fits
<1>2. NoAudit \in Audits /\ NoAudit.todo = {}  BY DEF NoAudit, Audits
<1>3. ScanTypeOK'  BY DEF Inv
<1>4. ASSUME NEW to \in Payees, NEW n \in Amounts, PayOut(to, n) PROVE TInv'
  <2>1. /\ ops' \in Seq(Operations) /\ Len(ops') <= MaxOps
        /\ DOMAIN ops' = DOMAIN ops \cup {Len(ops) + 1}
    BY <1>4, Recorded DEF PayOut
  <2>2. known' \subseteq DOMAIN ops' /\ heard' \subseteq DOMAIN ops' /\ host' = host
        /\ audit' = audit
    BY <1>1, <1>4, <2>1 DEF PayOut
  <2>3. QED  BY <1>1, <1>3, <2>1, <2>2 DEF TInv, TypeOK, Fits
<1>5. ASSUME NEW n \in Amounts, NEW answer, PayRefill(n, answer) PROVE TInv'
  <2>1. /\ ops' \in Seq(Operations) /\ Len(ops') <= MaxOps
        /\ DOMAIN ops' = DOMAIN ops \cup {Len(ops) + 1}
    BY <1>5, Recorded DEF PayRefill
  <2>2. known' \subseteq DOMAIN ops' /\ heard' \subseteq DOMAIN ops'
    BY <1>1, <1>5, <2>1 DEF PayRefill
  <2>3. host' \in {"running", "unsure", "stopped"}  BY <1>1, <1>5 DEF PayRefill
  <2>4. audit' = audit \/ audit' = NoAudit  BY <1>5 DEF PayRefill
  <2>5. audit' \in Audits /\ audit'.todo \subseteq DOMAIN ops'  BY <1>1, <1>2, <2>1, <2>4
  <2>6. QED  BY <1>3, <2>1, <2>2, <2>3, <2>5 DEF TInv, TypeOK, Fits
<1>6. ASSUME ops' = ops, known' \subseteq DOMAIN ops, heard' \subseteq DOMAIN ops,
             host' \in {"running", "unsure", "stopped"}, audit' = audit \/ audit' = NoAudit
      PROVE  TInv'
  <2>1. audit' \in Audits /\ audit'.todo \subseteq DOMAIN ops  BY <1>1, <1>2, <1>6
  <2>2. QED  BY <1>1, <1>3, <1>6, <2>1 DEF TInv, TypeOK, Fits
<1>7. CASE PayRefused  BY <1>1, <1>6, <1>7 DEF PayRefused
<1>8. ASSUME NEW k \in heard, AskStatus(k) PROVE TInv'  BY <1>1, <1>6, <1>8 DEF AskStatus
<1>9. CASE AskPending  BY <1>1, <1>6, <1>9 DEF AskPending, Pending
<1>10. CASE Die  BY <1>1, <1>6, <1>10 DEF Die, bookVars
<1>11. QED  BY <1>4, <1>5, <1>7, <1>8, <1>9, <1>10 DEF Calls

LEMMA AuditingTyped == ASSUME TInv, Auditing, Inv' PROVE TInv'
PROOF
<1>1. /\ ops \in Seq(Operations) /\ known \subseteq DOMAIN ops /\ heard \subseteq DOMAIN ops
      /\ host \in {"running", "unsure", "stopped"} /\ audit \in Audits
      /\ Len(ops) <= MaxOps /\ audit.todo \subseteq DOMAIN ops
  BY DEF TInv, TypeOK, Fits
<1>2. NoAudit \in Audits /\ NoAudit.todo = {}  BY DEF NoAudit, Audits
<1>3. ScanTypeOK'  BY DEF Inv
<1>4. DOMAIN ops = 1 .. Len(ops) /\ Len(ops) \in Nat /\ MaxOps \in Nat
  BY <1>1, LenProperties, PaymentsAssumption
<1>5. DOMAIN ops \subseteq 1 .. MaxOps  BY <1>1, <1>4
<1>6. ASSUME known' \subseteq DOMAIN ops, heard' \subseteq DOMAIN ops, ops' = ops,
             host' = host, audit' \in Audits, audit'.todo \subseteq DOMAIN ops
      PROVE  TInv'
  BY <1>1, <1>3, <1>6 DEF TInv, TypeOK, Fits
<1>7. CASE SettledBalances
  <2>1. head \in 0 .. Len(chain) /\ Len(chain) \in Nat
    BY LenProperties DEF TInv, TypeOK, ScanTypeOK
  <2>2. BalanceAt(head) \in Int /\ head \in Nat
    <3>1. ScanTypeOK  BY DEF TInv, TypeOK
    <3>2. BalanceAt(head) \in Int  BY <2>1, <3>1, BalanceIsSum
    <3>3. QED  BY <2>1, <3>2
  <2> DEFINE b == BalanceAt(head)
  <2>3. audit' = [pc |-> "balances", block |-> head, balance |-> b, todo |-> {}, out |-> 0]
    BY <1>7 DEF SettledBalances, NoAudit, AuditHead
  <2> HIDE DEF b
  <2>4. audit' \in Audits /\ audit'.todo = {}  BY <2>2, <2>3 DEF Audits, b
  <2>5. QED  BY <1>1, <1>6, <1>7, <2>4 DEF SettledBalances, bookVars
<1>8. CASE DepositsScannedTo
  <2>1. heard \cup Pending \subseteq DOMAIN ops  BY <1>1 DEF Pending
  <2>2. audit' = [audit EXCEPT !.pc = "outcomes", !.todo = heard \cup Pending]
    BY <1>8 DEF DepositsScannedTo
  <2>3. audit' \in Audits /\ audit'.todo = heard \cup Pending
    BY <1>1, <1>5, <2>1, <2>2 DEF Audits
  <2>4. QED  BY <1>1, <1>6, <1>8, <2>1, <2>3 DEF DepositsScannedTo
<1>9. ASSUME NEW k \in audit.todo, CountOutcome(k) PROVE TInv'
  <2>1. k \in DOMAIN ops  BY <1>1
  <2>2. \E n \in Nat : \/ audit' = [audit EXCEPT !.todo = @ \ {k}, !.out = @ + n]
                       \/ audit' = [audit EXCEPT !.todo = @ \ {k}]
    <3>1. CASE Settled(k) /\ ops[k].block <= audit.block
      BY <1>9, <2>1, <3>1, CostTyped DEF CountOutcome
    <3>2. CASE ~(Settled(k) /\ ops[k].block <= audit.block)  BY <1>9, <3>2 DEF CountOutcome
    <3>3. QED  BY <3>1, <3>2
  <2>3. audit' \in Audits /\ audit'.todo \subseteq audit.todo
    <3>1. audit.todo \ {k} \in SUBSET (1 .. MaxOps) /\ audit.out \in Nat  BY <1>1 DEF Audits
    <3>2. CASE audit' = [audit EXCEPT !.todo = @ \ {k}]  BY <1>1, <3>1, <3>2 DEF Audits
    <3>3. ASSUME NEW n \in Nat, audit' = [audit EXCEPT !.todo = @ \ {k}, !.out = @ + n]
          PROVE  audit' \in Audits /\ audit'.todo \subseteq audit.todo
      <4>1. audit.out + n \in Nat  BY <3>1
      <4>2. audit' = [audit EXCEPT !.todo = audit.todo \ {k}, !.out = audit.out + n]
        BY <1>1, <3>3 DEF Audits
      <4>3. QED  BY <1>1, <3>1, <4>1, <4>2 DEF Audits
    <3>4. QED  BY <2>2, <3>2, <3>3
  <2>4. QED  BY <1>1, <1>6, <1>9, <2>1, <2>3 DEF CountOutcome
<1>10. CASE EndAudit  BY <1>1, <1>2, <1>6, <1>10 DEF EndAudit, bookVars
<1>11. QED  BY <1>7, <1>8, <1>9, <1>10 DEF Auditing

LEMMA StepTyped == TInv /\ [Next]_vars => TInv'
PROOF
<1> SUFFICES ASSUME TInv, [Next]_vars PROVE TInv'
  OBVIOUS
<1>1. Inv'  BY ScanKeeps
<1>2. CASE UNCHANGED hostVars  BY <1>1, <1>2 DEF TInv, Inv, TypeOK, Fits, hostVars, bookVars
<1>3. QED
  BY <1>1, <1>2, ChainTyped, CallsTyped, AuditingTyped DEF Next, Scanning, vars

LEMMA AlwaysTyped == Spec => []TInv
PROOF
  BY InitTyped, StepTyped, PTL DEF Spec

\* The books, the audit and the scan keep their shape: no operation is heard
\* of that was not recorded, none costs less than nothing.
THEOREM BooksTyped == Spec => []TypeOK
PROOF
<1>1. TInv => TypeOK  BY DEF TInv
<1>2. QED  BY <1>1, AlwaysTyped, PTL
----------------------------------------------------------------------------
(* What the books and the chain have to do with each other                 *)

\* Of every transfer: it is somebody else's; or it is one operation's that is
\* mined in that block and succeeded, and of a payment's amount if it is one.
Made ==
  \A b \in DOMAIN chain : \A i \in DOMAIN chain[b] :
    LET t == chain[b][i] IN
    \/ t.from = "other" /\ t.by = 0 /\ t.formed
    \/ /\ t.from = "self" /\ t.to = "other"
       /\ t.by \in DOMAIN ops /\ ops[t.by].block = b /\ ops[t.by].success
       /\ ops[t.by].kind = "payment" => t.amount = ops[t.by].amount

\* A payment sends once.
Single ==
  \A k \in DOMAIN ops :
    ops[k].kind = "payment" /\ ops[k].block # 0 => \A i, j \in Sent(k) : i = j

\* Nothing happened before FromBlock, and operations are in blocks there are.
Quiet == \A b \in DOMAIN chain : b < FromBlock => chain[b] = <<>>
Placed == \A k \in DOMAIN ops : ops[k].block <= Len(chain)

\* A running host has every operation in its books.
Heard == known \subseteq heard /\ (host = "running" => heard = DOMAIN ops)

\* What the account sent up to a block, by operations not still to be asked
\* about.
AmountsAt(n) == [p \in Logs(n) |-> chain[p[1]][p[2]].amount]
Spent(n, todo) ==
  {p \in Logs(n) : chain[p[1]][p[2]].from = "self" /\ chain[p[1]][p[2]].by \notin todo}

\* Where an audit of block n stands: the block is settled and so stays as it
\* is, observation has passed it, and what was counted is what was sent.
Stands(n, todo) ==
  /\ audit.pc # "idle" => n <= head /\ audit.balance = BalanceAt(n)
  /\ audit.pc = "balances" => audit.out = 0
  /\ audit.pc = "outcomes" =>
       /\ cursor # NoCursor /\ cursor >= n
       /\ audit.out = SumFunctionOnSet(AmountsAt(n), Spent(n, todo))
Count == \A n \in Nat : \A todo : n = audit.block /\ todo = audit.todo => Stands(n, todo)

CInv == Made /\ Single /\ Quiet /\ Placed
AInv == TInv /\ CInv /\ Heard /\ Count

----------------------------------------------------------------------------
(* The chain and the operations                                            *)

LEMMA ChainFacts ==
  ASSUME TInv
  PROVE  /\ chain \in Seq(Seq(Transfers)) /\ DOMAIN chain = 1 .. Len(chain)
         /\ Len(chain) \in Nat /\ head \in Nat /\ head <= Len(chain)
         /\ cursor \in Nat \cup {NoCursor} /\ NoCursor = -1
         /\ audit.block \in Nat /\ audit.out \in Nat /\ audit.balance \in Int
         /\ FromBlock \in Nat /\ FromBlock > 0
PROOF
<1>1. chain \in Seq(Seq(Transfers)) /\ head \in 0 .. Len(chain)
      /\ cursor \in Nat \cup {NoCursor}
  BY DEF TInv, TypeOK, ScanTypeOK
<1>2. audit.block \in Nat /\ audit.out \in Nat /\ audit.balance \in Int
  BY DEF TInv, TypeOK, Audits
<1>3. QED  BY <1>1, <1>2, Constants_, LenProperties DEF NoCursor

\* Steps that leave the blocks alone and at most record an operation.
LEMMA ChainRests ==
  ASSUME TInv, CInv, chain' = chain,
         DOMAIN ops \subseteq DOMAIN ops',
         \A k \in DOMAIN ops : ops'[k] = ops[k],
         \A k \in DOMAIN ops' \ DOMAIN ops : ops'[k].block = 0
  PROVE  CInv'
PROOF
<1>1. Made'  BY DEF CInv, Made
<1>2. Single'
  <2> SUFFICES ASSUME NEW k \in DOMAIN ops', ops'[k].kind = "payment", ops'[k].block # 0,
                      NEW i \in Sent(k)', NEW j \in Sent(k)'
               PROVE  i = j
    BY DEF Single
  <2>1. k \in DOMAIN ops /\ ops'[k] = ops[k]  OBVIOUS
  <2>2. Sent(k)' = Sent(k)  BY <2>1 DEF Sent
  <2>3. QED  BY <2>1, <2>2 DEF CInv, Single
<1>3. Quiet'  BY DEF CInv, Quiet
<1>4. Placed'
  <2>1. Len(chain) \in Nat  BY ChainFacts
  <2>2. QED  BY <2>1 DEF CInv, Placed
<1>5. QED  BY <1>1, <1>2, <1>3, <1>4 DEF CInv

\* One block more, whose transfers are others' or of an operation mined in it.
LEMMA ChainGrows ==
  ASSUME TInv, CInv, NEW c \in Seq(Transfers), chain' = Append(chain, c),
         Len(chain) + 1 < FromBlock => c = <<>>,
         DOMAIN ops' = DOMAIN ops,
         \A k \in DOMAIN ops : \/ ops'[k] = ops[k]
                               \/ ops[k].block = 0 /\ ops'[k].block = Len(chain) + 1,
         \A i \in DOMAIN c :
           \/ c[i].from = "other" /\ c[i].by = 0 /\ c[i].formed
           \/ /\ c[i].from = "self" /\ c[i].to = "other"
              /\ c[i].by \in DOMAIN ops /\ ops'[c[i].by].block = Len(chain) + 1
              /\ ops'[c[i].by].success
              /\ ops'[c[i].by].kind = "payment" => c[i].amount = ops'[c[i].by].amount,
         \A k \in DOMAIN ops : \A i, j \in DOMAIN c :
           /\ ops'[k].kind = "payment"
           /\ c[i].by = k /\ c[j].by = k /\ c[i].from = "self" /\ c[j].from = "self"
           => i = j
  PROVE  CInv'
PROOF
<1> DEFINE n == Len(chain) + 1
<1>1. /\ n \in Nat /\ DOMAIN chain' = DOMAIN chain \cup {n}
      /\ \A b \in DOMAIN chain : chain'[b] = chain[b] /\ b \in Nat /\ b # 0 /\ b < n
      /\ chain'[n] = c /\ Len(chain') = n
  <2>1. /\ chain' \in Seq(Seq(Transfers)) /\ Len(chain') = n
        /\ \A b \in 1 .. Len(chain) : chain'[b] = chain[b]
        /\ chain'[n] = c
    BY ChainFacts, AppendProperties
  <2>2. DOMAIN chain' = 1 .. n  BY <2>1, LenProperties
  <2>3. QED  BY <2>1, <2>2, ChainFacts
<1>2. \A k \in DOMAIN ops : ops[k].block \in Nat /\ ops[k].block < n
  BY ChainFacts, OperationTyped DEF TInv, CInv, Placed
<1> HIDE DEF n
<1>3. \A k \in DOMAIN ops : ops[k].block # 0 => ops'[k] = ops[k]  OBVIOUS
<1>4. Made'
  <2> SUFFICES ASSUME NEW b \in DOMAIN chain', NEW i \in DOMAIN (chain'[b]), NEW t,
                      t = chain'[b][i]
               PROVE  \/ t.from = "other" /\ t.by = 0 /\ t.formed
                      \/ /\ t.from = "self" /\ t.to = "other"
                         /\ t.by \in DOMAIN ops' /\ ops'[t.by].block = b /\ ops'[t.by].success
                         /\ ops'[t.by].kind = "payment" => t.amount = ops'[t.by].amount
    BY DEF Made
  <2>1. CASE b \in DOMAIN chain
    <3>1. i \in DOMAIN chain[b] /\ t = chain[b][i] /\ b # 0  BY <1>1, <2>1
    <3>2. \/ t.from = "other" /\ t.by = 0 /\ t.formed
          \/ /\ t.from = "self" /\ t.to = "other"
             /\ t.by \in DOMAIN ops /\ ops[t.by].block = b /\ ops[t.by].success
             /\ ops[t.by].kind = "payment" => t.amount = ops[t.by].amount
      BY <2>1, <3>1 DEF CInv, Made
    <3>3. QED  BY <1>3, <3>1, <3>2
  <2>2. CASE b = n
    BY <1>1, <2>2 DEF n
  <2>3. QED  BY <1>1, <2>1, <2>2
<1>5. Single'
  <2> SUFFICES ASSUME NEW k \in DOMAIN ops', ops'[k].kind = "payment", ops'[k].block # 0,
                      NEW i \in Sent(k)', NEW j \in Sent(k)'
               PROVE  i = j
    BY DEF Single
  <2>1. CASE ops'[k] = ops[k]
    <3>1. ops[k].block # 0 /\ ops[k].block \in DOMAIN chain
      BY <1>2, <2>1, ChainFacts DEF n
    <3>2. chain'[ops[k].block] = chain[ops[k].block]  BY <1>1, <3>1
    <3>3. Sent(k)' = Sent(k)  BY <2>1, <3>2 DEF Sent
    <3>4. QED  BY <2>1, <3>1, <3>3 DEF CInv, Single
  <2>2. CASE ops'[k].block = n
    <3>1. Sent(k)' = {l \in DOMAIN c : c[l].by = k /\ c[l].from = "self"}
      BY <1>1, <2>2 DEF Sent
    <3>2. QED  BY <3>1
  <2>3. QED  BY <2>1, <2>2 DEF n
<1>6. Quiet'  BY <1>1 DEF CInv, Quiet, n
<1>7. Placed'
  <2> SUFFICES ASSUME NEW k \in DOMAIN ops PROVE ops'[k].block <= Len(chain')
    BY DEF Placed
  <2>1. QED  BY <1>1, <1>2 DEF n
<1>8. QED  BY <1>4, <1>5, <1>6, <1>7 DEF CInv

LEMMA MineBooks ==
  ASSUME TInv, CInv, NEW c \in Contents, MineBlock(c), Len(chain) + 1 < FromBlock => c = <<>>,
         ops' = ops
  PROVE  CInv'
PROOF
<1>1. c \in Seq(Transfers)  BY ContentsAssumption
<1>2. \A i \in DOMAIN c : c[i].from = "other" /\ c[i].by = 0 /\ c[i].formed
  BY OthersAssumption
<1>3. QED  BY <1>1, <1>2, ChainGrows DEF MineBlock

LEMMA MineOperationBooks ==
  ASSUME TInv, CInv, "self" \notin Payees, NEW k \in DOMAIN ops, NEW c \in Contents,
         NEW e \in Emits(k) \cup {<<>>}, NEW success \in BOOLEAN,
         MineOperation(k, c, e, success), Len(chain) + 1 >= FromBlock
  PROVE  CInv'
PROOF
<1>1. /\ DOMAIN ops' = DOMAIN ops
      /\ \A j \in DOMAIN ops : j # k => ops'[j] = ops[j]
      /\ ops'[k].kind = ops[k].kind /\ ops'[k].amount = ops[k].amount
      /\ ops[k].block = 0 /\ ops'[k].block = Len(chain) + 1 /\ ops'[k].success = success
  BY Mined
<1>2. c \in Seq(Transfers)
      /\ \A i \in DOMAIN c : c[i].from = "other" /\ c[i].by = 0 /\ c[i].formed
  BY ContentsAssumption, OthersAssumption
<1>3. /\ e \in Seq(Transfers)
      /\ \A i \in DOMAIN e :
           /\ e[i].from = "self" /\ e[i].by = k
           /\ e[i].to = "other" \/ e[i].to = ops[k].to
           /\ ops[k].kind = "payment" => e[i].amount = ops[k].amount
      /\ ops[k].kind = "payment" => Len(e) <= 1
  BY EmitsSends DEF TInv
<1>4. ops[k].to = "other"  BY OperationTyped DEF TInv, Operations
<1> DEFINE d == c \o e
<1>5. d \in Seq(Transfers) /\ chain' = Append(chain, d)
  BY <1>2, <1>3, ConcatProperties DEF MineOperation
<1>6. ASSUME NEW i \in DOMAIN d
      PROVE  \/ d[i].from = "other" /\ d[i].by = 0 /\ d[i].formed
             \/ i - Len(c) \in DOMAIN e /\ d[i] = e[i - Len(c)] /\ i \in Int
  <2>1. /\ Len(c) \in Nat /\ Len(e) \in Nat /\ DOMAIN c = 1 .. Len(c) /\ DOMAIN e = 1 .. Len(e)
        /\ Len(d) = Len(c) + Len(e)
        /\ DOMAIN d = 1 .. Len(d)
        /\ d[i] = IF i <= Len(c) THEN c[i] ELSE e[i - Len(c)]
    <3>1. Len(d) = Len(c) + Len(e)  BY <1>2, <1>3, ConcatProperties
    <3>2. DOMAIN d = 1 .. Len(d)  BY <1>5, LenProperties
    <3>3. \A l \in 1 .. Len(c) + Len(e) : d[l] = IF l <= Len(c) THEN c[l] ELSE e[l - Len(c)]
      BY <1>2, <1>3, ConcatProperties
    <3> HIDE DEF d
    <3>4. QED  BY <1>2, <1>3, <1>6, <3>1, <3>2, <3>3, LenProperties
  <2> HIDE DEF d
  <2>2. CASE i <= Len(c)  BY <1>2, <1>6, <2>1, <2>2
  <2>3. CASE ~(i <= Len(c))  BY <1>6, <2>1, <2>3
  <2>4. QED  BY <2>2, <2>3
<1>7. e # <<>> => success  BY DEF MineOperation
<1> HIDE DEF d
<1>8. \A i \in DOMAIN d :
        \/ d[i].from = "other" /\ d[i].by = 0 /\ d[i].formed
        \/ /\ d[i].from = "self" /\ d[i].to = "other"
           /\ d[i].by \in DOMAIN ops /\ ops'[d[i].by].block = Len(chain) + 1
           /\ ops'[d[i].by].success
           /\ ops'[d[i].by].kind = "payment" => d[i].amount = ops'[d[i].by].amount
  <2> SUFFICES ASSUME NEW i \in DOMAIN d, i - Len(c) \in DOMAIN e, d[i] = e[i - Len(c)]
               PROVE  /\ d[i].from = "self" /\ d[i].to = "other"
                      /\ d[i].by \in DOMAIN ops /\ ops'[d[i].by].block = Len(chain) + 1
                      /\ ops'[d[i].by].success
                      /\ ops'[d[i].by].kind = "payment" => d[i].amount = ops'[d[i].by].amount
    BY <1>6
  <2>1. e # <<>>  BY EmptySeq
  <2>2. QED  BY <1>1, <1>3, <1>4, <1>7, <2>1
<1>9. ASSUME NEW l \in DOMAIN ops, NEW i \in DOMAIN d, NEW j \in DOMAIN d,
             ops'[l].kind = "payment", d[i].by = l, d[j].by = l,
             d[i].from = "self", d[j].from = "self"
      PROVE  i = j
  <2>1. /\ i - Len(c) \in DOMAIN e /\ j - Len(c) \in DOMAIN e /\ i \in Int /\ j \in Int
        /\ d[i] = e[i - Len(c)]
    BY <1>6, <1>9
  <2>2. l = k  BY <1>3, <1>9, <2>1
  <2>3. Len(e) <= 1 /\ Len(e) \in Nat /\ DOMAIN e = 1 .. Len(e) /\ Len(c) \in Nat
    BY <1>1, <1>2, <1>3, <1>9, <2>2, LenProperties
  <2>4. QED  BY <2>1, <2>3
<1>10. Len(chain) + 1 < FromBlock => d = <<>>
  BY ChainFacts
<1>11. QED  BY <1>1, <1>5, <1>8, <1>9, <1>10, ChainGrows

LEMMA UndoBooks == ASSUME TInv, CInv, Undo PROVE CInv'
PROOF
<1> DEFINE n == Len(chain)
<1>1. /\ n \in Nat /\ chain' \in Seq(Seq(Transfers)) /\ Len(chain') = n - 1
      /\ \A b \in 1 .. n - 1 : chain'[b] = chain[b]
  BY UndoShortens DEF Undo, TInv
<1>2. DOMAIN chain = 1 .. n /\ DOMAIN chain' = 1 .. n - 1  BY <1>1, ChainFacts, LenProperties
<1>3. /\ DOMAIN ops' = DOMAIN ops
      /\ \A k \in DOMAIN ops :
           /\ ops'[k].kind = ops[k].kind
           /\ ops[k].block = n => ops'[k].block = 0
           /\ ops[k].block # n => ops'[k] = ops[k]
  BY Undone
<1>4. \A k \in DOMAIN ops : ops[k].block \in Nat /\ ops[k].block <= n
  BY OperationTyped DEF TInv, CInv, Placed
<1> HIDE DEF n
<1>5. ASSUME NEW b \in DOMAIN chain'
      PROVE  b \in DOMAIN chain /\ chain'[b] = chain[b] /\ b \in Nat /\ b # n
  BY <1>1, <1>2
<1>6. Made'
  <2> SUFFICES ASSUME NEW b \in DOMAIN chain', NEW i \in DOMAIN (chain'[b]), NEW t,
                      t = chain'[b][i]
               PROVE  \/ t.from = "other" /\ t.by = 0 /\ t.formed
                      \/ /\ t.from = "self" /\ t.to = "other"
                         /\ t.by \in DOMAIN ops' /\ ops'[t.by].block = b /\ ops'[t.by].success
                         /\ ops'[t.by].kind = "payment" => t.amount = ops'[t.by].amount
    BY DEF Made
  <2>1. b \in DOMAIN chain /\ i \in DOMAIN chain[b] /\ t = chain[b][i] /\ b # n  BY <1>5
  <2>2. \/ t.from = "other" /\ t.by = 0 /\ t.formed
        \/ /\ t.from = "self" /\ t.to = "other"
           /\ t.by \in DOMAIN ops /\ ops[t.by].block = b /\ ops[t.by].success
           /\ ops[t.by].kind = "payment" => t.amount = ops[t.by].amount
    BY <2>1 DEF CInv, Made
  <2>3. QED  BY <1>3, <2>1, <2>2
<1>7. Single'
  <2> SUFFICES ASSUME NEW k \in DOMAIN ops, ops'[k].kind = "payment", ops'[k].block # 0,
                      NEW i \in Sent(k)', NEW j \in Sent(k)'
               PROVE  i = j
    BY <1>3 DEF Single
  <2>1. ops[k].block # n /\ ops'[k] = ops[k]  BY <1>3
  <2>2. ops[k].block \in DOMAIN chain'  BY <1>1, <1>2, <1>4, <2>1
  <2>3. Sent(k)' = Sent(k)  BY <1>5, <2>1, <2>2 DEF Sent
  <2>4. QED  BY <2>1, <2>3 DEF CInv, Single
<1>8. Quiet'  BY <1>5 DEF CInv, Quiet
<1>9. Placed'
  <2> SUFFICES ASSUME NEW k \in DOMAIN ops PROVE ops'[k].block <= Len(chain')
    BY <1>3 DEF Placed
  <2>1. head < n /\ head \in Nat  BY UndoShortens DEF Undo, TInv, n
  <2>2. CASE ops[k].block = n  BY <1>1, <1>3, <2>1, <2>2
  <2>3. CASE ops[k].block # n  BY <1>1, <1>3, <1>4, <2>3
  <2>4. QED  BY <2>2, <2>3
<1>10. QED  BY <1>6, <1>7, <1>8, <1>9 DEF CInv
----------------------------------------------------------------------------
(* The audit                                                               *)

\* What is settled stays, and so what was read of it.
LEMMA LogsStay ==
  ASSUME TInv, NEW n \in Nat, n <= head, \A b \in 1 .. head : chain'[b] = chain[b]
  PROVE  /\ Logs(n)' = Logs(n) /\ BalanceAt(n)' = BalanceAt(n)
         /\ AmountsAt(n)' = AmountsAt(n)
         /\ \A todo : Spent(n, todo)' = Spent(n, todo)
PROOF
<1>1. \A b \in 1 .. n : chain'[b] = chain[b]
  <2>1. head \in Nat  BY ChainFacts
  <2>2. QED  BY <2>1
<1>2. Logs(n)' = Logs(n)  BY <1>1 DEF Logs
<1>3. \A p \in Logs(n) : chain'[p[1]] = chain[p[1]]
  <2>1. ScanTypeOK /\ n \in 0 .. Len(chain)  BY ChainFacts DEF TInv, TypeOK
  <2>2. QED  BY <1>1, <2>1, LogsTyped
<1>4. [p \in Logs(n) |-> Worth(chain'[p[1]][p[2]])] = [p \in Logs(n) |-> Worth(chain[p[1]][p[2]])]
  BY <1>3
<1>5. BalanceAt(n)' = BalanceAt(n)
  <2>1. BalanceAt(n)' = SumFunction([p \in Logs(n)' |-> Worth(chain'[p[1]][p[2]])])
    BY DEF BalanceAt, Worth
  <2>2. QED  BY <1>2, <1>4, <2>1 DEF BalanceAt
<1>6. AmountsAt(n)' = AmountsAt(n)  BY <1>2, <1>3 DEF AmountsAt
<1>7. \A todo : Spent(n, todo)' = Spent(n, todo)  BY <1>2, <1>3 DEF Spent
<1>8. QED  BY <1>2, <1>5, <1>6, <1>7

\* An audit is not disturbed by what goes on around it.
LEMMA CountStays ==
  ASSUME TInv, TInv', Count, audit' = audit, head' >= head, cursor' >= cursor,
         \A b \in 1 .. head : chain'[b] = chain[b]
  PROVE  Count'
PROOF
<1> SUFFICES ASSUME NEW n \in Nat, NEW todo, n = audit.block, todo = audit.todo
             PROVE  Stands(n, todo)'
  BY DEF Count
<1>1. Stands(n, todo)  BY DEF Count
<1>2. /\ head \in Nat /\ head' \in Nat /\ cursor \in Int /\ cursor' \in Int /\ NoCursor = -1
  <2>1. ScanTypeOK'  BY DEF TInv, TypeOK
  <2>2. head' \in 0 .. Len(chain') /\ chain' \in Seq(Seq(Transfers))
        /\ cursor' \in Nat \cup {NoCursor}
    BY <2>1 DEF ScanTypeOK
  <2>3. Len(chain') \in Nat  BY <2>2, LenProperties
  <2>4. QED  BY <2>2, <2>3, ChainFacts
<1>3. CASE audit.pc = "idle"  BY <1>3 DEF Stands
<1>4. CASE audit.pc # "idle"
  <2>1. n <= head  BY <1>1, <1>4 DEF Stands
  <2>2. /\ BalanceAt(n)' = BalanceAt(n) /\ AmountsAt(n)' = AmountsAt(n)
        /\ Spent(n, todo)' = Spent(n, todo)
    BY <2>1, LogsStay
  <2>3. QED  BY <1>1, <1>2, <1>4, <2>1, <2>2 DEF Stands
<1>5. QED  BY <1>3, <1>4

LEMMA CountDropped == ASSUME audit' = NoAudit PROVE Count'
PROOF
  BY DEF Count, Stands, NoAudit

\* What one operation costs is what it sent.
LEMMA CostIsSent ==
  ASSUME TInv, CInv, "self" \notin Payees,
         NEW k \in DOMAIN ops, Settled(k), NEW cost \in Costs(k)
  PROVE  \/ Sent(k) = {} /\ cost = 0
         \/ \E i \in Sent(k) : Sent(k) = {i} /\ cost = chain[ops[k].block][i].amount
PROOF
<1>1. /\ ops[k].block \in DOMAIN chain /\ ops[k].block # 0
      /\ ops[k].kind \in {"payment", "refill"} /\ ops[k].to = "other"
  BY ChainFacts, OperationTyped DEF Settled, TInv, Operations
<1>2. ASSUME NEW i \in Sent(k)
      PROVE  /\ i \in DOMAIN chain[ops[k].block]
             /\ chain[ops[k].block][i].by = k /\ chain[ops[k].block][i].from = "self"
             /\ chain[ops[k].block][i].to = "other"
             /\ ops[k].success
             /\ ops[k].kind = "payment" => chain[ops[k].block][i].amount = ops[k].amount
  <2>1. /\ i \in DOMAIN chain[ops[k].block]
        /\ chain[ops[k].block][i].by = k /\ chain[ops[k].block][i].from = "self"
    BY DEF Sent
  <2>2. QED  BY <1>1, <2>1 DEF CInv, Made
<1>3. CASE ops[k].kind = "refill"
  <2>1. CASE Executed(k)  BY <1>3, <2>1 DEF Costs, RefillCost
  <2>2. CASE ~Executed(k)
    <3>1. ~ops[k].success  BY <1>3, <2>2 DEF Executed
    <3>2. Sent(k) = {}  BY <1>2, <3>1
    <3>3. QED  BY <1>3, <2>2, <3>2 DEF Costs, RefillCost
  <2>3. QED  BY <2>1, <2>2
<1>4. CASE ops[k].kind = "payment"
  <2>1. CASE Executed(k)
    <3>1. PICK i \in DOMAIN chain[ops[k].block] :
            chain[ops[k].block][i].by = k /\ chain[ops[k].block][i].from = "self"
            /\ chain[ops[k].block][i].amount = ops[k].amount
      BY <1>4, <2>1 DEF Executed
    <3>2. i \in Sent(k)  BY <3>1 DEF Sent
    <3>3. Sent(k) = {i}  BY <1>1, <1>4, <3>2 DEF CInv, Single
    <3>4. cost = ops[k].amount  BY <1>4, <2>1 DEF Costs
    <3>5. QED  BY <3>1, <3>2, <3>3, <3>4
  <2>2. CASE ~Executed(k)
    <3>1. cost = 0  BY <1>4, <2>2 DEF Costs
    <3>2. ASSUME NEW i \in Sent(k) PROVE FALSE
      <4>1. ops[k].success  BY <1>2, <3>2
      <4>2. Executed(k)  BY <1>1, <1>2, <1>4, <4>1 DEF Executed
      <4>3. QED  BY <2>2, <4>2
    <3>3. QED  BY <3>1, <3>2
  <2>3. QED  BY <2>1, <2>2
<1>5. QED  BY <1>1, <1>3, <1>4
\* Asked about or not, an operation in none of the blocks has sent nothing in
\* them; once asked about, what it sent is counted.
LEMMA SpentMore ==
  ASSUME TInv, CInv, NEW n \in Nat, n <= head, NEW todo, NEW k \in DOMAIN ops, k \in todo
  PROVE  /\ ops[k].block \notin 1 .. n => Spent(n, todo \ {k}) = Spent(n, todo)
         /\ Sent(k) = {} => Spent(n, todo \ {k}) = Spent(n, todo)
         /\ \A i : Sent(k) = {i} /\ ops[k].block \in 1 .. n =>
              /\ <<ops[k].block, i>> \in Spent(n, todo \ {k})
              /\ Spent(n, todo \ {k}) \ {<<ops[k].block, i>>} = Spent(n, todo)
PROOF
<1>1. n \in 0 .. Len(chain) /\ ScanTypeOK  BY ChainFacts DEF TInv, TypeOK
<1>2. \A p \in Logs(n) :
        p = <<p[1], p[2]>> /\ p[1] \in 1 .. n /\ p[1] \in DOMAIN chain /\ p[2] \in DOMAIN chain[p[1]]
  BY <1>1, LogsTyped
<1> DEFINE Of(p) == p \in Logs(n) /\ chain[p[1]][p[2]].from = "self" /\ chain[p[1]][p[2]].by = k
<1>3. k # 0  BY OperationTyped DEF TInv
<1>4. ASSUME NEW p, Of(p)
      PROVE  p[1] = ops[k].block /\ ops[k].block \in 1 .. n /\ p[2] \in Sent(k) /\ p = <<p[1], p[2]>>
  <2>1. /\ p[1] \in DOMAIN chain /\ p[2] \in DOMAIN chain[p[1]] /\ p = <<p[1], p[2]>>
        /\ p[1] \in 1 .. n
    BY <1>2, <1>4
  <2>2. p[1] = ops[k].block  BY <1>3, <1>4, <2>1 DEF CInv, Made
  <2>3. QED  BY <1>4, <2>1, <2>2 DEF Sent
<1>5. \A p : p \in Spent(n, todo \ {k}) <=> p \in Spent(n, todo) \/ Of(p)
  BY DEF Spent
<1>6. \A p : Of(p) => p \notin Spent(n, todo)  BY DEF Spent
<1>7. ASSUME NEW i, Sent(k) = {i}, ops[k].block \in 1 .. n
      PROVE  \A p : Of(p) <=> p = <<ops[k].block, i>>
  <2>1. i \in DOMAIN chain[ops[k].block] /\ chain[ops[k].block][i].by = k
        /\ chain[ops[k].block][i].from = "self"
    BY <1>7 DEF Sent
  <2>2. <<ops[k].block, i>> \in Logs(n)  BY <1>7, <2>1 DEF Logs
  <2>3. Of(<<ops[k].block, i>>)  BY <2>1, <2>2
  <2> HIDE DEF Of
  <2>4. QED  BY <1>4, <1>7, <2>3
<1> HIDE DEF Of
<1>8. (ops[k].block \notin 1 .. n \/ Sent(k) = {}) => Spent(n, todo \ {k}) = Spent(n, todo)
  BY <1>4, <1>5
<1>9. ASSUME NEW i, Sent(k) = {i}, ops[k].block \in 1 .. n
      PROVE  /\ <<ops[k].block, i>> \in Spent(n, todo \ {k})
             /\ Spent(n, todo \ {k}) \ {<<ops[k].block, i>>} = Spent(n, todo)
  BY <1>5, <1>6, <1>7, <1>9
<1>10. QED  BY <1>8, <1>9

LEMMA CountedStep ==
  ASSUME AInv, "self" \notin Payees, NEW k \in audit.todo, CountOutcome(k)
  PROVE  Count'
PROOF
<1> SUFFICES ASSUME NEW n \in Nat, NEW todo, n = audit'.block, todo = audit'.todo
             PROVE  Stands(n, todo)'
  BY DEF Count
<1>1. /\ audit \in Audits /\ audit.pc = "outcomes" /\ k \in DOMAIN ops
      /\ chain' = chain /\ head' = head /\ cursor' = cursor
  BY DEF AInv, TInv, TypeOK, Fits, CountOutcome, scanVars, chainVars, recordVars
<1>2. PICK cost \in Nat :
        /\ audit'.pc = "outcomes" /\ audit'.block = audit.block
        /\ audit'.balance = audit.balance
        /\ audit'.todo = audit.todo \ {k} /\ audit'.out = audit.out + cost
        /\ IF Settled(k) /\ ops[k].block <= audit.block THEN cost \in Costs(k) ELSE cost = 0
  <2>1. audit.out \in Nat /\ audit.out + 0 = audit.out  BY <1>1 DEF Audits
  <2>2. CASE Settled(k) /\ ops[k].block <= audit.block
    <3>1. PICK cost \in Costs(k) : audit' = [audit EXCEPT !.todo = @ \ {k}, !.out = @ + cost]
      BY <2>2 DEF CountOutcome
    <3>2. cost \in Nat  BY <1>1, <2>2, CostTyped DEF AInv
    <3>3. QED  BY <1>1, <2>2, <3>1, <3>2 DEF Audits
  <2>3. CASE ~(Settled(k) /\ ops[k].block <= audit.block)
    <3>1. audit' = [audit EXCEPT !.todo = @ \ {k}]  BY <2>3 DEF CountOutcome
    <3>2. QED  BY <1>1, <2>1, <2>3, <3>1 DEF Audits
  <2>4. QED  BY <2>2, <2>3
<1> DEFINE old == audit.todo
<1>3. /\ n = audit.block /\ todo = old \ {k} /\ n <= head /\ audit.balance = BalanceAt(n)
      /\ cursor # NoCursor /\ cursor >= n
      /\ audit.out = SumFunctionOnSet(AmountsAt(n), Spent(n, old))
  BY <1>1, <1>2 DEF AInv, Count, Stands
<1>4. /\ BalanceAt(n)' = BalanceAt(n) /\ AmountsAt(n)' = AmountsAt(n)
      /\ Spent(n, todo)' = Spent(n, todo)
  BY <1>1, <1>3, LogsStay DEF AInv
<1>5. audit.out + cost = SumFunctionOnSet(AmountsAt(n), Spent(n, todo))
  <2>1. k \in old /\ audit.out \in Nat  BY <1>1 DEF Audits
  <2>2. /\ ops[k].block \notin 1 .. n => Spent(n, todo) = Spent(n, old)
        /\ Sent(k) = {} => Spent(n, todo) = Spent(n, old)
        /\ \A i : Sent(k) = {i} /\ ops[k].block \in 1 .. n =>
              /\ <<ops[k].block, i>> \in Spent(n, todo)
              /\ Spent(n, todo) \ {<<ops[k].block, i>>} = Spent(n, old)
    <3> HIDE DEF old
    <3>1. QED  BY <1>1, <1>3, <2>1, SpentMore DEF AInv
  <2>3. CASE Settled(k) /\ ops[k].block <= n
    <3>1. ops[k].block \in 1 .. n /\ cost \in Costs(k)
      BY <1>2, <1>3, <2>3, ChainFacts DEF Settled, AInv
    <3>2. \/ Sent(k) = {} /\ cost = 0
          \/ \E i \in Sent(k) : Sent(k) = {i} /\ cost = chain[ops[k].block][i].amount
      BY <1>1, <2>3, <3>1, CostIsSent DEF AInv
    <3>3. CASE Sent(k) = {} /\ cost = 0  BY <1>3, <2>1, <2>2, <3>3
    <3>4. ASSUME NEW i \in Sent(k), Sent(k) = {i}, cost = chain[ops[k].block][i].amount
          PROVE  audit.out + cost = SumFunctionOnSet(AmountsAt(n), Spent(n, todo))
      <4> DEFINE S == Spent(n, todo)
                 p == <<ops[k].block, i>>
      <4>1. p \in S /\ S \ {p} = Spent(n, old)  BY <2>2, <3>1, <3>4
      <4>2. ScanTypeOK /\ n \in 0 .. Len(chain)
        BY <1>3, ChainFacts DEF AInv, TInv, TypeOK
      <4>3. S \subseteq Logs(n)  BY DEF Spent
      <4>4. AmountsAt(n)[p] = cost  BY <3>4, <4>1, <4>3 DEF AmountsAt
      <4> HIDE DEF S, p
      <4>5. IsFiniteSet(S) /\ \A q \in S : AmountsAt(n)[q] \in Int
        <5>1. IsFiniteSet(Logs(n)) /\ \A q \in Logs(n) : chain[q[1]][q[2]].amount \in Nat
          BY <4>2, LogsTyped
        <5>2. \A q \in Logs(n) : AmountsAt(n)[q] \in Int  BY <5>1 DEF AmountsAt
        <5>3. QED  BY <4>3, <5>1, <5>2, FS_Subset
      <4>6. SumFunctionOnSet(AmountsAt(n), S) =
              AmountsAt(n)[p] + SumFunctionOnSet(AmountsAt(n), S \ {p})
        BY <4>1, <4>5, SumTakes
      <4>7. SumFunctionOnSet(AmountsAt(n), S \ {p}) = audit.out  BY <1>3, <4>1
      <4>8. cost + audit.out = audit.out + cost  BY <2>1
      <4>9. SumFunctionOnSet(AmountsAt(n), S) = audit.out + cost  BY <4>4, <4>6, <4>7, <4>8
      <4>10. QED  BY <4>9 DEF S
    <3>5. QED  BY <3>2, <3>3, <3>4
  <2>4. CASE ~(Settled(k) /\ ops[k].block <= n)
    <3>1. ops[k].block \notin 1 .. n
      BY <1>3, <2>4, ChainFacts, OperationTyped, <1>1 DEF Settled, AInv, TInv
    <3>2. cost = 0  BY <1>2, <1>3, <2>4
    <3>3. QED  BY <1>3, <2>1, <2>2, <3>1, <3>2
  <2>5. QED  BY <2>3, <2>4
<1>6. QED  BY <1>1, <1>2, <1>3, <1>4, <1>5 DEF Stands
\* The books themselves: with every failure asked after, a host that runs has
\* heard of every operation.
LEMMA HeardKept ==
  ASSUME TInv, TInv', Heard, AsksAfterErrors = TRUE, [Next]_vars
  PROVE  Heard'
PROOF
<1>1. known \subseteq heard /\ (host = "running" => heard = DOMAIN ops)
      /\ known \subseteq DOMAIN ops /\ heard \subseteq DOMAIN ops
      /\ audit.todo \subseteq DOMAIN ops
  BY DEF Heard, TInv, TypeOK, Fits
<1>2. CASE UNCHANGED <<bookVars, host>>  BY <1>1, <1>2 DEF Heard, bookVars
<1>3. CASE ChainMoves
  <2>1. known' = known /\ heard' = heard /\ host' = host
    BY <1>3 DEF ChainMoves, Undo, MineOperation, hostVars, bookVars
  <2>2. DOMAIN ops' = DOMAIN ops
    BY <1>3, Undone, Mined DEF ChainMoves, hostVars, bookVars
  <2>3. QED  BY <1>1, <2>1, <2>2 DEF Heard
<1>4. ASSUME NEW to \in Payees, NEW n \in Amounts, PayOut(to, n) PROVE Heard'
  <2>1. DOMAIN ops' = DOMAIN ops \cup {Len(ops) + 1}  BY <1>4, Recorded DEF PayOut
  <2>2. QED  BY <1>1, <1>4, <2>1 DEF PayOut, Heard
<1>5. ASSUME NEW n \in Amounts, NEW answer \in {"id", "error", "killed"}, PayRefill(n, answer)
      PROVE  Heard'
  <2>1. DOMAIN ops' = DOMAIN ops \cup {Len(ops) + 1}  BY <1>5, Recorded DEF PayRefill
  <2>2. QED  BY <1>1, <1>5, <2>1 DEF PayRefill, Heard
<1>6. CASE PayRefused  BY <1>1, <1>6 DEF PayRefused, Heard
<1>7. ASSUME NEW k \in heard, AskStatus(k) PROVE Heard'  BY <1>1, <1>7 DEF AskStatus, Heard
<1>8. CASE AskPending  BY <1>1, <1>8 DEF AskPending, Pending, Heard
<1>9. CASE Die  BY <1>1, <1>9 DEF Die, bookVars, Heard
<1>10. CASE DepositsScannedTo  BY <1>1, <1>10 DEF DepositsScannedTo, Pending, Heard
<1>11. ASSUME NEW k \in audit.todo, CountOutcome(k) PROVE Heard'
  BY <1>1, <1>11 DEF CountOutcome, Heard
<1>12. CASE SettledBalances \/ EndAudit  BY <1>2, <1>12 DEF SettledBalances, EndAudit
<1>13. CASE Calls  BY <1>4, <1>5, <1>6, <1>7, <1>8, <1>9, <1>13 DEF Calls
<1>14. CASE Auditing  BY <1>10, <1>11, <1>12, <1>14 DEF Auditing
<1>15. CASE Scanning  BY <1>2, <1>15 DEF Scanning, hostVars
<1>16. CASE UNCHANGED vars  BY <1>2, <1>16 DEF vars, hostVars
<1>17. QED  BY <1>3, <1>13, <1>14, <1>15, <1>16 DEF Next

\* Observation only goes forward.
LEMMA CursorGrows ==
  ASSUME TInv, StartScan \/ ScanStep \/ StopScan
  PROVE  chain' = chain /\ head' = head /\ cursor' >= cursor
PROOF
<1>1. cursor \in Int /\ scan.last \in Nat
  BY ChainFacts DEF TInv, TypeOK, ScanTypeOK, Scans
<1>2. QED
  BY <1>1 DEF StartScan, StopScan, ScanStep, QuerySpan, PutDeposit, PutCursor, EndScan,
              chainVars, recordVars, Latest

\* An audit begins at the settled head, and counts once observation is past it.
LEMMA AuditBegins ==
  ASSUME AInv, SettledBalances \/ DepositsScannedTo
  PROVE  Count'
PROOF
<1> SUFFICES ASSUME NEW n \in Nat, NEW todo, n = audit'.block, todo = audit'.todo
             PROVE  Stands(n, todo)'
  BY DEF Count
<1>1. chain' = chain /\ head' = head /\ cursor' = cursor /\ audit \in Audits
  BY DEF AInv, TInv, TypeOK, SettledBalances, DepositsScannedTo, scanVars, chainVars, recordVars
<1>2. /\ head \in Nat /\ ScanTypeOK /\ \A b \in 1 .. head : chain'[b] = chain[b]
  BY <1>1, ChainFacts DEF AInv, TInv, TypeOK
<1>3. CASE SettledBalances
  <2>1. /\ audit'.pc = "balances" /\ audit'.out = 0 /\ audit'.block = head
        /\ audit'.balance = BalanceAt(head)
    BY <1>3 DEF SettledBalances, NoAudit, AuditHead
  <2>2. BalanceAt(n)' = BalanceAt(n)  BY <1>2, <2>1, LogsStay DEF AInv
  <2>3. QED  BY <1>1, <1>2, <2>1, <2>2 DEF Stands
<1>4. CASE DepositsScannedTo
  <2>1. /\ audit.pc = "balances" /\ cursor # NoCursor /\ cursor >= audit.block
        /\ audit'.pc = "outcomes" /\ audit'.block = audit.block
        /\ audit'.balance = audit.balance /\ audit'.out = audit.out
        /\ audit'.todo = heard \cup Pending
    BY <1>1, <1>4 DEF DepositsScannedTo, Audits
  <2>2. n <= head /\ audit.balance = BalanceAt(n) /\ audit.out = 0
    BY <2>1 DEF AInv, Count, Stands
  <2>3. todo = DOMAIN ops
    BY <1>4, <2>1 DEF AInv, Heard, TInv, TypeOK, DepositsScannedTo, Pending
  <2>4. Spent(n, todo) = {}
    <3>1. ASSUME NEW p \in Spent(n, todo) PROVE FALSE
      <4>1. n \in 0 .. Len(chain)  BY <2>2, ChainFacts DEF AInv
      <4>2. p[1] \in DOMAIN chain /\ p[2] \in DOMAIN chain[p[1]]
            /\ chain[p[1]][p[2]].from = "self" /\ chain[p[1]][p[2]].by \notin DOMAIN ops
        BY <1>2, <2>3, <3>1, <4>1, LogsTyped DEF Spent
      <4>3. QED  BY <4>2 DEF AInv, CInv, Made
    <3>2. QED  BY <3>1
  <2>5. /\ BalanceAt(n)' = BalanceAt(n) /\ AmountsAt(n)' = AmountsAt(n)
        /\ Spent(n, todo)' = Spent(n, todo)
    BY <1>2, <2>2, LogsStay DEF AInv
  <2>6. SumFunctionOnSet(AmountsAt(n), Spent(n, todo)) = 0  BY <2>4, SumOfNone
  <2>7. QED  BY <1>1, <2>1, <2>2, <2>5, <2>6 DEF Stands
<1>5. QED  BY <1>3, <1>4
LEMMA InitBooks == Init => AInv
PROOF
<1> SUFFICES ASSUME Init PROVE AInv
  OBVIOUS
<1>1. TInv  BY InitTyped
<1>2. chain = <<>> /\ ops = <<>> /\ known = {} /\ heard = {} /\ audit = NoAudit
  BY DEF Init, ScanInit
<1>3. DOMAIN chain = {} /\ DOMAIN ops = {}  BY <1>2
<1>4. CInv  BY <1>3 DEF CInv, Made, Single, Quiet, Placed
<1>5. Heard  BY <1>2, <1>3 DEF Heard
<1>6. Count  BY <1>2 DEF Count, Stands, NoAudit
<1>7. QED  BY <1>1, <1>4, <1>5, <1>6 DEF AInv

LEMMA StepBooks ==
  "self" \notin Payees /\ AsksAfterErrors = TRUE /\ AInv /\ [Next]_vars => AInv'
PROOF
<1> SUFFICES ASSUME "self" \notin Payees, AsksAfterErrors = TRUE, AInv, [Next]_vars PROVE AInv'
  OBVIOUS
<1>1. TInv /\ CInv /\ Heard /\ Count  BY DEF AInv
<1>2. TInv'  BY <1>1, StepTyped
<1>3. Heard'  BY <1>1, <1>2, HeardKept
<1>4. head \in Nat /\ cursor \in Int  BY <1>1, ChainFacts
\* Steps between which nothing is mined or settled and the audit rests.
<1>5. ASSUME chain' = chain, head' = head, cursor' >= cursor, audit' = audit \/ audit' = NoAudit
      PROVE  Count'
  <2>1. CASE audit' = audit  BY <1>1, <1>2, <1>4, <1>5, <2>1, CountStays
  <2>2. CASE audit' = NoAudit  BY <2>2, CountDropped
  <2>3. QED  BY <1>5, <2>1, <2>2
<1>6. ASSUME chain' = chain, ops' = ops PROVE CInv'
  BY <1>1, <1>6, ChainRests
<1>7. CASE UNCHANGED vars
  <2>1. chain' = chain /\ head' = head /\ cursor' = cursor /\ audit' = audit /\ ops' = ops
    BY <1>7 DEF vars, scanVars, chainVars, recordVars, hostVars, bookVars
  <2>2. QED  BY <1>2, <1>3, <1>4, <1>5, <1>6, <2>1 DEF AInv
<1>8. CASE ChainMoves
  <2>1. ASSUME NEW c \in Contents, Len(chain) + 1 < FromBlock => c = <<>>, MineBlock(c),
               UNCHANGED hostVars
        PROVE  CInv'
    BY <1>1, <2>1, MineBooks DEF hostVars, bookVars
  <2>2. ASSUME NEW k \in DOMAIN ops, NEW c \in Contents, NEW e \in Emits(k) \cup {<<>>},
               NEW success \in BOOLEAN, MineOperation(k, c, e, success),
               Len(chain) + 1 >= FromBlock
        PROVE  CInv'
    BY <1>1, <2>2, MineOperationBooks
  <2>3. ASSUME SettleBlock, UNCHANGED hostVars PROVE CInv'
    BY <1>6, <2>3 DEF SettleBlock, hostVars, bookVars
  <2>4. CInv'  BY <1>1, <1>8, <2>1, <2>2, <2>3, UndoBooks DEF ChainMoves
  <2>5. audit' = audit /\ cursor' = cursor /\ head' >= head
    <3>1. audit' = audit /\ cursor' = cursor /\ (head' = head \/ head' = head + 1)
      BY <1>8 DEF ChainMoves, Undo, MineOperation, MineBlock, UndoBlock, SettleBlock,
                  hostVars, recordVars
    <3>2. QED  BY <1>4, <3>1
  <2>6. \A b \in 1 .. head : chain'[b] = chain[b]
    <3>1. ASSUME NEW c, chain' = Append(chain, c) PROVE \A b \in 1 .. head : chain'[b] = chain[b]
      <4>1. /\ Len(chain) \in Nat /\ head \in Nat /\ head <= Len(chain)
            /\ chain \in Seq(Seq(Transfers))
        BY <1>1, ChainFacts
      <4>2. \A b \in 1 .. Len(chain) : chain'[b] = chain[b]  BY <3>1, <4>1
      <4>3. QED  BY <4>1, <4>2
    <3>2. CASE Undo
      <4>1. /\ head \in Nat /\ Len(chain) \in Nat /\ head < Len(chain)
            /\ \A b \in 1 .. Len(chain) - 1 : chain'[b] = chain[b]
        BY <1>1, <3>2, UndoShortens DEF Undo, TInv
      <4>2. QED  BY <4>1
    <3>3. CASE SettleBlock  BY <3>3 DEF SettleBlock
    <3>4. QED  BY <1>8, <3>1, <3>2, <3>3 DEF ChainMoves, MineBlock, MineOperation
  <2>7. Count'  BY <1>1, <1>2, <1>4, <2>5, <2>6, CountStays
  <2>8. QED  BY <1>2, <1>3, <2>4, <2>7 DEF AInv
<1>9. CASE Scanning
  <2>1. chain' = chain /\ head' = head /\ cursor' >= cursor
    BY <1>1, <1>9, CursorGrows DEF Scanning
  <2>2. audit' = audit /\ ops' = ops  BY <1>9 DEF Scanning, hostVars, bookVars
  <2>3. QED  BY <1>2, <1>3, <1>5, <1>6, <2>1, <2>2 DEF AInv
<1>10. CASE Calls
  <2>1. chain' = chain /\ head' = head /\ cursor' = cursor
        /\ (audit' = audit \/ audit' = NoAudit)
    BY <1>10 DEF Calls, PayOut, PayRefill, PayRefused, AskStatus, AskPending, Die,
                 scanVars, chainVars, recordVars
  <2>2. Count'  BY <1>4, <1>5, <2>1
  <2>3. ASSUME NEW to \in Payees, NEW n \in Amounts, PayOut(to, n) PROVE CInv'
    <3>1. /\ DOMAIN ops' = DOMAIN ops \cup {Len(ops) + 1}
          /\ \A k \in DOMAIN ops : ops'[k] = ops[k]
          /\ ops'[Len(ops) + 1].block = 0
      BY <1>1, <2>3, Recorded DEF PayOut
    <3>2. QED  BY <1>1, <2>1, <3>1, ChainRests
  <2>4. ASSUME NEW n \in Amounts, NEW answer, PayRefill(n, answer) PROVE CInv'
    <3>1. /\ DOMAIN ops' = DOMAIN ops \cup {Len(ops) + 1}
          /\ \A k \in DOMAIN ops : ops'[k] = ops[k]
          /\ ops'[Len(ops) + 1].block = 0
      BY <1>1, <2>4, Recorded DEF PayRefill
    <3>2. QED  BY <1>1, <2>1, <3>1, ChainRests
  <2>5. ASSUME ops' = ops PROVE CInv'  BY <1>6, <2>1, <2>5
  <2>6. CInv'
    BY <1>10, <2>3, <2>4, <2>5 DEF Calls, PayRefused, AskStatus, AskPending, Die, bookVars
  <2>7. QED  BY <1>2, <1>3, <2>2, <2>6 DEF AInv
<1>11. CASE Auditing
  <2>1. chain' = chain /\ head' = head /\ cursor' = cursor /\ ops' = ops
    BY <1>11 DEF Auditing, SettledBalances, DepositsScannedTo, CountOutcome, EndAudit,
                 scanVars, chainVars, recordVars, bookVars
  <2>2. Count'
    <3>1. CASE EndAudit  BY <3>1, CountDropped DEF EndAudit
    <3>2. QED  BY <1>11, <3>1, AuditBegins, CountedStep DEF Auditing
  <2>3. QED  BY <1>2, <1>3, <1>6, <2>1, <2>2 DEF AInv
<1>12. QED  BY <1>7, <1>8, <1>9, <1>10, <1>11 DEF Next

----------------------------------------------------------------------------
(* The books agree                                                         *)

\* Up to a block that observation has passed, what came in is what is
\* recorded: each transfer to the account is one deposit, and conversely.
LEMMA DepositsAreIncome ==
  ASSUME TInv, CInv, NEW n \in Nat, n <= head, n <= cursor
  PROVE  DepositedBy(n) =
           SumFunctionOnSet(AmountsAt(n), {p \in Logs(n) : chain[p[1]][p[2]].to = "self"})
PROOF
<1> DEFINE A == AmountsAt(n)
           I == {p \in Logs(n) : chain[p[1]][p[2]].to = "self"}
           R == {p \in I : chain[p[1]][p[2]].amount > 0}
           D == {r \in deposits : r.block <= n}
           g == [d \in D |-> d.amount]
           m == [p \in R |-> Deposit(p)]
<1>1. /\ n \in 0 .. Len(chain) /\ ScanTypeOK /\ ObservedToCursor
      /\ head \in Nat /\ head <= Len(chain) /\ Len(chain) \in Nat /\ DOMAIN chain = 1 .. Len(chain)
      /\ cursor \in Int /\ FromBlock \in Nat /\ FromBlock > 0
  BY ChainFacts DEF TInv, TypeOK, Inv
<1>2. /\ IsFiniteSet(Logs(n))
      /\ \A p \in Logs(n) :
           /\ p = <<p[1], p[2]>> /\ p[1] \in 1 .. n
           /\ p[1] \in DOMAIN chain /\ p[2] \in DOMAIN chain[p[1]]
           /\ chain[p[1]][p[2]].amount \in Nat
           /\ A[p] = chain[p[1]][p[2]].amount
  BY <1>1, LogsTyped DEF AmountsAt
<1>3. ASSUME NEW p \in R
      PROVE  Deposit(p) \in D
  <2>1. p = <<p[1], p[2]>> /\ p[1] \in DOMAIN chain /\ p[2] \in DOMAIN chain[p[1]] /\ p[1] \in 1 .. n
        /\ chain[p[1]][p[2]].to = "self" /\ chain[p[1]][p[2]].amount > 0
    BY <1>2
  <2>2. chain[p[1]][p[2]].from = "other" /\ chain[p[1]][p[2]].formed  BY <2>1 DEF CInv, Made
  <2>3. Incoming(p)  BY <2>1, <2>2 DEF Incoming
  <2>4. p[1] >= FromBlock
    <3>1. chain[p[1]] # <<>>  BY <2>1
    <3>2. QED  BY <1>1, <2>1, <3>1 DEF CInv, Quiet
  <2>5. Arrived(p)  BY <1>1, <2>1, <2>3, <2>4 DEF Arrived
  <2>6. p[1] \in FromBlock .. cursor  BY <1>1, <2>1, <2>4
  <2>7. Deposit(p) \in deposits  BY <1>1, <2>1, <2>5, <2>6 DEF ObservedToCursor
  <2>8. Deposit(p).block = p[1] /\ p[1] <= n  BY <2>1 DEF Deposit
  <2>9. QED  BY <2>7, <2>8
<1>4. ASSUME NEW d \in D
      PROVE  \E p \in R : d = Deposit(p)
  <2> DEFINE p == <<d.block, d.index>>
  <2>1. Arrived(p) /\ d = Deposit(p) /\ d.block <= n
    BY <1>1 DEF ObservedToCursor
  <2>2. p[1] = d.block /\ p[2] = d.index  OBVIOUS
  <2> HIDE DEF p
  <2>3. /\ d.block \in FromBlock .. head /\ d.index \in DOMAIN chain[d.block]
        /\ chain[d.block][d.index].to = "self" /\ chain[d.block][d.index].amount > 0
    BY <2>1, <2>2 DEF Arrived, Incoming
  <2>4. p \in Logs(n)
    <3>1. d.block \in 1 .. n  BY <1>1, <2>1, <2>3
    <3>2. QED  BY <2>3, <3>1 DEF Logs, p
  <2>5. p \in R  BY <2>2, <2>3, <2>4
  <2>6. QED  BY <2>1, <2>5
<1>5. \A x, y \in R : Deposit(x) = Deposit(y) => x = y
  <2> SUFFICES ASSUME NEW x \in R, NEW y \in R, Deposit(x) = Deposit(y) PROVE x = y
    OBVIOUS
  <2>1. x[1] = y[1] /\ x[2] = y[2]  BY DEF Deposit
  <2>2. QED  BY <1>2, <2>1
<1>6. \A x \in R : m[x] = Deposit(x) /\ A[x] \in Int /\ g[m[x]] = A[x]
  <2> SUFFICES ASSUME NEW x \in R
               PROVE  m[x] = Deposit(x) /\ A[x] \in Int /\ g[m[x]] = A[x]
    OBVIOUS
  <2>1. m[x] = Deposit(x) /\ g[Deposit(x)] = Deposit(x).amount  BY <1>3
  <2>2. Deposit(x).amount = A[x] /\ A[x] \in Int  BY <1>2 DEF Deposit
  <2>3. QED  BY <2>1, <2>2
<1>7. {m[x] : x \in R} = D
  <2>1. \A x \in R : m[x] \in D  BY <1>3, <1>6
  <2>2. \A d \in D : \E x \in R : d = m[x]  BY <1>4, <1>6
  <2> HIDE DEF D, R, m
  <2>3. QED  BY <2>1, <2>2
<1>8. I \in SUBSET Logs(n) /\ R \in SUBSET I  OBVIOUS
<1>9. IsFiniteSet(I) /\ IsFiniteSet(R)
  <2> HIDE DEF I, R
  <2>1. QED  BY <1>2, <1>8, FS_Subset
<1>10. \A x \in I : A[x] \in Int  BY <1>2
<1>11. \A x \in I \ R : A[x] = 0  BY <1>2
<1>12. DepositedBy(n) = SumFunctionOnSet(g, D)  BY DEF DepositedBy, SumFunction
<1>13. \A x, y \in R : m[x] = m[y] => x = y  BY <1>5, <1>6
<1> HIDE DEF A, I, R, D, g, m
<1>14. SumFunctionOnSet(A, I) = SumFunctionOnSet(A, R)
  BY <1>8, <1>9, <1>10, <1>11, SumLeavesZeros
<1>15. SumFunctionOnSet(A, R) = SumFunctionOnSet(g, {m[x] : x \in R})
  BY <1>6, <1>9, <1>13, SumRenamed
<1>16. QED  BY <1>7, <1>12, <1>14, <1>15 DEF A, I

\* What is left in the account is what came in less what was sent.
LEMMA BalanceSplits ==
  ASSUME TInv, NEW n \in Nat, n <= head
  PROVE  BalanceAt(n) =
           SumFunctionOnSet(AmountsAt(n), {p \in Logs(n) : chain[p[1]][p[2]].to = "self"})
           - SumFunctionOnSet(AmountsAt(n), Spent(n, {}))
PROOF
<1> DEFINE L == Logs(n)
           A == AmountsAt(n)
           w == [p \in L |-> Worth(chain[p[1]][p[2]])]
           in == [p \in L |-> IF chain[p[1]][p[2]].to = "self" THEN A[p] ELSE 0]
           out == [p \in L |-> IF chain[p[1]][p[2]].from = "self" THEN A[p] ELSE 0]
           I == {p \in L : chain[p[1]][p[2]].to = "self"}
           O == Spent(n, {})
<1>1. n \in 0 .. Len(chain) /\ ScanTypeOK  BY ChainFacts DEF TInv, TypeOK
<1>2. /\ IsFiniteSet(L)
      /\ \A p \in L : A[p] \in Int /\ A[p] = chain[p[1]][p[2]].amount
  <2>1. /\ IsFiniteSet(Logs(n))
        /\ \A p \in Logs(n) : chain[p[1]][p[2]].amount \in Nat
    BY <1>1, LogsTyped
  <2>2. QED  BY <2>1 DEF AmountsAt
<1>3. \A p \in L : in[p] \in Int /\ out[p] \in Int /\ w[p] = in[p] - out[p]
  BY <1>2 DEF Worth
<1>4. I \in SUBSET L /\ O \in SUBSET L  BY DEF Spent
<1>5. \A p \in L : in[p] = IF p \in I THEN A[p] ELSE 0  OBVIOUS
<1>6. \A p \in L : out[p] = IF p \in O THEN A[p] ELSE 0  BY DEF Spent
<1>7. BalanceAt(n) = SumFunctionOnSet(w, L)  BY <1>1, BalanceIsSum
<1> HIDE DEF L, A, w, in, out, I, O
<1>8. IsFiniteSet(I) /\ IsFiniteSet(O)  BY <1>2, <1>4, FS_Subset
<1>9. SumFunctionOnSet(w, L) = SumFunctionOnSet(in, L) - SumFunctionOnSet(out, L)
  BY <1>2, <1>3, SumOfDifferences
<1>10. SumFunctionOnSet(in, L) = SumFunctionOnSet(A, I)
  <2>1. SumFunctionOnSet(in, L) = SumFunctionOnSet(in, I)
    BY <1>2, <1>3, <1>4, <1>5, SumLeavesZeros
  <2>2. SumFunctionOnSet(in, I) = SumFunctionOnSet(A, I)  BY <1>4, <1>5, <1>8, SumSame
  <2>3. QED  BY <2>1, <2>2
<1>11. SumFunctionOnSet(out, L) = SumFunctionOnSet(A, O)
  <2>1. SumFunctionOnSet(out, L) = SumFunctionOnSet(out, O)
    BY <1>2, <1>3, <1>4, <1>6, SumLeavesZeros
  <2>2. SumFunctionOnSet(out, O) = SumFunctionOnSet(A, O)  BY <1>4, <1>6, <1>8, SumSame
  <2>3. QED  BY <2>1, <2>2
<1>12. QED  BY <1>7, <1>9, <1>10, <1>11 DEF A, I, O, L

\* An audit that has been followed to its end finds the chain's balance equal
\* to the deposits recorded less the costs reported, for a host that pays
\* others and asks Pending after every failure (README 8).
THEOREM AuditBalances ==
  "self" \notin Payees /\ AsksAfterErrors = TRUE /\ Spec => []BooksAgree
PROOF
<1> SUFFICES ASSUME "self" \notin Payees, AsksAfterErrors = TRUE
             PROVE  Spec => []BooksAgree
  OBVIOUS
<1>1. ASSUME AInv PROVE BooksAgree
  <2> SUFFICES ASSUME audit.pc = "outcomes", audit.todo = {}
               PROVE  audit.balance = DepositedBy(audit.block) - audit.out
    BY DEF BooksAgree
  <2>1. TInv /\ CInv /\ audit.block \in Nat /\ cursor \in Int
    BY <1>1, ChainFacts DEF AInv
  <2>2. PICK n \in Nat : n = audit.block  BY <2>1
  <2>3. /\ n <= head /\ audit.balance = BalanceAt(n) /\ cursor >= n
        /\ audit.out = SumFunctionOnSet(AmountsAt(n), Spent(n, {}))
    BY <1>1, <2>2 DEF AInv, Count, Stands
  <2>4. DepositedBy(n) =
          SumFunctionOnSet(AmountsAt(n), {p \in Logs(n) : chain[p[1]][p[2]].to = "self"})
    BY <2>1, <2>3, DepositsAreIncome
  <2>5. BalanceAt(n) = DepositedBy(n) - audit.out
    BY <2>1, <2>3, <2>4, BalanceSplits
  <2>6. QED  BY <2>2, <2>3, <2>5
<1>2. AInv /\ [Next]_vars => AInv'  BY StepBooks
<1>3. QED  BY InitBooks, <1>1, <1>2, PTL DEF Spec
=============================================================================
