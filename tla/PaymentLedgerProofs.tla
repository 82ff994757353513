------------------------- MODULE PaymentLedgerProofs -------------------------
(***************************************************************************)
(* The money adds up, for any instance: no charge absorbs more than its    *)
(* price, a hosted page is opened for the whole balance, and the books     *)
(* only move as PaymentPromise says.                                       *)
(*                                                                         *)
(* A balance is a sum over the transactions, which SumFunction defines by  *)
(* recursion over a set.  What such a sum is comes first: a set of the     *)
(* subsets a statement is true of stands for the statement, so that its    *)
(* induction is one about sets.                                            *)
(***************************************************************************)
EXTENDS PaymentBooksProofs, FiniteSetTheorems, WellFoundedInduction

USE DEF OpenCharge, ChargeStatuses

-----------------------------------------------------------------------------
(* Sums over finite sets.                                                  *)

\* A set holds a finite S when it holds the empty set and each subset of S all
\* of whose subsets with one member less it holds.
LEMMA MemberByMember ==
    ASSUME NEW S, IsFiniteSet(S), NEW Good, {} \in Good,
           \A T \in SUBSET S :
             T # {} /\ (\A x \in T : T \ {x} \in Good) => T \in Good
    PROVE  S \in Good
  <1> DEFINE Bad == {T \in SUBSET S : T \notin Good}
  <1> SUFFICES ASSUME S \notin Good PROVE FALSE
    OBVIOUS
  <1>1. Bad \subseteq FiniteSubsetsOf(S) /\ Bad # {}
    BY FS_Subset DEF FiniteSubsetsOf
  <1>2. PICK T \in Bad : \A U \in Bad : <<U, T>> \notin StrictSubsetOrdering(S)
    <2> HIDE DEF Bad
    <2> QED
      BY <1>1, FS_StrictSubsetOrderingWellFounded, WFMin
  <1>3. T # {}
    BY <1>2
  <1>4. ASSUME NEW x \in T PROVE T \ {x} \in Good
    <2> DEFINE U == T \ {x}
    <2>1. U \in SUBSET S /\ T \in SUBSET S /\ U \subseteq T /\ U # T
      BY <1>4
    <2> HIDE DEF U
    <2>2. <<U, T>> \in StrictSubsetOrdering(S)
      BY <2>1 DEF StrictSubsetOrdering
    <2>3. U \notin Bad
      BY <1>2, <2>2
    <2> QED
      BY <2>1, <2>3 DEF U
  <1> QED
    BY <1>2, <1>3, <1>4

-----------------------------------------------------------------------------
(* What SumFunctionOnSet means for a finite set.                           *)

Pick(s) == CHOOSE x \in s : TRUE

\* g sums f over each subset of S, member by member.
Sums(f, S, g) ==
    g = [s \in SUBSET S |-> IF s = {} THEN 0 ELSE f[Pick(s)] + g[s \ {Pick(s)}]]

LEMMA PickIsMember == ASSUME NEW s, s # {} PROVE Pick(s) \in s
  BY DEF Pick

LEMMA SumsStep ==
    ASSUME NEW f, NEW S, NEW g, Sums(f, S, g), NEW s \in SUBSET S
    PROVE  /\ s = {} => g[s] = 0
           /\ s # {} => Pick(s) \in s /\ g[s] = f[Pick(s)] + g[s \ {Pick(s)}]
  BY PickIsMember DEF Sums

\* Two such functions agree where both are defined.
LEMMA SumsAgree ==
    ASSUME NEW f, NEW S, NEW g, Sums(f, S, g), NEW R, NEW h, Sums(f, R, h),
           NEW s, s \subseteq S, s \subseteq R, IsFiniteSet(s)
    PROVE  g[s] = h[s]
  <1> DEFINE Good == {t \in SUBSET s : g[t] = h[t]}
  <1>1. {} \in Good
    BY SumsStep
  <1>2. ASSUME NEW T \in SUBSET s, T # {}, \A x \in T : T \ {x} \in Good
        PROVE  T \in Good
    <2>1. /\ Pick(T) \in T /\ g[T] = f[Pick(T)] + g[T \ {Pick(T)}]
          /\ h[T] = f[Pick(T)] + h[T \ {Pick(T)}]
      BY <1>2, SumsStep
    <2>2. g[T \ {Pick(T)}] = h[T \ {Pick(T)}]
      BY <1>2, <2>1
    <2> QED
      BY <2>1, <2>2
  <1>3. s \in Good
    <2> HIDE DEF Good
    <2> QED
      BY <1>1, <1>2, MemberByMember
  <1> QED
    BY <1>3

\* There is one for each finite set.
LEMMA SumsExist ==
    ASSUME NEW S, IsFiniteSet(S), NEW f
    PROVE  \E g : Sums(f, S, g)
  <1> DEFINE Good == {T \in SUBSET S : \E g : Sums(f, T, g)}
  <1>1. {} \in Good
    <2> DEFINE g == [s \in SUBSET {} |-> 0]
    <2>1. Sums(f, {}, g)
      <3>1. \A s \in SUBSET {} : s = {}
        OBVIOUS
      <3> QED
        BY <3>1 DEF Sums
    <2> QED
      BY <2>1
  <1>2. ASSUME NEW T \in SUBSET S, T # {}, \A x \in T : T \ {x} \in Good
        PROVE  T \in Good
    <2> DEFINE h(x) == CHOOSE g : Sums(f, T \ {x}, g)
               Left(s) == CHOOSE x \in T : x \notin s
               g == [s \in SUBSET T |-> IF s = T THEN f[Pick(T)] + h(Pick(T))[T \ {Pick(T)}]
                                        ELSE h(Left(s))[s]]
    <2>1. \A x \in T : Sums(f, T \ {x}, h(x))
      BY <1>2
    <2>2. ASSUME NEW s \in SUBSET T, s # T PROVE Left(s) \in T /\ Left(s) \notin s
      BY <2>2
    <2> HIDE DEF h, Left
    <2>3. ASSUME NEW s \in SUBSET T, NEW x \in T, x \notin s PROVE g[s] = h(x)[s]
      <3>1. s # T /\ g[s] = h(Left(s))[s]
        BY <2>3
      <3>2. IsFiniteSet(s)
        BY FS_Subset
      <3>3. Left(s) \in T /\ Left(s) \notin s
        BY <2>2, <3>1
      <3>4. s \subseteq T \ {x} /\ s \subseteq T \ {Left(s)}
        BY <2>3, <3>3
      <3>5. Sums(f, T \ {x}, h(x)) /\ Sums(f, T \ {Left(s)}, h(Left(s)))
        BY <2>1, <3>3
      <3> HIDE DEF g
      <3>6. h(Left(s))[s] = h(x)[s]
        BY <3>2, <3>4, <3>5, SumsAgree
      <3> QED
        BY <3>1, <3>6
    <2> DEFINE G(s) == IF s = {} THEN 0 ELSE f[Pick(s)] + g[s \ {Pick(s)}]
    <2>4. ASSUME NEW s \in SUBSET T PROVE g[s] = G(s)
      <3>1. CASE s = T
        <4>1. Pick(T) \in T
          BY <1>2, PickIsMember
        <4>2. g[T \ {Pick(T)}] = h(Pick(T))[T \ {Pick(T)}]
          BY <2>3, <4>1
        <4> QED
          BY <1>2, <3>1, <4>2
      <3>2. CASE s # T /\ s = {}
        <4>1. Left(s) \in T /\ Sums(f, T \ {Left(s)}, h(Left(s)))
          BY <2>1, <2>2, <3>2
        <4>2. h(Left(s))[{}] = 0
          BY <4>1, SumsStep
        <4> QED
          BY <3>2, <4>2
      <3>3. CASE s # T /\ s # {}
        <4> DEFINE x == Left(s)
        <4>1. x \in T /\ x \notin s /\ Sums(f, T \ {x}, h(x))
          BY <2>1, <2>2, <3>3
        <4>2. Pick(s) \in s /\ h(x)[s] = f[Pick(s)] + h(x)[s \ {Pick(s)}]
          BY <3>3, <4>1, SumsStep
        <4>3. g[s] = h(x)[s] /\ g[s \ {Pick(s)}] = h(x)[s \ {Pick(s)}]
          BY <2>3, <4>1, <4>2
        <4> QED
          BY <3>3, <4>2, <4>3
      <3> QED
        BY <3>1, <3>2, <3>3
    <2>5. g = [s \in SUBSET T |-> G(s)]
      <3>1. g = [s \in SUBSET T |-> g[s]]
        OBVIOUS
      <3> HIDE DEF g, G
      <3> QED
        BY <2>4, <3>1
    <2>6. Sums(f, T, g)
      <3> HIDE DEF g
      <3> QED
        BY <2>5 DEF Sums
    <2> QED
      BY <2>6
  <1>3. S \in Good
    <2> HIDE DEF Good
    <2> QED
      BY <1>1, <1>2, MemberByMember
  <1> QED
    BY <1>3

LEMMA TotalIs ==
    ASSUME NEW f, NEW S
    PROVE  SumFunctionOnSet(f, S) = (CHOOSE g : Sums(f, S, g))[S]
  BY DEF SumFunctionOnSet, FoldFunctionOnSet, MapThenFoldSet, Pick, Sums

\* The total of f over a finite set, one member after another in any order.
LEMMA TotalStep ==
    ASSUME NEW f, NEW S, IsFiniteSet(S)
    PROVE  /\ SumFunctionOnSet(f, {}) = 0
           /\ \A T \in SUBSET S : T # {} =>
                /\ Pick(T) \in T
                /\ SumFunctionOnSet(f, T) = f[Pick(T)] + SumFunctionOnSet(f, T \ {Pick(T)})
  <1> DEFINE all(T) == CHOOSE g : Sums(f, T, g)
  <1>1. ASSUME NEW T, IsFiniteSet(T) PROVE Sums(f, T, all(T))
    BY <1>1, SumsExist
  <1>2. \A T : SumFunctionOnSet(f, T) = all(T)[T]
    BY TotalIs
  <1> HIDE DEF all
  <1>3. SumFunctionOnSet(f, {}) = 0
    <2>1. Sums(f, {}, all({}))
      BY <1>1, FS_EmptySet
    <2>2. all({})[{}] = 0
      BY <2>1, SumsStep
    <2> QED
      BY <1>2, <2>2
  <1>4. ASSUME NEW T \in SUBSET S, T # {}
        PROVE  /\ Pick(T) \in T
               /\ SumFunctionOnSet(f, T) = f[Pick(T)] + SumFunctionOnSet(f, T \ {Pick(T)})
    <2> DEFINE x == Pick(T)  U == T \ {x}
    <2>1. IsFiniteSet(T) /\ IsFiniteSet(U) /\ U \subseteq T
      BY FS_Subset, FS_RemoveElement
    <2>2. Sums(f, T, all(T)) /\ Sums(f, U, all(U))
      BY <1>1, <2>1
    <2>3. x \in T /\ all(T)[T] = f[x] + all(T)[U]
      BY <1>4, <2>2, SumsStep
    <2> HIDE DEF U
    <2>4. all(T)[U] = all(U)[U]
      BY <2>1, <2>2, SumsAgree
    <2> QED
      BY <1>2, <2>3, <2>4 DEF U
  <1> QED
    BY <1>3, <1>4

\* It is a whole number when the values are.
LEMMA TotalIsInt ==
    ASSUME NEW S, IsFiniteSet(S), NEW f, \A x \in S : f[x] \in Int
    PROVE  \A T \in SUBSET S : SumFunctionOnSet(f, T) \in Int
  <1> SUFFICES ASSUME NEW T \in SUBSET S PROVE SumFunctionOnSet(f, T) \in Int
    OBVIOUS
  <1> DEFINE Good == {U \in SUBSET T : SumFunctionOnSet(f, U) \in Int}
  <1>1. {} \in Good
    BY TotalStep
  <1>2. ASSUME NEW U \in SUBSET T, U # {}, \A x \in U : U \ {x} \in Good
        PROVE  U \in Good
    <2>1. /\ Pick(U) \in U
          /\ SumFunctionOnSet(f, U) = f[Pick(U)] + SumFunctionOnSet(f, U \ {Pick(U)})
      BY <1>2, TotalStep
    <2>2. f[Pick(U)] \in Int /\ SumFunctionOnSet(f, U \ {Pick(U)}) \in Int
      BY <1>2, <2>1
    <2>3. SumFunctionOnSet(f, U) \in Int
      BY <2>1, <2>2
    <2> QED
      BY <2>3
  <1>3. IsFiniteSet(T)
    BY FS_Subset
  <1>4. T \in Good
    <2> HIDE DEF Good
    <2> QED
      BY <1>1, <1>2, <1>3, MemberByMember
  <1> QED
    BY <1>4

\* Any member may be taken out first.
LEMMA TotalTakes ==
    ASSUME NEW S, IsFiniteSet(S), NEW f, \A x \in S : f[x] \in Int, NEW x \in S
    PROVE  SumFunctionOnSet(f, S) = f[x] + SumFunctionOnSet(f, S \ {x})
  <1> DEFINE Good == {T \in SUBSET S : \A y \in T :
                SumFunctionOnSet(f, T) = f[y] + SumFunctionOnSet(f, T \ {y})}
  <1>1. {} \in Good
    OBVIOUS
  <1>2. ASSUME NEW T \in SUBSET S, T # {}, \A y \in T : T \ {y} \in Good
        PROVE  T \in Good
    <2> SUFFICES ASSUME NEW y \in T
                 PROVE  SumFunctionOnSet(f, T) = f[y] + SumFunctionOnSet(f, T \ {y})
      OBVIOUS
    <2> DEFINE p == Pick(T)
    <2>1. p \in T /\ SumFunctionOnSet(f, T) = f[p] + SumFunctionOnSet(f, T \ {p})
      BY <1>2, TotalStep
    <2> HIDE DEF p
    <2>2. CASE y = p
      BY <2>1, <2>2
    <2>3. CASE y # p
      <3> DEFINE U == T \ {p, y}
      <3>1. SumFunctionOnSet(f, T \ {p}) = f[y] + SumFunctionOnSet(f, U)
        <4>1. T \ {p} \in Good /\ y \in T \ {p} /\ (T \ {p}) \ {y} = U
          BY <1>2, <2>1, <2>3
        <4> QED
          BY <4>1
      <3>2. SumFunctionOnSet(f, T \ {y}) = f[p] + SumFunctionOnSet(f, U)
        <4>1. T \ {y} \in Good /\ p \in T \ {y} /\ (T \ {y}) \ {p} = U
          BY <1>2, <2>1, <2>3
        <4> QED
          BY <4>1
      <3>3. SumFunctionOnSet(f, U) \in Int /\ f[p] \in Int /\ f[y] \in Int
        BY <2>1, TotalIsInt
      <3> HIDE DEF U, Good
      <3> QED
        BY <2>1, <3>1, <3>2, <3>3
    <2> QED
      BY <2>2, <2>3
  <1>3. S \in Good
    <2> HIDE DEF Good
    <2> QED
      BY <1>1, <1>2, MemberByMember
  <1> QED
    BY <1>3

\* Functions that agree have the same total.
LEMMA TotalOfSame ==
    ASSUME NEW S, IsFiniteSet(S), NEW f, NEW g, \A x \in S : f[x] = g[x]
    PROVE  SumFunctionOnSet(f, S) = SumFunctionOnSet(g, S)
  <1> DEFINE Good == {T \in SUBSET S : SumFunctionOnSet(f, T) = SumFunctionOnSet(g, T)}
  <1>1. {} \in Good
    BY TotalStep
  <1>2. ASSUME NEW T \in SUBSET S, T # {}, \A x \in T : T \ {x} \in Good
        PROVE  T \in Good
    <2>1. /\ Pick(T) \in T
          /\ SumFunctionOnSet(f, T) = f[Pick(T)] + SumFunctionOnSet(f, T \ {Pick(T)})
          /\ SumFunctionOnSet(g, T) = g[Pick(T)] + SumFunctionOnSet(g, T \ {Pick(T)})
      BY <1>2, TotalStep
    <2>2. SumFunctionOnSet(f, T \ {Pick(T)}) = SumFunctionOnSet(g, T \ {Pick(T)})
      BY <1>2, <2>1
    <2> QED
      BY <2>1, <2>2
  <1>3. S \in Good
    <2> HIDE DEF Good
    <2> QED
      BY <1>1, <1>2, MemberByMember
  <1> QED
    BY <1>3

\* When one value changes, the total changes by as much.
LEMMA TotalOfOneChanged ==
    ASSUME NEW S, IsFiniteSet(S), NEW f, NEW g, NEW x \in S,
           \A y \in S : f[y] \in Int /\ g[y] \in Int,
           \A y \in S : y # x => g[y] = f[y]
    PROVE  SumFunctionOnSet(g, S) = SumFunctionOnSet(f, S) + (g[x] - f[x])
  <1>1. /\ SumFunctionOnSet(f, S) = f[x] + SumFunctionOnSet(f, S \ {x})
        /\ SumFunctionOnSet(g, S) = g[x] + SumFunctionOnSet(g, S \ {x})
    BY TotalTakes
  <1>2. SumFunctionOnSet(f, S \ {x}) = SumFunctionOnSet(g, S \ {x})
    BY FS_RemoveElement, TotalOfSame
  <1>3. SumFunctionOnSet(f, S \ {x}) \in Int /\ f[x] \in Int /\ g[x] \in Int
    BY TotalIsInt
  <1> QED
    BY <1>1, <1>2, <1>3

\* Smaller values have a smaller total.
LEMMA TotalIsMonotone ==
    ASSUME NEW S, IsFiniteSet(S), NEW f, NEW g,
           \A x \in S : f[x] \in Int /\ g[x] \in Int /\ f[x] <= g[x]
    PROVE  SumFunctionOnSet(f, S) <= SumFunctionOnSet(g, S)
  <1> DEFINE Good == {T \in SUBSET S : SumFunctionOnSet(f, T) <= SumFunctionOnSet(g, T)}
  <1>1. {} \in Good
    <2>1. SumFunctionOnSet(f, {}) = 0 /\ SumFunctionOnSet(g, {}) = 0
      BY TotalStep
    <2> QED
      BY <2>1
  <1>2. ASSUME NEW T \in SUBSET S, T # {}, \A x \in T : T \ {x} \in Good
        PROVE  T \in Good
    <2> DEFINE p == Pick(T)  U == T \ {p}
    <2>1. /\ p \in T /\ U \in Good
          /\ SumFunctionOnSet(f, T) = f[p] + SumFunctionOnSet(f, U)
          /\ SumFunctionOnSet(g, T) = g[p] + SumFunctionOnSet(g, U)
      BY <1>2, TotalStep
    <2>2. /\ SumFunctionOnSet(f, U) \in Int /\ SumFunctionOnSet(g, U) \in Int
          /\ SumFunctionOnSet(f, U) <= SumFunctionOnSet(g, U)
      BY <2>1, TotalIsInt
    <2> HIDE DEF p, U
    <2>3. SumFunctionOnSet(f, T) <= SumFunctionOnSet(g, T)
      BY <2>1, <2>2
    <2> QED
      BY <2>3
  <1>3. S \in Good
    <2> HIDE DEF Good
    <2> QED
      BY <1>1, <1>2, MemberByMember
  <1> QED
    BY <1>3

\* Nothing adds up to nothing.
LEMMA TotalOfZeros ==
    ASSUME NEW S, IsFiniteSet(S), NEW f, \A x \in S : f[x] = 0
    PROVE  SumFunctionOnSet(f, S) = 0
  <1> DEFINE Good == {T \in SUBSET S : SumFunctionOnSet(f, T) = 0}
  <1>1. {} \in Good
    BY TotalStep
  <1>2. ASSUME NEW T \in SUBSET S, T # {}, \A x \in T : T \ {x} \in Good
        PROVE  T \in Good
    <2>1. /\ Pick(T) \in T /\ f[Pick(T)] = 0 /\ SumFunctionOnSet(f, T \ {Pick(T)}) = 0
          /\ SumFunctionOnSet(f, T) = f[Pick(T)] + SumFunctionOnSet(f, T \ {Pick(T)})
      BY <1>2, TotalStep
    <2> QED
      BY <2>1
  <1>3. S \in Good
    <2> HIDE DEF Good
    <2> QED
      BY <1>1, <1>2, MemberByMember
  <1> QED
    BY <1>3

\* Where all but one value are nothing, the total is that value.
LEMMA TotalOfOne ==
    ASSUME NEW S, IsFiniteSet(S), NEW g, NEW x \in S, g[x] \in Int,
           \A y \in S : y # x => g[y] = 0
    PROVE  SumFunctionOnSet(g, S) = g[x]
  <1> DEFINE z == [y \in S |-> 0]
  <1>1. \A y \in S : z[y] \in Int /\ g[y] \in Int
    OBVIOUS
  <1>2. \A y \in S : y # x => g[y] = z[y]
    OBVIOUS
  <1>3. z[x] = 0 /\ \A y \in S : z[y] = 0
    OBVIOUS
  <1> HIDE DEF z
  <1>4. SumFunctionOnSet(z, S) = 0
    BY <1>3, TotalOfZeros
  <1>5. SumFunctionOnSet(g, S) = SumFunctionOnSet(z, S) + (g[x] - z[x])
    BY <1>1, <1>2, TotalOfOneChanged
  <1> QED
    BY <1>3, <1>4, <1>5

-----------------------------------------------------------------------------
(* What is allocated to a charge.                                          *)

\* Money allocated to a charge is the total over the transactions.
LEMMA AllocatedIsTotal ==
    ASSUME NEW c
    PROVE  /\ Allocated(c) = SumFunctionOnSet([t \in Txns |-> alloc[t][c]], Txns)
           /\ Allocated(c)' = SumFunctionOnSet([t \in Txns |-> alloc'[t][c]], Txns)
  BY DEF Allocated, SumFunction

\* It is a natural number.
LEMMA AllocatedIsNat ==
    ASSUME LedgerOK, NEW c \in Charges
    PROVE  Allocated(c) \in Nat
  <1> DEFINE f == [t \in Txns |-> alloc[t][c]]
             z == [t \in Txns |-> 0]
  <1>1. \A t \in Txns : f[t] \in Int /\ z[t] \in Int /\ z[t] <= f[t] /\ z[t] = 0
    BY DEF LedgerOK
  <1> HIDE DEF f, z
  <1>2. SumFunctionOnSet(f, Txns) \in Int
    BY <1>1, FiniteBooks, TotalIsInt DEF FiniteBooks
  <1>3. SumFunctionOnSet(z, Txns) = 0
    BY <1>1, FiniteBooks, TotalOfZeros DEF FiniteBooks
  <1>4. SumFunctionOnSet(z, Txns) <= SumFunctionOnSet(f, Txns)
    BY <1>1, FiniteBooks, TotalIsMonotone DEF FiniteBooks
  <1>5. Allocated(c) = SumFunctionOnSet(f, Txns)
    BY AllocatedIsTotal DEF f
  <1> QED
    BY <1>2, <1>3, <1>4, <1>5

\* In the next state it is at least a whole number.
LEMMA AllocatedIsInt ==
    ASSUME LedgerOK', NEW c \in Charges
    PROVE  Allocated(c)' \in Int
  <1> DEFINE f == [t \in Txns |-> alloc'[t][c]]
  <1>1. \A t \in Txns : f[t] \in Int
    BY DEF LedgerOK
  <1>2. Allocated(c)' = SumFunctionOnSet(f, Txns)
    BY AllocatedIsTotal
  <1> HIDE DEF f
  <1> QED
    BY <1>1, <1>2, FiniteBooks, TotalIsInt DEF FiniteBooks

\* A step that changes one transaction's allocation moves it by the difference.
LEMMA AllocatedMoves ==
    ASSUME LedgerOK, LedgerOK', NEW c \in Charges, NEW t \in Txns,
           \A u \in Txns \ {t} : alloc'[u][c] = alloc[u][c]
    PROVE  Allocated(c)' = Allocated(c) + (alloc'[t][c] - alloc[t][c])
  <1> DEFINE f == [u \in Txns |-> alloc[u][c]]
             g == [u \in Txns |-> alloc'[u][c]]
  <1>1. /\ \A u \in Txns : f[u] \in Int /\ g[u] \in Int
        /\ \A u \in Txns : u # t => g[u] = f[u]
        /\ f[t] = alloc[t][c] /\ g[t] = alloc'[t][c]
    BY DEF LedgerOK
  <1>2. Allocated(c) = SumFunctionOnSet(f, Txns) /\ Allocated(c)' = SumFunctionOnSet(g, Txns)
    BY AllocatedIsTotal
  <1> HIDE DEF f, g
  <1>3. SumFunctionOnSet(g, Txns) = SumFunctionOnSet(f, Txns) + (g[t] - f[t])
    <2>1. IsFiniteSet(Txns)
      BY FiniteBooks DEF FiniteBooks
    <2> HIDE DEF Txns
    <2>2. \A u \in Txns : f[u] \in Int /\ g[u] \in Int
      BY <1>1
    <2>3. \A u \in Txns : u # t => g[u] = f[u]
      BY <1>1
    <2> QED
      BY <2>1, <2>2, <2>3, TotalOfOneChanged
  <1> QED
    BY <1>1, <1>2, <1>3

\* A step that leaves the ledger alone leaves it.
LEMMA AllocatedStays ==
    ASSUME UNCHANGED ledger, NEW c \in Charges
    PROVE  Allocated(c)' = Allocated(c)
  <1>1. alloc' = alloc
    BY DEF ledger
  <1> QED
    BY <1>1, AllocatedIsTotal

-----------------------------------------------------------------------------
(* Charges.                                                                *)

\* The charge c of ChargesAddUp; no step makes a charge "overdue".
AddsUp(c) ==
    /\ Allocated(c) <= Price[c]
    /\ chargeStatus[c] = "paid" <=> Allocated(c) = Price[c]
    /\ chargeStatus[c] = "partially_paid" => Allocated(c) > 0
    /\ chargeStatus[c] \in {"absent", "due"} => Allocated(c) = 0
    /\ chargeStatus[c] # "overdue"

BalanceInv == \A c \in Charges : AddsUp(c)

\* Money that fits is taken, and the status written with it sums it up.
LEMMA TakesMoney ==
    ASSUME LedgerOK, NEW c \in Charges, AddsUp(c), NEW amount \in Nat \ {0},
           Allocatable(c, amount), Allocated(c)' = Allocated(c) + amount,
           chargeStatus'[c] = StatusAfter(c, amount)
    PROVE  AddsUp(c)'
  <1>1. Allocated(c) \in Nat
    BY AllocatedIsNat
  <1>2. Price[c] \in Nat \ {0}
    BY ConstantsAssumption DEF ConstantsAssumption
  <1> QED
    BY <1>1, <1>2 DEF AddsUp, Allocatable, StatusAfter

\* A charge that gets no money and keeps its status, or comes into being, is
\* right as it was.
LEMMA KeepsBalance ==
    ASSUME NEW c \in Charges, AddsUp(c), Allocated(c)' = Allocated(c),
           \/ chargeStatus'[c] = chargeStatus[c]
           \/ chargeStatus[c] = "absent" /\ chargeStatus'[c] = "due"
    PROVE  AddsUp(c)'
  BY DEF AddsUp

\* What a plan adds to a charge.
LEMMA PlanMoves ==
    ASSUME TypeInv, LedgerOK', NEW t \in Txns, NEW r \in Requests, ApplyPlan(t, r),
           NEW c \in Charges
    PROVE  IF c \in Missing(t, r)
           THEN /\ Plan[r][c] \in Nat \ {0}
                /\ Allocated(c)' = Allocated(c) + Plan[r][c]
                /\ chargeStatus'[c] = StatusAfter(c, Plan[r][c])
           ELSE Allocated(c)' = Allocated(c) /\ chargeStatus'[c] = chargeStatus[c]
  <1> USE DEF TypeInv, TypeOK, LedgerOK
  <1>1. Plan[r][c] \in Nat
    BY ConstantsAssumption DEF ConstantsAssumption
  <1>2. /\ \A u \in Txns \ {t} : alloc'[u][c] = alloc[u][c]
        /\ alloc'[t][c] = IF c \in Missing(t, r) THEN Plan[r][c] ELSE alloc[t][c]
        /\ chargeStatus'[c] = IF c \in Missing(t, r) THEN StatusAfter(c, Plan[r][c])
                              ELSE chargeStatus[c]
    BY DEF ApplyPlan
  <1>3. Allocated(c)' = Allocated(c) + (alloc'[t][c] - alloc[t][c])
    BY <1>2, AllocatedMoves
  <1>4. Allocated(c) \in Nat
    BY AllocatedIsNat
  <1>5. CASE c \in Missing(t, r)
    <2>1. alloc[t][c] = 0 /\ Plan[r][c] > 0
      BY <1>5 DEF Missing, Planned
    <2> QED
      BY <1>1, <1>2, <1>3, <1>4, <1>5, <2>1
  <1>6. CASE c \notin Missing(t, r)
    <2>1. alloc[t][c] \in Nat
      OBVIOUS
    <2> QED
      BY <1>2, <1>3, <1>4, <1>6, <2>1
  <1> QED
    BY <1>5, <1>6

\* A plan that fits leaves every charge right.
LEMMA PlanKeepsBalance ==
    ASSUME TypeInv, LedgerOK', BalanceInv, NEW t \in Txns, NEW r \in Requests,
           PlanFits(t, r), ApplyPlan(t, r)
    PROVE  BalanceInv'
  <1> SUFFICES ASSUME NEW c \in Charges PROVE AddsUp(c)'
    BY DEF BalanceInv
  <1>1. AddsUp(c) /\ LedgerOK
    BY DEF BalanceInv, TypeInv, TypeOK
  <1>2. CASE c \in Missing(t, r)
    BY <1>1, <1>2, PlanMoves, TakesMoney DEF PlanFits
  <1>3. CASE c \notin Missing(t, r)
    BY <1>1, <1>3, PlanMoves, KeepsBalance
  <1> QED
    BY <1>2, <1>3

\* What money recorded on a charge by hand adds to the charges.
LEMMA CollectionMoves ==
    ASSUME TypeInv, LedgerOK', NEW k \in CollectKeys, CollectManually(k), NEW c \in Charges
    PROVE  IF c = Collect[k].charge /\ Fresh(k)
           THEN /\ Allocatable(c, Collect[k].amount)
                /\ Allocated(c)' = Allocated(c) + Collect[k].amount
                /\ chargeStatus'[c] = StatusAfter(c, Collect[k].amount)
           ELSE Allocated(c)' = Allocated(c) /\ chargeStatus'[c] = chargeStatus[c]
  <1> USE DEF TypeInv, TypeOK, RowsOK, LedgerOK
  <1> DEFINE d == Collect[k].charge
             amount == Collect[k].amount
  <1>1. k \in Txns /\ d \in Charges /\ amount \in Nat \ {0}
    BY KeysAreTxns
  <1>2. /\ Fresh(k) => Allocatable(d, amount)
        /\ alloc' = [alloc EXCEPT ![k][d] = IF Fresh(k) THEN amount ELSE @]
        /\ chargeStatus' = [chargeStatus EXCEPT ![d] =
                              IF Fresh(k) THEN StatusAfter(d, amount) ELSE @]
    BY DEF CollectManually
  <1>3. Fresh(k) => alloc[k][d] = 0
    BY DEF Fresh
  <1> HIDE DEF d, amount
  <1>4. /\ \A u \in Txns \ {k} : alloc'[u][c] = alloc[u][c]
        /\ alloc'[k][c] = IF c = d /\ Fresh(k) THEN amount ELSE alloc[k][c]
        /\ chargeStatus'[c] = IF c = d /\ Fresh(k) THEN StatusAfter(d, amount)
                              ELSE chargeStatus[c]
    BY <1>1, <1>2
  <1>5. Allocated(c)' = Allocated(c) + (alloc'[k][c] - alloc[k][c])
    BY <1>1, <1>4, AllocatedMoves
  <1>6. Allocated(c) \in Nat /\ alloc[k][c] \in Nat
    BY <1>1, AllocatedIsNat
  <1>7. IF c = d /\ Fresh(k) THEN /\ Allocatable(c, amount)
                                   /\ Allocated(c)' = Allocated(c) + amount
                                   /\ chargeStatus'[c] = StatusAfter(c, amount)
        ELSE Allocated(c)' = Allocated(c) /\ chargeStatus'[c] = chargeStatus[c]
    BY <1>1, <1>2, <1>3, <1>4, <1>5, <1>6
  <1> QED
    BY <1>7 DEF d, amount

LEMMA BalanceStep ==
    ASSUME OutcomeInv, OutcomeInv', BalanceInv, [Next]_vars
    PROVE  BalanceInv'
  <1>1. TypeInv /\ LedgerOK /\ LedgerOK'
    BY DEF OutcomeInv, ProtocolInv, TypeInv, TypeOK
  <1>2. ASSUME NEW w \in Workers, ReconcileSuccess(w) PROVE BalanceInv'
    <2>1. PICK r \in Requests, t \in Txns : PlanFits(t, r) /\ ApplyPlan(t, r)
      <3>1. work[w].req \in Requests /\ ProviderId[work[w].req] \in ProviderIds
        BY <1>2, ReconcilePays DEF OutcomeInv
      <3>2. /\ PlanFits(ProviderId[work[w].req], work[w].req)
            /\ ApplyPlan(ProviderId[work[w].req], work[w].req)
        BY <1>2 DEF ReconcileSuccess, Recordable
      <3> QED
        BY <3>1, <3>2 DEF Txns
    <2> QED
      BY <1>1, <2>1, PlanKeepsBalance
  <1>3. ASSUME NEW k \in RequestKeys, PayRequestManually(k) PROVE BalanceInv'
    <2>1. k \in Txns /\ PayRequest[k] \in Requests
      BY KeysAreTxns
    <2>2. PlanFits(k, PayRequest[k]) /\ ApplyPlan(k, PayRequest[k])
      BY <1>3 DEF PayRequestManually
    <2> QED
      BY <1>1, <2>1, <2>2, PlanKeepsBalance
  <1>4. ASSUME NEW k \in CollectKeys, CollectManually(k) PROVE BalanceInv'
    <2> SUFFICES ASSUME NEW c \in Charges PROVE AddsUp(c)'
      BY DEF BalanceInv
    <2>1. AddsUp(c) /\ Collect[k].amount \in Nat \ {0}
      BY KeysAreTxns DEF BalanceInv
    <2>2. CASE c = Collect[k].charge /\ Fresh(k)
      BY <1>1, <1>4, <2>1, <2>2, CollectionMoves, TakesMoney
    <2>3. CASE ~ (c = Collect[k].charge /\ Fresh(k))
      BY <1>1, <1>4, <2>1, <2>3, CollectionMoves, KeepsBalance
    <2> QED
      BY <2>2, <2>3
  <1>5. ASSUME NEW r \in Requests, Register(r) PROVE BalanceInv'
    <2>1. UNCHANGED ledger
      BY <1>5 DEF Register
    <2>2. \A c \in Charges : \/ chargeStatus'[c] = chargeStatus[c]
                             \/ chargeStatus[c] = "absent" /\ chargeStatus'[c] = "due"
      BY <1>5 DEF Register
    <2> QED
      BY <2>1, <2>2, AllocatedStays, KeepsBalance DEF BalanceInv
  <1>6. ASSUME UNCHANGED ledger, Quiet PROVE BalanceInv'
    <2>1. \A c \in Charges : chargeStatus'[c] = chargeStatus[c]
      BY <1>6 DEF Quiet
    <2> QED
      BY <1>6, <2>1, AllocatedStays, KeepsBalance DEF BalanceInv
  <1> QED
    BY <1>2, <1>3, <1>4, <1>5, <1>6, LedgerWriters, OutcomeSteps DEF OutcomeInv

LEMMA NothingAllocated ==
    ASSUME Init, NEW c \in Charges
    PROVE  Allocated(c) = 0
  <1> DEFINE f == [t \in Txns |-> alloc[t][c]]
  <1>1. \A t \in Txns : f[t] = 0
    BY DEF Init
  <1>2. Allocated(c) = SumFunctionOnSet(f, Txns)
    BY AllocatedIsTotal
  <1> HIDE DEF f
  <1> QED
    BY <1>1, <1>2, FiniteBooks, TotalOfZeros DEF FiniteBooks

LEMMA BalanceInit == Init => BalanceInv
  <1> SUFFICES ASSUME Init, NEW c \in Charges PROVE AddsUp(c)
    BY DEF BalanceInv
  <1>1. Allocated(c) = 0
    BY NothingAllocated
  <1>2. Price[c] \in Nat \ {0}
    BY ConstantsAssumption DEF ConstantsAssumption
  <1>3. chargeStatus[c] \in {"absent", "due"}
    BY DEF Init
  <1> QED
    BY <1>1, <1>2, <1>3 DEF AddsUp

LedgerInv == OutcomeInv /\ BalanceInv

LEMMA LedgerInductive ==
    /\ Init => LedgerInv
    /\ LedgerInv /\ [Next]_vars => LedgerInv'
  <1>1. LedgerInv /\ [Next]_vars => LedgerInv'
    BY OutcomeInductive, BalanceStep DEF LedgerInv
  <1> QED
    BY <1>1, OutcomeInductive, BalanceInit DEF LedgerInv

\* However hosted pages, terminals, portal payments and money recorded by hand
\* interleave, a charge never absorbs more than its price, and the status the
\* transactions write on it agrees with the allocations.
THEOREM ChargesAreRight == Spec => []ChargesAddUp
  <1>1. LedgerInv => ChargesAddUp
    BY DEF LedgerInv, BalanceInv, AddsUp, ChargesAddUp
  <1> QED
    BY <1>1, LedgerInductive, PTL DEF Spec

\* An attempt of the hosted page is started by its handler and by nothing else.
LEMMA HostedStarts ==
    ASSUME TypeInv, [Next]_vars, NEW r \in Requests, hosted[r] = "none", hosted'[r] = "started"
    PROVE  \E w \in Workers : BeginHosted(w, r)
  <1> USE DEF TypeInv, TypeOK, RowsOK
  <1>1. ASSUME NEW w \in Workers, NEW q \in Requests, BeginHosted(w, q)
        PROVE  q = r
    BY <1>1 DEF BeginHosted
  <1>2. ASSUME NEW w \in Workers, Begin(w), \A q \in Requests : ~ BeginHosted(w, q)
        PROVE  UNCHANGED hosted
    BY <1>2 DEF Begin, StaffSnapshot, BeginSale, BeginRecover, BeginRecheck,
                BeginCallback, rows
  <1>3. ASSUME NEW w \in Workers, Proceed(w), ~ FinishHosted(w) PROVE UNCHANGED hosted
    BY <1>3 DEF Proceed, StaffInsert, OpenPage, CallSale, QueryStatus, PersistOutcome,
                Reconcile, ReconcileDuplicate, ReconcileOpen, ReconcileNonPayment,
                ReconcileMismatch, ReconcileSuccess, ReconcileRefused, rows
  <1>4. ASSUME NEW w \in Workers, FinishHosted(w) PROVE hosted'[r] # "started"
    BY <1>4 DEF FinishHosted
  <1>5. ASSUME NEW q, \/ PortalRequest(q) \/ Register(q) \/ DueDatePasses(q)
                      \/ PayerActs(q) \/ TerminalResolves(q) \/ Crash(q)
                      \/ CollectManually(q) \/ PayRequestManually(q)
        PROVE  UNCHANGED hosted
    BY <1>5 DEF PortalRequest, Register, DueDatePasses, PayerActs, TerminalResolves,
                Crash, CollectManually, PayRequestManually, rows
  <1>6. CASE UNCHANGED vars
    BY <1>6 DEF vars, rows
  <1>7. ASSUME NEW w \in Workers, Begin(w) PROVE BeginHosted(w, r)
    BY <1>1, <1>2, <1>7
  <1> QED
    BY <1>3, <1>4, <1>5, <1>6, <1>7 DEF Next

\* createHostedCollectionLink reads the charge's status under the lock of the
\* request: nothing is allocated to a charge it calls due, so the page asks for
\* all of it.
THEOREM HostedPageAsksAll == Spec => HostedAsksTheBalance
  <1>1. LedgerInv /\ [Next]_vars =>
          \A r \in Requests, c \in Tuition :
            (LinkedTo(r, c) /\ hosted[r] = "none" /\ hosted'[r] = "started") =>
               Allocated(c) = 0 /\ Amount(r) = Price[c]
    <2> SUFFICES ASSUME LedgerInv, [Next]_vars, NEW r \in Requests, NEW c \in Tuition,
                        LinkedTo(r, c), hosted[r] = "none", hosted'[r] = "started"
                 PROVE  Allocated(c) = 0 /\ Amount(r) = Price[c]
      OBVIOUS
    <2>1. \E w \in Workers : BeginHosted(w, r)
      BY HostedStarts DEF LedgerInv, OutcomeInv, ProtocolInv
    <2>2. chargeStatus[c] \in {"due", "overdue"} /\ Price[c] = Amount(r)
      BY <2>1 DEF BeginHosted, HostedPayable
    <2>3. c \in Charges
      BY ConstantsAssumption DEF ConstantsAssumption
    <2>4. AddsUp(c)
      BY <2>3 DEF LedgerInv, BalanceInv
    <2> QED
      BY <2>2, <2>4 DEF AddsUp
  <1> QED
    BY <1>1, LedgerInductive, PTL DEF Spec, HostedAsksTheBalance

-----------------------------------------------------------------------------
(* PaymentPromise.                                                         *)

Paid == {r \in Requests : request[r] = "completed"}
Applied == [c \in Charges |-> Allocated(c)]

\* The money the step adds to each charge.
Added == [c \in Charges |-> Allocated(c)' - Allocated(c)]

\* A completed request stays so.
LEMMA PaidGrows ==
    ASSUME OutcomeInv, [Next]_vars
    PROVE  Paid \subseteq Paid'
  <1> SUFFICES ASSUME NEW r \in Requests, request[r] = "completed"
               PROVE  request'[r] = "completed"
    BY DEF Paid
  <1>1. StatusStep(r)
    BY RequestStep DEF OutcomeInv, ProtocolInv, AttemptInv
  <1> QED
    BY <1>1 DEF StatusStep, Claims, Closes, OutcomeInv, ProtocolInv, AttemptInv, Untouched

\* A step that books a new transaction, completes the requests of one at most
\* and adds no more money than the transaction is worth is one of the promise.
LEMMA SettlesAsPromised ==
    ASSUME LedgerInv, LedgerInv', NEW t \in Txns, t \notin recorded,
           recorded' = recorded \cup {t},
           Paid' \in {Paid} \cup {Paid \cup {r} : r \in Requests},
           \A c \in Charges : Added[c] \in Nat,
           NEW worth \in Worth[t], SumFunctionOnSet(Added, Charges) <= worth
    PROVE  Promise!Settle(t)
  <1>1. LedgerOK /\ LedgerOK'
    BY DEF LedgerInv, OutcomeInv, ProtocolInv, TypeInv, TypeOK
  <1>2. ASSUME NEW c \in Charges
        PROVE  /\ Allocated(c)' \in Nat
               /\ Allocated(c) <= Allocated(c)' /\ Allocated(c)' <= Price[c]
    <2>1. Allocated(c) \in Nat /\ Allocated(c)' \in Int
      BY <1>1, AllocatedIsNat, AllocatedIsInt
    <2>2. Allocated(c)' - Allocated(c) \in Nat
      BY DEF Added
    <2>3. Allocated(c)' <= Price[c]
      BY DEF LedgerInv, BalanceInv, AddsUp
    <2> QED
      BY <2>1, <2>2, <2>3
  <1>3. Applied' \in [Charges -> Nat]
    BY <1>2 DEF Applied
  <1>4. \A c \in Charges : Applied[c] <= Applied'[c] /\ Applied'[c] <= Price[c]
    BY <1>2 DEF Applied
  <1>5. Promise!SumFunction([c \in Charges |-> Applied'[c] - Applied[c]]) <= worth
    <2>1. [c \in Charges |-> Applied'[c] - Applied[c]] = Added
      BY DEF Added, Applied
    <2>2. Promise!SumFunction(Added) = SumFunctionOnSet(Added, Charges)
      <3>1. DOMAIN Added = Charges
        BY DEF Added
      <3> QED
        BY <3>1 DEF Promise!SumFunction, Promise!SumFunctionOnSet,
           Promise!FoldFunctionOnSet, Promise!MapThenFoldSet,
           SumFunctionOnSet, FoldFunctionOnSet, MapThenFoldSet
    <2> QED
      BY <2>1, <2>2
  <1> QED
    BY <1>3, <1>4, <1>5 DEF Promise!Settle, Paid, Applied

\* A plan adds no more than the request asks for.
LEMMA PlanAdds ==
    ASSUME TypeInv, LedgerOK', NEW t \in Txns, NEW r \in Requests, ApplyPlan(t, r)
    PROVE  /\ \A c \in Charges : Added[c] \in Nat
           /\ SumFunctionOnSet(Added, Charges) <= Amount(r)
  <1> DEFINE f == Plan[r]
  <1>1. f \in [Charges -> Nat] /\ Credit[r] \in Nat
    BY ConstantsAssumption DEF ConstantsAssumption
  <1>2. ASSUME NEW c \in Charges PROVE Added[c] \in Nat /\ Added[c] <= f[c]
    <2>1. Allocated(c) \in Nat /\ f[c] \in Nat
      BY <1>1, AllocatedIsNat DEF TypeInv, TypeOK
    <2>2. Allocated(c)' = Allocated(c) + f[c] \/ Allocated(c)' = Allocated(c)
      BY PlanMoves
    <2>3. Added[c] = Allocated(c)' - Allocated(c)
      BY DEF Added
    <2> HIDE DEF f
    <2> QED
      BY <2>1, <2>2, <2>3
  <1>3. IsFiniteSet(Charges)
    BY FiniteBooks DEF FiniteBooks
  <1>4. Amount(r) = SumFunctionOnSet(f, Charges) + Credit[r]
    <2>1. DOMAIN Plan[r] = Charges
      BY <1>1
    <2> QED
      BY <2>1 DEF Amount, SumFunction
  <1>5. \A c \in Charges : Added[c] \in Int /\ f[c] \in Int /\ Added[c] <= f[c]
    BY <1>1, <1>2
  <1> HIDE DEF f
  <1>6. SumFunctionOnSet(Added, Charges) <= SumFunctionOnSet(f, Charges)
    BY <1>3, <1>5, TotalIsMonotone
  <1>7. SumFunctionOnSet(Added, Charges) \in Int /\ SumFunctionOnSet(f, Charges) \in Int
    BY <1>3, <1>5, TotalIsInt
  <1>8. SumFunctionOnSet(Added, Charges) <= Amount(r)
    BY <1>1, <1>4, <1>6, <1>7
  <1> QED
    BY <1>2, <1>8

\* Money recorded on a charge by hand adds its amount to that charge.
LEMMA CollectionAdds ==
    ASSUME TypeInv, LedgerOK', NEW k \in CollectKeys, CollectManually(k)
    PROVE  /\ \A c \in Charges : Added[c] \in Nat
           /\ SumFunctionOnSet(Added, Charges) <= Collect[k].amount
  <1> DEFINE d == Collect[k].charge
             amount == Collect[k].amount
  <1>1. d \in Charges /\ amount \in Nat
    BY KeysAreTxns
  <1>2. \A c \in Charges : /\ Added[c] \in Nat
                           /\ Added[c] = 0 \/ (c = d /\ Added[c] = amount)
    <2> SUFFICES ASSUME NEW c \in Charges
                 PROVE  Added[c] \in Nat /\ (Added[c] = 0 \/ (c = d /\ Added[c] = amount))
      OBVIOUS
    <2>1. Allocated(c) \in Nat
      BY AllocatedIsNat DEF TypeInv, TypeOK
    <2>2. \/ Allocated(c)' = Allocated(c)
          \/ c = d /\ Allocated(c)' = Allocated(c) + amount
      BY CollectionMoves
    <2>3. Added[c] = Allocated(c)' - Allocated(c)
      BY DEF Added
    <2> HIDE DEF d, amount
    <2> QED
      BY <1>1, <2>1, <2>2, <2>3
  <1>3. IsFiniteSet(Charges)
    BY FiniteBooks DEF FiniteBooks
  <1> HIDE DEF d, amount
  <1>4. Added[d] \in Int /\ Added[d] <= amount /\ \A c \in Charges : c # d => Added[c] = 0
    BY <1>1, <1>2
  <1>5. SumFunctionOnSet(Added, Charges) = Added[d]
    BY <1>1, <1>3, <1>4, TotalOfOne
  <1>6. SumFunctionOnSet(Added, Charges) <= amount
    BY <1>4, <1>5
  <1> QED
    BY <1>2, <1>6 DEF amount

\* The step of one transaction: the promised one when the transaction is new,
\* and none when it is a replay.
LEMMA OneTransaction ==
    ASSUME LedgerInv, LedgerInv', NEW t \in Txns, Books(t),
           Paid' \in {Paid} \cup {Paid \cup {r} : r \in Requests},
           t \in recorded => Paid' = Paid,
           \A c \in Charges : Added[c] \in Nat,
           NEW worth \in Worth[t], SumFunctionOnSet(Added, Charges) <= worth
    PROVE  Promise!Settle(t) \/ UNCHANGED <<Paid, recorded, Applied>>
  <1>1. recorded' = recorded \cup {t}
    BY DEF Books
  <1>2. CASE t \notin recorded
    BY <1>1, <1>2, SettlesAsPromised
  <1>3. CASE t \in recorded
    <2>1. \A u \in Txns : alloc'[u] = alloc[u]
      BY <1>3 DEF Books
    <2>2. \A c \in Charges : [u \in Txns |-> alloc'[u][c]] = [u \in Txns |-> alloc[u][c]]
      BY <2>1
    <2>3. ASSUME NEW c \in Charges PROVE Allocated(c)' = Allocated(c)
      <3>1. /\ Allocated(c) = SumFunctionOnSet([u \in Txns |-> alloc[u][c]], Txns)
            /\ Allocated(c)' = SumFunctionOnSet([u \in Txns |-> alloc'[u][c]], Txns)
        BY AllocatedIsTotal
      <3> QED
        BY <2>2, <3>1
    <2>4. Applied' = Applied
      BY <2>3 DEF Applied
    <2> QED
      BY <1>1, <1>3, <2>4
  <1> QED
    BY <1>2, <1>3

\* What completes a request completes no other.
LEMMA PaidByCompletion ==
    ASSUME OutcomeInv, OutcomeInv', NEW t, NEW r \in Requests, Completes(t, r)
    PROVE  Paid' \in {Paid} \cup {Paid \cup {q} : q \in Requests}
  <1>1. Paid' = Paid \cup {r}
    BY DEF Completes, Paid
  <1> QED
    BY <1>1

\* A transaction of a request on the books completed it.
LEMMA PlanStepPromised ==
    ASSUME LedgerInv, LedgerInv', [Next]_vars,
           NEW t \in ProviderIds \cup RequestKeys, NEW r \in Requests,
           Pays(t, r), \A q \in Requests \ {r} : request'[q] = request[q], ApplyPlan(t, r),
           t \in ProviderIds => t = ProviderId[r], t \in RequestKeys => r = PayRequest[t]
    PROVE  Promise!Settle(t) \/ UNCHANGED <<Paid, recorded, Applied>>
  <1>1. t \in Txns /\ t \notin CollectKeys
    BY KeysAreDistinct DEF KeysAreDistinct, Txns
  <1>2. TypeInv /\ LedgerOK' /\ OutcomeInv /\ BooksInv
    BY DEF LedgerInv, OutcomeInv, ProtocolInv, TypeInv, TypeOK
  <1>3. Books(t) /\ owner'[t] = r /\ request'[r] = "completed"
    BY DEF Pays
  <1>4. Paid' = Paid \cup {r}
    BY <1>3 DEF Paid
  <1>5. t \in recorded => Paid' = Paid
    <2>1. ASSUME t \in recorded PROVE request[r] = "completed"
      BY <1>1, <1>2, <1>3, <2>1 DEF Books, BooksInv, PlanApplied, PaysRequest
    <2> QED
      BY <1>4, <2>1 DEF Paid
  <1>6. Amount(r) \in Worth[t]
    <2>1. CASE t \in RequestKeys
      BY <1>1, <2>1 DEF Worth
    <2>2. CASE t \notin RequestKeys
      BY <1>1, <2>2 DEF Worth
    <2> QED
      BY <2>1, <2>2
  <1>7. /\ \A c \in Charges : Added[c] \in Nat
        /\ SumFunctionOnSet(Added, Charges) <= Amount(r)
    BY <1>1, <1>2, PlanAdds
  <1>8. Paid' \in {Paid} \cup {Paid \cup {q} : q \in Requests}
    BY <1>4
  <1> QED
    BY <1>1, <1>3, <1>5, <1>6, <1>7, <1>8, OneTransaction

LEMMA PromiseStep ==
    ASSUME LedgerInv, LedgerInv', [Next]_vars
    PROVE  (\E t \in Txns : Promise!Settle(t)) \/ UNCHANGED <<Paid, recorded, Applied>>
  <1> DEFINE Goal == (\E t \in Txns : Promise!Settle(t))
                        \/ UNCHANGED <<Paid, recorded, Applied>>
  <1>0. OutcomeInv /\ OutcomeInv' /\ ProtocolInv /\ BooksInv /\ TypeInv /\ LedgerOK'
    BY DEF LedgerInv, OutcomeInv, ProtocolInv, TypeInv, TypeOK
  <1>1. ASSUME NEW w \in Workers, ReconcileSuccess(w) PROVE Goal
    <2>1. PICK r \in Requests, t \in ProviderIds :
            r = work[w].req /\ t = ProviderId[r] /\ Pays(t, r)
      BY <1>0, <1>1, ReconcilePays
    <2>2. ApplyPlan(t, r) /\ Mark(r, "completed")
      BY <1>1, <2>1 DEF ReconcileSuccess
    <2>3. \A q \in Requests \ {r} : request'[q] = request[q]
      BY <1>0, <2>2 DEF Mark, TypeInv, TypeOK, RowsOK
    <2>4. t \notin RequestKeys /\ t \in Txns
      BY KeysAreDistinct DEF KeysAreDistinct, Txns
    <2> QED
      BY <2>1, <2>2, <2>3, <2>4, PlanStepPromised
  <1>2. ASSUME NEW k \in RequestKeys, PayRequestManually(k) PROVE Goal
    <2>1. PICK r \in Requests : r = PayRequest[k] /\ Pays(k, r)
      BY <1>0, <1>2, ManualPays
    <2>2. ApplyPlan(k, r) /\ request' = IF request[r] = "created"
                                        THEN [request EXCEPT ![r] = "completed"] ELSE request
      BY <1>2, <2>1 DEF PayRequestManually
    <2>3. \A q \in Requests \ {r} : request'[q] = request[q]
      BY <1>0, <2>2 DEF TypeInv, TypeOK, RowsOK
    <2>4. k \notin ProviderIds /\ k \in Txns
      BY KeysAreDistinct DEF KeysAreDistinct, Txns
    <2> QED
      BY <2>1, <2>2, <2>3, <2>4, PlanStepPromised
  <1>3. ASSUME NEW k \in CollectKeys, CollectManually(k) PROVE Goal
    <2>1. Books(k) /\ k \in Txns
      BY <1>0, <1>3, BookCollected, KeysAreTxns
    <2>2. UNCHANGED request \/ \E t \in Txns, r \in Requests : Completes(t, r)
      BY <1>0, <1>3, CollectionCompletes
    <2>3. Paid' \in {Paid} \cup {Paid \cup {q} : q \in Requests}
      BY <1>0, <2>2, PaidByCompletion DEF Paid
    <2>4. k \in recorded => Paid' = Paid
      BY <1>0, <1>3 DEF BooksInv, Collected, CollectManually, PaysOff, Paid
    <2>5. Collect[k].amount \in Worth[k]
      <3>1. k \notin RequestKeys
        BY KeysAreDistinct DEF KeysAreDistinct
      <3> QED
        BY <2>1, <3>1 DEF Worth
    <2>6. /\ \A c \in Charges : Added[c] \in Nat
          /\ SumFunctionOnSet(Added, Charges) <= Collect[k].amount
      BY <1>0, <1>3, CollectionAdds
    <2> QED
      BY <2>1, <2>3, <2>4, <2>5, <2>6, OneTransaction
  <1>4. ASSUME UNCHANGED ledger,
               \A r \in Requests : request'[r] = "completed" => request[r] = "completed"
        PROVE  Goal
    <2>1. Paid' = Paid
      BY <1>0, <1>4, PaidGrows DEF Paid
    <2>2. Applied' = Applied
      BY <1>4, AllocatedStays DEF Applied
    <2>3. recorded' = recorded
      BY <1>4 DEF ledger
    <2> QED
      BY <2>1, <2>2, <2>3
  <1>5. ASSUME NEW q \in Requests, Register(q) PROVE Goal
    <2>1. UNCHANGED ledger /\ request' = [request EXCEPT ![q] = "created"]
      BY <1>5 DEF Register, NewRequest
    <2> QED
      BY <1>0, <1>4, <2>1 DEF TypeInv, TypeOK, RowsOK
  <1> HIDE DEF Goal
  <1>6. Goal
    BY <1>0, <1>1, <1>2, <1>3, <1>4, <1>5, LedgerWriters, OutcomeSteps
       DEF OutcomeInv, Quiet
  <1> QED
    BY <1>6 DEF Goal

\* PaymentReconciliation implements PaymentPromise: in each step at most one new
\* transaction reaches the books, completes at most one request, and pays
\* charges no more than it is worth and they are; nothing is taken back.
THEOREM PromiseKept == Spec => KeepsPromise
  <1>1. Init => Promise!Init
    <2> SUFFICES ASSUME Init PROVE Promise!Init
      OBVIOUS
    <2>1. \A c \in Charges : Allocated(c) = 0
      BY NothingAllocated
    <2> QED
      BY <2>1 DEF Promise!Init, Init
  <1>2. LedgerInv /\ LedgerInv' /\ [Next]_vars => [Promise!Next]_(Promise!promised)
    BY PromiseStep DEF Promise!Next, Promise!promised, Paid, Applied
  <1> QED
    BY <1>1, <1>2, LedgerInductive, PTL DEF Spec, KeepsPromise, Promise!Spec
=============================================================================
