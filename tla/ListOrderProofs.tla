--------------------------- MODULE ListOrderProofs ---------------------------
(* What get_next computes, for every list.                                    *)
EXTENDS ListOrder, WellFoundedInduction, TLAPS

\* A nonempty set of naturals has a least element, and Min is it.
LEMMA MinIsLeast ==
    ASSUME NEW S \in SUBSET Nat, S # {}
    PROVE  Min(S) \in S /\ \A y \in S : Min(S) <= y
<1>1. PICK x \in S : \A y \in S : ~ (<<y, x>> \in OpToRel(<, Nat))
    BY NatLessThanWellFounded, WFMin
<1>2. ASSUME NEW y \in S PROVE x <= y
    <2>1. x \in Nat /\ y \in Nat
        OBVIOUS
    <2>2. ~(y < x)
        BY <1>1, <2>1 DEF OpToRel
    <2>3. QED
        BY <2>1, <2>2
<1>3. QED
    BY <1>2 DEF Min

\* FirstLater is the first position with the connector, or the end of the list.
LEMMA FirstLaterIsFirst ==
    ASSUME NEW ops, Len(ops) \in Nat, NEW i \in Nat, i <= Len(ops), NEW op
    PROVE  LET f == FirstLater(ops, i, op) IN
           /\ f \in i+1 .. Len(ops) + 1
           /\ f <= Len(ops) => ops[f] = op
           /\ \A j \in i+1 .. f-1 : ops[j] # op
<1>1. CASE Later(ops, i, op) = {}
    BY <1>1 DEF FirstLater, Later
<1>2. CASE Later(ops, i, op) # {}
    <2>1. Later(ops, i, op) \in SUBSET Nat
        BY DEF Later
    <2>2. Min(Later(ops, i, op)) \in Later(ops, i, op)
          /\ \A y \in Later(ops, i, op) : Min(Later(ops, i, op)) <= y
        BY <1>2, <2>1, MinIsLeast
    <2> DEFINE f == FirstLater(ops, i, op)
    <2>3. f \in Later(ops, i, op) /\ \A y \in Later(ops, i, op) : f <= y
        BY <1>2, <2>2 DEF FirstLater
    <2>4. f \in i+1 .. Len(ops) /\ ops[f] = op
        BY <2>3 DEF Later
    <2>5. \A j \in i+1 .. f-1 : j \in i+1 .. Len(ops) /\ ~(f <= j)
        BY <2>4
    <2>6. \A j \in i+1 .. f-1 : ops[j] # op
        BY <2>3, <2>5 DEF Later
    <2>7. QED
        BY <2>4, <2>6
<1>3. QED
    BY <1>1, <1>2

\* NextRun is the first runnable position, or the end of the list.
LEMMA NextRunIsFirst ==
    ASSUME NEW ops, Len(ops) \in Nat, NEW i \in Nat, i <= Len(ops), NEW s
    PROVE  LET n == NextRun(ops, i, s) IN
           /\ n \in i+1 .. Len(ops) + 1
           /\ n <= Len(ops) => Satisfied(ops[n], s)
           /\ \A j \in i+1 .. n-1 : ~Satisfied(ops[j], s)
<1>1. CASE Runnable(ops, i, s) = {}
    BY <1>1 DEF NextRun, Runnable
<1>2. CASE Runnable(ops, i, s) # {}
    <2>1. Runnable(ops, i, s) \in SUBSET Nat
        BY DEF Runnable
    <2>2. Min(Runnable(ops, i, s)) \in Runnable(ops, i, s)
          /\ \A y \in Runnable(ops, i, s) : Min(Runnable(ops, i, s)) <= y
        BY <1>2, <2>1, MinIsLeast
    <2> DEFINE n == NextRun(ops, i, s)
    <2>3. n \in Runnable(ops, i, s) /\ \A y \in Runnable(ops, i, s) : n <= y
        BY <1>2, <2>2 DEF NextRun
    <2>4. n \in i+1 .. Len(ops) /\ Satisfied(ops[n], s)
        BY <2>3 DEF Runnable
    <2>5. \A j \in i+1 .. n-1 : j \in i+1 .. Len(ops) /\ ~(n <= j)
        BY <2>4
    <2>6. \A j \in i+1 .. n-1 : ~Satisfied(ops[j], s)
        BY <2>3, <2>5 DEF Runnable
    <2>7. QED
        BY <2>4, <2>6
<1>3. QED
    BY <1>1, <1>2

(* get_next always moves forward and never past the sentinel: execute_list cannot
   loop, whatever the flags are.                                               *)
THEOREM GetNextMovesForward ==
    ASSUME NEW ops, Len(ops) \in Nat, NEW i \in Nat, i <= Len(ops), NEW s
    PROVE  GetNext(ops, i, s) \in i+1 .. Len(ops) + 1
<1>1. CASE i + 1 > Len(ops) \/ Satisfied(ops[i+1], s)
    BY <1>1 DEF GetNext
<1>2. CASE ~(i + 1 > Len(ops) \/ Satisfied(ops[i+1], s))
    <2>1. i + 1 \in Nat /\ i + 1 <= Len(ops)
        BY <1>2
    <2>2. \A op : FirstLater(ops, i + 1, op) \in i+2 .. Len(ops) + 1
        BY <2>1, FirstLaterIsFirst
    <2>3. QED
        BY <1>2, <2>2 DEF GetNext, GetNextWithOr, GetNextWithAnd
<1>3. QED
    BY <1>1, <1>2

(* On a list without newlines get_next finds exactly the pipeline that the shell
   language runs next, however long the run of connectors it has to skip.      *)
THEOREM GetNextIsNextRun ==
    ASSUME NEW ops, Len(ops) \in Nat,
           \A j \in 1 .. Len(ops) : ops[j] \in Connectors,
           OneLine(ops),
           NEW i \in 1 .. Len(ops), NEW s
    PROVE  GetNext(ops, i, s) = NextRun(ops, i, s)
<1> DEFINE n == NextRun(ops, i, s)
<1>1. /\ n \in i+1 .. Len(ops) + 1
      /\ n <= Len(ops) => Satisfied(ops[n], s)
      /\ \A j \in i+1 .. n-1 : ~Satisfied(ops[j], s)
    BY NextRunIsFirst
<1>2. CASE i + 1 > Len(ops)
    BY <1>1, <1>2 DEF GetNext
<1>3. CASE i + 1 <= Len(ops) /\ Satisfied(ops[i+1], s)
    BY <1>1, <1>3 DEF GetNext
<1>4. CASE i + 1 <= Len(ops) /\ ~Satisfied(ops[i+1], s)
    <2>1. \A j \in i+1 .. Len(ops) : ops[j] \in {"and", "or"}
        BY DEF OneLine, Connectors
    <2> DEFINE wanted == IF s = 0 THEN "and" ELSE "or"
               f == FirstLater(ops, i + 1, wanted)
    <2>2. \A j \in i+1 .. Len(ops) : Satisfied(ops[j], s) <=> ops[j] = wanted
        BY <2>1 DEF Satisfied
    <2>3. GetNext(ops, i, s) = f
        BY <1>4, <2>1, <2>2 DEF GetNext, GetNextWithOr, GetNextWithAnd
    <2>4. /\ f \in i+2 .. Len(ops) + 1
          /\ f <= Len(ops) => ops[f] = wanted
          /\ \A j \in i+2 .. f-1 : ops[j] # wanted
        BY <1>4, FirstLaterIsFirst
    <2>5. f <= n
        BY <1>1, <1>4, <2>2, <2>4
    <2>6. n <= f
        BY <1>1, <2>2, <2>4
    <2>7. QED
        BY <1>1, <2>3, <2>4, <2>5, <2>6
<1>5. QED
    BY <1>2, <1>3, <1>4
=============================================================================
