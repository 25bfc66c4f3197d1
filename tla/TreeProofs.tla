---------------------------- MODULE TreeProofs ----------------------------
(***************************************************************************)
(* Proofs about bodies in prefix form: the operands still owed are counted *)
(* up node by node.  The fold that defines Owed is a recursive function    *)
(* over sets; it is unrolled here by least counterexamples.                *)
(***************************************************************************)
EXTENDS Ast, SequenceTheorems, WellFoundedInduction, TLAPS

(* A set of numbers that is not empty has a least element, and Min is it. *)
LEMMA MinIsLeast ==
  ASSUME NEW T \in SUBSET Nat, T # {}
  PROVE  /\ Min(T) \in T
         /\ \A y \in T : Min(T) <= y
<1> DEFINE R == {ss \in Nat \X Nat : ss[1] < ss[2]}
<1>1. IsWellFoundedOn(R, Nat)
  BY NatLessThanWellFounded DEF OpToRel
<1>2. \A x, y \in T : <<y, x>> \in R <=> y < x
  OBVIOUS
<1> HIDE DEF R
<1>3. \E x \in T : \A y \in T : ~(<<y, x>> \in R)
  BY <1>1, WFMin
<1>4. \E x \in T : \A y \in T : x <= y
  <2>1. PICK x \in T : \A y \in T : ~(<<y, x>> \in R)
    BY <1>3
  <2>2. \A y \in T : ~(y < x)
    BY <2>1, <1>2
  <2>3. \A y \in T : x <= y
    BY <2>2
  <2> QED BY <2>3
<1> QED BY <1>4 DEF Min

----------------------------------------------------------------------------
(* What is owed after one more node. *)
OwedAfter(owed, n) == IF owed = 0 THEN Arity(n) ELSE owed - 1 + Arity(n)

(* The function the fold iterates, over the sets of positions in a body. *)
Folds(nodes, iter) ==
  iter = [s \in SUBSET (DOMAIN nodes) |->
            IF s = {} THEN 0 ELSE OwedAfter(iter[s \ {Max(s)}], nodes[Max(s)])]

(* Owed, by the definition of the fold. *)
LEMMA OwedUnfolds ==
  \A nodes : Owed(nodes) = (CHOOSE iter : Folds(nodes, iter))[DOMAIN nodes]
BY DEF Owed, FoldLeft, MapThenFoldSet, Folds, OwedAfter

(* The greatest of a set of numbers up to n that has n. *)
LEMMA MaxIsLast ==
  ASSUME NEW n \in Nat, NEW s \in SUBSET (1 .. n), n \in s
  PROVE  Max(s) = n
<1>1. \A x \in s : (\A y \in s : x >= y) <=> x = n
  OBVIOUS
<1>2. Max(s) = CHOOSE x \in s : \A y \in s : x >= y
  BY DEF Max
<1> QED BY <1>1, <1>2

(* Arities are numbers. *)
LEMMA ArityType == \A n \in Node : Arity(n) \in Nat
<1> SUFFICES ASSUME NEW n \in Node PROVE Arity(n) \in Nat
  OBVIOUS
<1>1. n \in Number \/ n \in Ident \/ n \in Call \/ n \in Binary \/ n \in Jump
  BY DEF Node
<1>2. CASE n \in Number
  BY <1>2 DEF Number, Arity
<1>3. CASE n \in Ident
  BY <1>3 DEF Ident, Arity
<1>4. CASE n \in Call
  BY <1>4 DEF Call, Arity
<1>5. CASE n \in Binary
  BY <1>5 DEF Binary, Arity
<1>6. CASE n \in Jump
  BY <1>6 DEF Jump, Arity
<1> QED BY <1>1, <1>2, <1>3, <1>4, <1>5, <1>6

(* The recursion of the fold has a solution ... *)
LEMMA FoldExists ==
  ASSUME NEW nodes \in Seq(Node)
  PROVE  \E iter : Folds(nodes, iter)
<1> DEFINE Solved(m, it) ==
             it = [s \in SUBSET (1 .. m) |->
                     IF s = {} THEN 0 ELSE OwedAfter(it[s \ {Max(s)}], nodes[Max(s)])]
           Bad == {m \in Nat : ~ \E it : Solved(m, it)}
<1>1. Bad = {}
  <2> SUFFICES ASSUME Bad # {} PROVE FALSE
    OBVIOUS
  <2>1. Bad \in SUBSET Nat
    OBVIOUS
  <2> HIDE DEF Bad
  <2>2. PICK m \in Bad : \A y \in Bad : m <= y
    BY <2>1, MinIsLeast
  <2>3. m \in Nat /\ ~ \E it : Solved(m, it)
    BY DEF Bad
  <2>4. CASE m = 0
    <3> DEFINE it == [s \in SUBSET (1 .. 0) |-> 0]
    <3>1. \A s \in SUBSET (1 .. 0) : s = {}
      OBVIOUS
    <3>2. Solved(0, it)
      BY <3>1
    <3> QED BY <2>3, <2>4, <3>2
  <2>5. CASE m # 0
    <3>1. m - 1 \in Nat /\ m - 1 \notin Bad
      BY <2>2, <2>3, <2>5
    <3>2. PICK old : Solved(m - 1, old)
      BY <3>1 DEF Bad
    <3> DEFINE it == [s \in SUBSET (1 .. m) |->
                        IF m \in s THEN OwedAfter(old[s \ {m}], nodes[m]) ELSE old[s]]
    <3>3. ASSUME NEW s \in SUBSET (1 .. m)
          PROVE  it[s] = IF s = {} THEN 0 ELSE OwedAfter(it[s \ {Max(s)}], nodes[Max(s)])
      <4>1. CASE m \in s
        <5>1. Max(s) = m
          BY <2>3, <4>1, MaxIsLast
        <5>2. s \ {m} \in SUBSET (1 .. m) /\ m \notin s \ {m}
          OBVIOUS
        <5>3. it[s \ {m}] = old[s \ {m}]
          BY <5>2
        <5>4. it[s] = OwedAfter(old[s \ {m}], nodes[m]) /\ s # {}
          BY <4>1
        <5> HIDE DEF it
        <5> QED BY <5>1, <5>3, <5>4
      <4>2. CASE m \notin s
        <5>1. s \in SUBSET (1 .. (m - 1))
          BY <2>3, <4>2
        <5>2. it[s] = old[s]
          BY <4>2
        <5>3. old[s] = IF s = {} THEN 0 ELSE OwedAfter(old[s \ {Max(s)}], nodes[Max(s)])
          BY <3>2, <5>1
        <5>4. s \ {Max(s)} \in SUBSET (1 .. m) /\ m \notin s \ {Max(s)}
          BY <4>2
        <5>5. it[s \ {Max(s)}] = old[s \ {Max(s)}]
          BY <5>4
        <5> HIDE DEF it
        <5> QED BY <5>2, <5>3, <5>5
      <4> QED BY <4>1, <4>2
    <3>4. DOMAIN it = SUBSET (1 .. m) /\ it = [s \in SUBSET (1 .. m) |-> it[s]]
      OBVIOUS
    <3> HIDE DEF it
    <3>5. Solved(m, it)
      BY <3>3, <3>4
    <3> QED BY <2>3, <3>5
  <2> QED BY <2>4, <2>5
<1>2. Len(nodes) \in Nat /\ DOMAIN nodes = 1 .. Len(nodes)
  OBVIOUS
<1>3. PICK it : Solved(Len(nodes), it)
  BY <1>1, <1>2
<1> QED BY <1>2, <1>3 DEF Folds

(* ... and on the prefixes of a body a solution counts node by node.        *)
LEMMA FoldCounts ==
  ASSUME NEW nodes \in Seq(Node), NEW iter, Folds(nodes, iter), NEW j \in 0 .. Len(nodes)
  PROVE  /\ j = 0 => iter[1 .. j] = 0
         /\ j # 0 => iter[1 .. j] = OwedAfter(iter[1 .. (j - 1)], nodes[j])
<1> DEFINE s == 1 .. j
<1>1. Len(nodes) \in Nat /\ DOMAIN nodes = 1 .. Len(nodes)
  OBVIOUS
<1>2. s \in SUBSET (DOMAIN nodes)
  BY <1>1
<1>3. iter[s] = IF s = {} THEN 0 ELSE OwedAfter(iter[s \ {Max(s)}], nodes[Max(s)])
  BY <1>2 DEF Folds
<1>4. j = 0 => s = {}
  BY <1>1
<1>5. j # 0 => Max(s) = j /\ s \ {j} = 1 .. (j - 1) /\ s # {}
  <2> HAVE j # 0
  <2>1. j \in Nat /\ j \in s /\ s \in SUBSET (1 .. j)
    BY <1>1
  <2>2. Max(s) = j
    BY <2>1, MaxIsLast
  <2>3. s \ {j} = 1 .. (j - 1)
    BY <1>1
  <2> QED BY <2>1, <2>2, <2>3
<1> HIDE DEF s
<1>6. j = 0 => iter[s] = 0
  BY <1>3, <1>4
<1>7. j # 0 => iter[s] = OwedAfter(iter[1 .. (j - 1)], nodes[j])
  BY <1>3, <1>5
<1> QED BY <1>6, <1>7 DEF s

(* What is owed stays a number. *)
LEMMA OwedAfterType ==
  \A owed \in Nat : \A n \in Node : OwedAfter(owed, n) \in Nat
<1> SUFFICES ASSUME NEW owed \in Nat, NEW n \in Node PROVE OwedAfter(owed, n) \in Nat
  OBVIOUS
<1>1. Arity(n) \in Nat
  BY ArityType
<1> QED BY <1>1 DEF OwedAfter

(* Two solutions, for a body and for a prefix of it, agree on the prefix,   *)
(* and what they count are numbers.                                         *)
LEMMA FoldsAgree ==
  ASSUME NEW nodes \in Seq(Node), NEW more \in Seq(Node), Len(nodes) <= Len(more),
         \A j \in 1 .. Len(nodes) : more[j] = nodes[j],
         NEW a, Folds(nodes, a), NEW b, Folds(more, b)
  PROVE  \A j \in 0 .. Len(nodes) : a[1 .. j] = b[1 .. j] /\ a[1 .. j] \in Nat
<1> DEFINE Bad == {j \in 0 .. Len(nodes) : ~(a[1 .. j] = b[1 .. j] /\ a[1 .. j] \in Nat)}
<1>1. Len(nodes) \in Nat /\ Len(more) \in Nat
  OBVIOUS
<1> SUFFICES ASSUME Bad # {} PROVE FALSE
  OBVIOUS
<1>2. Bad \in SUBSET Nat
  BY <1>1
<1>3. \A j : j \in Bad <=> j \in 0 .. Len(nodes) /\ ~(a[1 .. j] = b[1 .. j] /\ a[1 .. j] \in Nat)
  OBVIOUS
<1> HIDE DEF Bad
<1>4. PICK m \in Bad : \A y \in Bad : m <= y
  BY <1>2, MinIsLeast
<1>5. m \in 0 .. Len(nodes) /\ m \in 0 .. Len(more) /\ m \in Nat
  BY <1>1, <1>2, <1>3
<1>6. m # 0
  BY <1>3, <1>5, FoldCounts
<1>7. m - 1 \in 0 .. Len(nodes) /\ m - 1 \notin Bad
  BY <1>1, <1>4, <1>5, <1>6
<1>8. a[1 .. (m - 1)] = b[1 .. (m - 1)] /\ a[1 .. (m - 1)] \in Nat
  BY <1>3, <1>7
<1>9. more[m] = nodes[m] /\ nodes[m] \in Node
  BY <1>1, <1>5, <1>6
<1>10. /\ a[1 .. m] = OwedAfter(a[1 .. (m - 1)], nodes[m])
       /\ b[1 .. m] = OwedAfter(b[1 .. (m - 1)], more[m])
  BY <1>5, <1>6, FoldCounts
<1>11. a[1 .. m] = b[1 .. m] /\ a[1 .. m] \in Nat
  BY <1>8, <1>9, <1>10, OwedAfterType
<1> QED BY <1>3, <1>4, <1>11

(* The first j nodes of a body. *)
LEMMA PrefixOfBody ==
  ASSUME NEW nodes \in Seq(Node), NEW j \in 0 .. Len(nodes)
  PROVE  /\ SubSeq(nodes, 1, j) \in Seq(Node)
         /\ Len(SubSeq(nodes, 1, j)) = j
         /\ \A l \in 1 .. j : SubSeq(nodes, 1, j)[l] = nodes[l]
<1>1. Len(nodes) \in Nat
  OBVIOUS
<1>2. \A l \in 1 .. j : nodes[l] \in Node
  BY <1>1
<1> DEFINE front == SubSeq(nodes, 1, j)
<1>3. /\ front \in Seq(Node)
      /\ Len(front) = IF 1 <= j THEN j - 1 + 1 ELSE 0
      /\ \A l \in 1 .. (j - 1 + 1) : front[l] = nodes[1 + l - 1]
  BY <1>1, <1>2, SubSeqProperties
<1> HIDE DEF front
<1>4. Len(front) = j
  BY <1>1, <1>3
<1>5. \A l \in 1 .. j : front[l] = nodes[l]
  <2> TAKE l \in 1 .. j
  <2>1. j - 1 + 1 = j /\ 1 + l - 1 = l
    BY <1>1
  <2> QED BY <1>3, <2>1
<1> QED BY <1>3, <1>4, <1>5 DEF front

(* What is owed in a body: a number; nothing before the first node; and     *)
(* after a node what OwedAfter says.                                        *)
LEMMA OwedCounts ==
  ASSUME NEW nodes \in Seq(Node)
  PROVE  /\ OwedBefore(nodes, 1) = 0
         /\ \A j \in 1 .. Len(nodes) :
              /\ OwedBefore(nodes, j) \in Nat
              /\ OwedBefore(nodes, j + 1) = OwedAfter(OwedBefore(nodes, j), nodes[j])
         /\ OwedBefore(nodes, Len(nodes) + 1) = Owed(nodes)
<1>1. Len(nodes) \in Nat /\ DOMAIN nodes = 1 .. Len(nodes)
  OBVIOUS
<1>2. PICK iter : Folds(nodes, iter)
  BY FoldExists
<1>3. ASSUME NEW j \in 0 .. Len(nodes)
      PROVE  Owed(SubSeq(nodes, 1, j)) = iter[1 .. j] /\ iter[1 .. j] \in Nat
  <2> DEFINE front == SubSeq(nodes, 1, j)
  <2>1. front \in Seq(Node) /\ Len(front) = j /\ \A l \in 1 .. j : front[l] = nodes[l]
    BY <1>3, PrefixOfBody
  <2> HIDE DEF front
  <2> DEFINE it == CHOOSE it : Folds(front, it)
  <2>2. Owed(front) = it[DOMAIN front] /\ DOMAIN front = 1 .. j
    <3>1. Owed(front) = it[DOMAIN front]
      BY OwedUnfolds
    <3> QED BY <2>1, <3>1
  <2>3. Folds(front, it)
    BY <2>1, FoldExists
  <2> HIDE DEF it
  <2>4. it[1 .. j] = iter[1 .. j] /\ it[1 .. j] \in Nat
    <3>1. j \in 0 .. Len(front) /\ Len(front) <= Len(nodes)
      BY <1>1, <2>1
    <3>2. \A l \in 1 .. Len(front) : nodes[l] = front[l]
      BY <2>1
    <3> QED BY <1>2, <2>1, <2>3, <3>1, <3>2, FoldsAgree
  <2> QED BY <2>2, <2>4 DEF front
<1>4. OwedBefore(nodes, 1) = 0
  <2>1. 0 \in 0 .. Len(nodes) /\ 1 - 1 = 0
    BY <1>1
  <2> QED BY <1>2, <1>3, <2>1, FoldCounts DEF OwedBefore
<1>5. ASSUME NEW j \in 1 .. Len(nodes)
      PROVE  /\ OwedBefore(nodes, j) \in Nat
             /\ OwedBefore(nodes, j + 1) = OwedAfter(OwedBefore(nodes, j), nodes[j])
  <2>1. j - 1 \in 0 .. Len(nodes) /\ j \in 0 .. Len(nodes) /\ j # 0 /\ (j + 1) - 1 = j
    BY <1>1
  <2>2. iter[1 .. j] = OwedAfter(iter[1 .. (j - 1)], nodes[j])
    BY <1>2, <2>1, FoldCounts
  <2>3. OwedBefore(nodes, j) = iter[1 .. (j - 1)] /\ iter[1 .. (j - 1)] \in Nat
    BY <1>3, <2>1 DEF OwedBefore
  <2>4. OwedBefore(nodes, j + 1) = iter[1 .. j]
    BY <1>3, <2>1 DEF OwedBefore
  <2> QED BY <2>2, <2>3, <2>4
<1>6. OwedBefore(nodes, Len(nodes) + 1) = Owed(nodes)
  <2>1. (Len(nodes) + 1) - 1 = Len(nodes)
    BY <1>1
  <2>2. SubSeq(nodes, 1, Len(nodes)) = nodes
    BY <1>1, PrefixOfBody, SeqEqual
  <2> QED BY <2>1, <2>2 DEF OwedBefore
<1> QED BY <1>4, <1>5, <1>6

(* A body the grammar produces: no operand is missing at its end, so an     *)
(* assignment is followed by its target, and other statements by theirs.    *)
LEMMA OwedAtEnd ==
  ASSUME NEW body \in Seq(Node), WellFormed(body)
  PROVE  /\ OwedBefore(body, Len(body) + 1) = 0
         /\ \A j \in 1 .. Len(body) : Arity(body[j]) > 0 => j + 1 \in 1 .. Len(body)
<1>1. OwedBefore(body, Len(body) + 1) = 0
  BY OwedCounts DEF WellFormed
<1>2. ASSUME NEW j \in 1 .. Len(body), Arity(body[j]) > 0, j + 1 \notin 1 .. Len(body)
      PROVE  FALSE
  <2>1. j = Len(body) /\ body[j] \in Node
    BY <1>2
  <2>2. OwedBefore(body, j) \in Nat /\ OwedAfter(OwedBefore(body, j), body[j]) = 0
    BY <1>1, <2>1, OwedCounts
  <2>3. Arity(body[j]) \in Nat
    BY <2>1, ArityType
  <2> QED BY <1>2, <2>2, <2>3 DEF OwedAfter
<1> QED BY <1>1, <1>2

===========================================================================
