--------------------------- MODULE MeaningProofs ---------------------------
(***************************************************************************)
(* Proofs that the code of a supported unit does what its source does.     *)
(* Between two steps of the generator the run of the code so far shows a   *)
(* state of the machine that evaluates the source: every step of the       *)
(* generator inside a body is one tick of that machine.                    *)
(***************************************************************************)
EXTENDS CodeProofs, Meaning

(* A sequence of n things, whatever they are. *)
Ordered(f, n) == f = [o \in 1 .. n |-> f[o]]

LEMMA OrderedIs ==
  ASSUME NEW n \in Nat, NEW f, Ordered(f, n)
  PROVE  /\ f \in Seq({f[o] : o \in 1 .. n})
         /\ Len(f) = n /\ DOMAIN f = 1 .. n
<1>1. f \in [1 .. n -> {f[o] : o \in 1 .. n}]
  BY DEF Ordered
<1> DEFINE S == {f[o] : o \in 1 .. n}
<1>2. f \in [1 .. n -> S]
  BY <1>1
<1> HIDE DEF S
<1>3. f \in Seq(S) /\ Len(f) = n /\ DOMAIN f = 1 .. n
  BY <1>2
<1> QED BY <1>3 DEF S

(* One more of them. *)
LEMMA AppendIs ==
  ASSUME NEW n \in Nat, NEW f, Ordered(f, n), NEW v
  PROVE  /\ Ordered(Append(f, v), n + 1)
         /\ Append(f, v)[n + 1] = v
         /\ \A o \in 1 .. n : Append(f, v)[o] = f[o]
         /\ Append(f, v) = [o \in 1 .. (n + 1) |-> IF o = n + 1 THEN v ELSE f[o]]
<1> DEFINE S == {f[o] : o \in 1 .. n} \cup {v}
<1>1. f \in [1 .. n -> S]
  BY DEF Ordered
<1>2. v \in S
  OBVIOUS
<1> HIDE DEF S
<1>3. f \in Seq(S) /\ Len(f) = n
  BY <1>1
<1> DEFINE g == Append(f, v)
<1>4. g \in Seq(S) /\ Len(g) = n + 1
  BY <1>2, <1>3
<1>5. DOMAIN g = 1 .. (n + 1)
  BY <1>4
<1>6. g[n + 1] = v /\ \A o \in 1 .. n : g[o] = f[o]
  BY <1>2, <1>3
<1>7. g = [o \in 1 .. (n + 1) |-> g[o]]
  <2> HIDE DEF g
  <2>1. g \in [1 .. (n + 1) -> S]
    BY <1>4, ElementOfSeq, SeqDef
  <2> QED BY <2>1
<1> HIDE DEF g
<1>8. \A o \in 1 .. (n + 1) : g[o] = IF o = n + 1 THEN v ELSE f[o]
  BY <1>6
<1>9. g = [o \in 1 .. (n + 1) |-> IF o = n + 1 THEN v ELSE f[o]]
  BY <1>7, <1>8
<1> QED BY <1>6, <1>7, <1>9 DEF g, Ordered

(* A sequence of sequences' worth of typed things is one, too. *)
LEMMA SeqIsOrdered ==
  ASSUME NEW S, NEW f \in Seq(S)
  PROVE  Ordered(f, Len(f)) /\ Len(f) \in Nat
BY DEF Ordered

----------------------------------------------------------------------------
(* The run of code, instruction by instruction. *)

(* The results so far, for code of m instructions. *)
Ran(code, m, run) ==
  run = [j \in 0 .. m |-> IF j = 0 THEN Blank ELSE Step(run[j - 1], code[j])]

LEMMA RunsUnfold ==
  \A code : Runs(code) = CHOOSE run : Ran(code, Len(code), run)
BY DEF Runs, Ran

(* The recursion has a solution ... *)
LEMMA RunExists ==
  ASSUME NEW code, NEW n \in Nat
  PROVE  \E run : Ran(code, n, run)
<1> DEFINE Bad == {m \in Nat : ~ \E run : Ran(code, m, run)}
<1>1. Bad = {}
  <2> SUFFICES ASSUME Bad # {} PROVE FALSE
    OBVIOUS
  <2>1. Bad \in SUBSET Nat
    OBVIOUS
  <2> HIDE DEF Bad
  <2>2. PICK m \in Bad : \A y \in Bad : m <= y
    BY <2>1, MinIsLeast
  <2>3. m \in Nat /\ ~ \E run : Ran(code, m, run)
    BY DEF Bad
  <2>4. CASE m = 0
    <3> DEFINE it == [j \in 0 .. 0 |-> Blank]
    <3>1. it = [j \in 0 .. 0 |-> IF j = 0 THEN Blank ELSE Step(it[j - 1], code[j])]
      OBVIOUS
    <3>2. Ran(code, 0, it)
      BY <3>1 DEF Ran
    <3> QED BY <2>3, <2>4, <3>2
  <2>5. CASE m # 0
    <3>1. m - 1 \in Nat /\ m - 1 \notin Bad
      BY <2>2, <2>3, <2>5
    <3>2. PICK old : Ran(code, m - 1, old)
      BY <3>1 DEF Bad
    <3> DEFINE it == [j \in 0 .. m |-> IF j = m THEN Step(old[m - 1], code[m]) ELSE old[j]]
    <3>3. ASSUME NEW j \in 0 .. m
          PROVE  it[j] = IF j = 0 THEN Blank ELSE Step(it[j - 1], code[j])
      <4>1. CASE j = m
        <5>1. it[m] = Step(old[m - 1], code[m]) /\ it[m - 1] = old[m - 1]
          BY <2>3, <2>5
        <5> HIDE DEF it
        <5> QED BY <2>5, <4>1, <5>1
      <4>2. CASE j # m
        <5>1. j \in 0 .. (m - 1) /\ it[j] = old[j] /\ (j # 0 => it[j - 1] = old[j - 1])
          BY <2>3, <4>2
        <5>2. old[j] = IF j = 0 THEN Blank ELSE Step(old[j - 1], code[j])
          BY <3>2, <5>1 DEF Ran
        <5> HIDE DEF it
        <5> QED BY <5>1, <5>2
      <4> QED BY <4>1, <4>2
    <3>4. it = [j \in 0 .. m |-> it[j]]
      OBVIOUS
    <3> HIDE DEF it
    <3>5. it = [j \in 0 .. m |-> IF j = 0 THEN Blank ELSE Step(it[j - 1], code[j])]
      BY <3>3, <3>4
    <3> QED BY <2>3, <3>5 DEF Ran
  <2> QED BY <2>4, <2>5
<1> QED BY <1>1

(* ... and only one, whatever code follows. *)
LEMMA RunUnique ==
  ASSUME NEW code, NEW more, NEW n \in Nat, NEW m \in Nat, n <= m,
         \A j \in 1 .. n : more[j] = code[j],
         NEW one, Ran(code, n, one), NEW two, Ran(more, m, two)
  PROVE  \A j \in 0 .. n : one[j] = two[j]
<1> DEFINE Bad == {j \in 0 .. n : one[j] # two[j]}
<1>1. Bad = {}
  <2> SUFFICES ASSUME Bad # {} PROVE FALSE
    OBVIOUS
  <2>1. Bad \in SUBSET Nat
    OBVIOUS
  <2> HIDE DEF Bad
  <2>2. PICK j \in Bad : \A y \in Bad : j <= y
    BY <2>1, MinIsLeast
  <2>3. j \in 0 .. n /\ one[j] # two[j]
    BY DEF Bad
  <2>4. /\ one[j] = IF j = 0 THEN Blank ELSE Step(one[j - 1], code[j])
        /\ two[j] = IF j = 0 THEN Blank ELSE Step(two[j - 1], more[j])
    <3>1. j \in 0 .. n /\ j \in 0 .. m
      BY <2>3
    <3> QED BY <3>1 DEF Ran
  <2>5. j # 0
    BY <2>3, <2>4
  <2>6. j - 1 \in 0 .. n /\ j - 1 \notin Bad
    BY <2>2, <2>3, <2>5
  <2>7. one[j - 1] = two[j - 1] /\ more[j] = code[j]
    BY <2>3, <2>5, <2>6 DEF Bad
  <2> QED BY <2>3, <2>4, <2>5, <2>7
<1> QED BY <1>1

(* One more instruction is one more step. *)
LEMMA RunAppend ==
  ASSUME NEW code \in Seq(Instruction), NEW instr \in Instruction
  PROVE  Run(code \o <<instr>>) = Step(Run(code), instr)
<1> DEFINE n == Len(code)
           more == code \o <<instr>>
<1>1. n \in Nat /\ Len(more) = n + 1 /\ more[n + 1] = instr
      /\ \A j \in 1 .. n : more[j] = code[j]
  OBVIOUS
<1> HIDE DEF n, more
<1>2. Ran(code, n, Runs(code)) /\ Ran(more, n + 1, Runs(more))
  <2>1. (\E run : Ran(code, n, run)) /\ (\E run : Ran(more, n + 1, run))
    <3>1. n \in Nat /\ n + 1 \in Nat
      BY <1>1
    <3> QED BY <3>1, RunExists
  <2>2. Len(code) = n
    BY DEF n
  <2> QED BY <1>1, <2>1, <2>2, RunsUnfold
<1>3. \A j \in 0 .. n : Runs(code)[j] = Runs(more)[j]
  BY <1>1, <1>2, RunUnique
<1>4. Runs(more)[n + 1] = Step(Runs(more)[n], instr)
  BY <1>1, <1>2 DEF Ran
<1>5. Runs(code)[n] = Runs(more)[n]
  BY <1>1, <1>3
<1> QED BY <1>1, <1>4, <1>5 DEF Run, n, more

(* Without instructions nothing is done. *)
LEMMA RunEmpty == Run(<<>>) = Blank
<1>1. PICK run : Ran(<<>>, 0, run)
  BY RunExists
<1>2. Ran(<<>>, 0, Runs(<<>>))
  BY <1>1, RunsUnfold
<1> QED BY <1>2 DEF Ran, Run

(* A run of n instructions. *)
IsRun(run, n) ==
  /\ Ordered(run.results, n) /\ Ordered(run.memory, n)
  /\ \E c \in Nat : Ordered(run.calls, c)

(* What a step does, by the operation. *)
LEMMA StepIs ==
  ASSUME NEW run, NEW instr \in Instruction
  PROVE  LET terms  == Terms(run, instr.operands)
             memory == Append(run.memory, Unset)
             new    == Step(run, instr)
         IN  /\ instr.op = "alloca" =>
                  new = Result(run, NoTerm, memory, run.calls, run.returned)
             /\ instr.op = "store" =>
                  new = Result(run, NoTerm, [memory EXCEPT ![instr.operands[2].k] = terms[1]],
                               run.calls, run.returned)
             /\ instr.op = "load" =>
                  new = Result(run, run.memory[instr.operands[1].k], memory,
                               run.calls, run.returned)
             /\ instr.op = "call" =>
                  new = Result(run, Called(Len(run.calls) + 1), memory,
                               Append(run.calls, <<instr.callee, terms>>), run.returned)
             /\ instr.op = "ret" => new = Result(run, NoTerm, memory, run.calls, terms[1])
             /\ instr.op \in {"+", "-", "*", "/"} =>
                  new = Result(run, Apply(instr.op, terms[1], terms[2]), memory,
                               run.calls, run.returned)
<1>1. instr.op \in {"alloca", "store", "load", "call", "ret", "+", "-", "*", "/"}
  BY DEF Instruction
<1> QED BY <1>1, Zenon DEF Step

(* A step gives one more result, and takes none away. *)
LEMMA ResultGrows ==
  ASSUME NEW run, NEW n \in Nat, IsRun(run, n), NEW term,
         NEW memory, Ordered(memory, n + 1), NEW calls, \E c \in Nat : Ordered(calls, c),
         NEW returned
  PROVE  LET new == Result(run, term, memory, calls, returned)
         IN  /\ IsRun(new, n + 1)
             /\ \A o \in 1 .. n : new.results[o] = run.results[o]
             /\ new.results[n + 1] = term /\ new.memory = memory
             /\ new.calls = calls /\ new.returned = returned
<1> DEFINE new == Result(run, term, memory, calls, returned)
<1>1. Ordered(run.results, n)
  BY DEF IsRun
<1>2. /\ Ordered(Append(run.results, term), n + 1)
      /\ Append(run.results, term)[n + 1] = term
      /\ \A o \in 1 .. n : Append(run.results, term)[o] = run.results[o]
  BY <1>1, AppendIs
<1>3. /\ new.results = Append(run.results, term) /\ new.memory = memory
      /\ new.calls = calls /\ new.returned = returned
  BY DEF Result
<1> HIDE DEF new
<1> QED BY <1>2, <1>3 DEF IsRun, new

(* Memory with one more place, and with something stored in it. *)
LEMMA MemoryGrows ==
  ASSUME NEW memory, NEW n \in Nat, Ordered(memory, n), NEW v, NEW place \in 1 .. n
  PROVE  LET more   == Append(memory, Unset)
             stored == [more EXCEPT ![place] = v]
         IN  /\ Ordered(more, n + 1) /\ more[n + 1] = Unset
             /\ \A k \in 1 .. n : more[k] = memory[k]
             /\ Ordered(stored, n + 1) /\ stored[n + 1] = Unset /\ stored[place] = v
             /\ \A k \in 1 .. n : k # place => stored[k] = memory[k]
<1> DEFINE more == Append(memory, Unset)
<1>1. /\ Ordered(more, n + 1) /\ more[n + 1] = Unset
      /\ \A k \in 1 .. n : more[k] = memory[k]
  BY AppendIs
<1> HIDE DEF more
<1>2. more \in [1 .. (n + 1) -> {more[k] : k \in 1 .. (n + 1)}]
  BY <1>1 DEF Ordered
<1> DEFINE stored == [more EXCEPT ![place] = v]
<1>3. stored = [k \in 1 .. (n + 1) |-> IF k = place THEN v ELSE more[k]]
  BY <1>2
<1> HIDE DEF stored
<1>4. Ordered(stored, n + 1)
  BY <1>3 DEF Ordered
<1>5. stored[n + 1] = Unset /\ stored[place] = v
      /\ \A k \in 1 .. n : k # place => stored[k] = memory[k]
  BY <1>1, <1>3
<1> QED BY <1>1, <1>4, <1>5 DEF stored, more

(* A step of a run makes a run. *)
LEMMA StepRuns ==
  ASSUME NEW run, NEW n \in Nat, IsRun(run, n), NEW instr \in Instruction
  PROVE  IsRun(Step(run, instr), n + 1)
<1> DEFINE terms  == Terms(run, instr.operands)
           memory == Append(run.memory, Unset)
           new    == Step(run, instr)
<1>1. Ordered(memory, n + 1)
  BY AppendIs DEF IsRun
<1>2. \A k, v : Ordered([memory EXCEPT ![k] = v], n + 1)
  <2> HIDE DEF memory
  <2> QED BY <1>1 DEF Ordered
<1>3. PICK c \in Nat : Ordered(run.calls, c)
  BY DEF IsRun
<1>4. \A call : Ordered(Append(run.calls, call), c + 1) /\ c + 1 \in Nat
  BY <1>3, AppendIs
<1>5. ASSUME NEW term, NEW mem, Ordered(mem, n + 1), NEW val
      PROVE  IsRun(Result(run, term, mem, run.calls, val), n + 1)
  BY <1>3, <1>5, ResultGrows
<1>6. ASSUME NEW term, NEW call
      PROVE  IsRun(Result(run, term, memory, Append(run.calls, call), run.returned), n + 1)
  <2> HIDE DEF memory
  <2>1. PICK calls : calls = Append(run.calls, call)
    OBVIOUS
  <2>2. \E d \in Nat : Ordered(calls, d)
    BY <1>4, <2>1
  <2>3. IsRun(Result(run, term, memory, calls, run.returned), n + 1)
    BY <1>1, <2>2, ResultGrows
  <2> QED BY <2>1, <2>3
<1>7. instr.op \in {"alloca", "store", "load", "call", "ret", "+", "-", "*", "/"}
  BY DEF Instruction
<1>8. CASE instr.op = "store"
  <2>1. new = Result(run, NoTerm, [memory EXCEPT ![instr.operands[2].k] = terms[1]],
                     run.calls, run.returned)
    BY <1>8, StepIs
  <2> QED BY <1>2, <1>5, <2>1
<1>9. CASE instr.op = "call"
  <2>1. new = Result(run, Called(Len(run.calls) + 1), memory,
                     Append(run.calls, <<instr.callee, terms>>), run.returned)
    BY <1>9, StepIs
  <2> QED BY <1>6, <2>1
<1>10. CASE instr.op \notin {"store", "call"}
  <2>1. \E term, val : new = Result(run, term, memory, run.calls, val)
    <3>1. instr.op = "alloca" => new = Result(run, NoTerm, memory, run.calls, run.returned)
      BY StepIs
    <3>2. instr.op = "load" =>
            new = Result(run, run.memory[instr.operands[1].k], memory, run.calls, run.returned)
      BY StepIs
    <3>3. instr.op = "ret" => new = Result(run, NoTerm, memory, run.calls, terms[1])
      BY StepIs
    <3>4. instr.op \in {"+", "-", "*", "/"} =>
            new = Result(run, Apply(instr.op, terms[1], terms[2]), memory,
                         run.calls, run.returned)
      BY StepIs
    <3> HIDE DEF new, memory, terms
    <3> QED BY <1>7, <1>10, <3>1, <3>2, <3>3, <3>4
  <2> QED BY <1>1, <1>5, <2>1
<1> QED BY <1>8, <1>9, <1>10

(* So any code has a run. *)
LEMMA RunIsRun ==
  ASSUME NEW code \in Seq(Instruction)
  PROVE  IsRun(Run(code), Len(code))
<1> DEFINE n == Len(code)
           run == Runs(code)
           Bad == {m \in 0 .. n : ~IsRun(run[m], m)}
<1>1. n \in Nat /\ \A j \in 1 .. n : code[j] \in Instruction
  OBVIOUS
<1> HIDE DEF n
<1>2. Ran(code, n, run)
  <2>1. \E r : Ran(code, n, r)
    BY <1>1, RunExists
  <2> QED BY <2>1, RunsUnfold DEF n
<1> HIDE DEF run
<1>3. run[0] = Blank /\ \A j \in 1 .. n : run[j] = Step(run[j - 1], code[j])
  BY <1>1, <1>2 DEF Ran
<1>4. Bad = {}
  <2> SUFFICES ASSUME Bad # {} PROVE FALSE
    OBVIOUS
  <2>1. Bad \in SUBSET Nat
    OBVIOUS
  <2> HIDE DEF Bad
  <2>2. PICK m \in Bad : \A y \in Bad : m <= y
    BY <2>1, MinIsLeast
  <2>3. m \in 0 .. n /\ ~IsRun(run[m], m)
    BY DEF Bad
  <2>4. CASE m = 0
    <3>1. Ordered(<<>>, 0)
      BY DEF Ordered
    <3>2. IsRun(Blank, 0)
      BY <3>1 DEF IsRun, Blank
    <3> QED BY <1>3, <2>3, <2>4, <3>2
  <2>5. CASE m # 0
    <3>1. m \in 1 .. n /\ m - 1 \in Nat /\ m - 1 \in 0 .. n /\ m - 1 \notin Bad
      BY <1>1, <2>2, <2>3, <2>5
    <3>2. IsRun(run[m - 1], m - 1)
      BY <3>1 DEF Bad
    <3>3. IsRun(Step(run[m - 1], code[m]), (m - 1) + 1)
      BY <1>1, <3>1, <3>2, StepRuns
    <3>4. (m - 1) + 1 = m
      BY <2>3
    <3> QED BY <1>3, <2>3, <3>1, <3>3, <3>4
  <2> QED BY <2>4, <2>5
<1>5. IsRun(run[n], n)
  BY <1>1, <1>4
<1> QED BY <1>5 DEF Run, run, n

----------------------------------------------------------------------------
(* The course of the source's machine, tick by tick. *)

Coursed(def, n, m) ==
  m = [t \in 0 .. n |-> IF t = 0 THEN Started(def) ELSE Advance(def.body, m[t - 1])]

LEMMA CourseUnfolds ==
  \A def : Course(def) = CHOOSE m : Coursed(def, Ticks(def), m)
BY DEF Course, Coursed

(* The recursion has a solution. *)
LEMMA CourseExists ==
  ASSUME NEW def, NEW n \in Nat
  PROVE  \E m : Coursed(def, n, m)
<1> DEFINE Bad == {k \in Nat : ~ \E m : Coursed(def, k, m)}
<1>1. Bad = {}
  <2> SUFFICES ASSUME Bad # {} PROVE FALSE
    OBVIOUS
  <2>1. Bad \in SUBSET Nat
    OBVIOUS
  <2> HIDE DEF Bad
  <2>2. PICK k \in Bad : \A y \in Bad : k <= y
    BY <2>1, MinIsLeast
  <2>3. k \in Nat /\ ~ \E m : Coursed(def, k, m)
    BY DEF Bad
  <2>4. CASE k = 0
    <3> DEFINE it == [t \in 0 .. 0 |-> Started(def)]
    <3>1. it = [t \in 0 .. 0 |-> IF t = 0 THEN Started(def) ELSE Advance(def.body, it[t - 1])]
      OBVIOUS
    <3>2. Coursed(def, 0, it)
      BY <3>1 DEF Coursed
    <3> QED BY <2>3, <2>4, <3>2
  <2>5. CASE k # 0
    <3>1. k - 1 \in Nat /\ k - 1 \notin Bad
      BY <2>2, <2>3, <2>5
    <3>2. PICK old : Coursed(def, k - 1, old)
      BY <3>1 DEF Bad
    <3> DEFINE it == [t \in 0 .. k |-> IF t = k THEN Advance(def.body, old[k - 1]) ELSE old[t]]
    <3>3. ASSUME NEW t \in 0 .. k
          PROVE  it[t] = IF t = 0 THEN Started(def) ELSE Advance(def.body, it[t - 1])
      <4>1. CASE t = k
        <5>1. it[k] = Advance(def.body, old[k - 1]) /\ it[k - 1] = old[k - 1]
          BY <2>3, <2>5
        <5> HIDE DEF it
        <5> QED BY <2>5, <4>1, <5>1
      <4>2. CASE t # k
        <5>1. t \in 0 .. (k - 1) /\ it[t] = old[t] /\ (t # 0 => it[t - 1] = old[t - 1])
          BY <2>3, <4>2
        <5>2. old[t] = IF t = 0 THEN Started(def) ELSE Advance(def.body, old[t - 1])
          BY <3>2, <5>1 DEF Coursed
        <5> HIDE DEF it
        <5> QED BY <5>1, <5>2
      <4> QED BY <4>1, <4>2
    <3>4. it = [t \in 0 .. k |-> it[t]]
      OBVIOUS
    <3> HIDE DEF it
    <3>5. it = [t \in 0 .. k |-> IF t = 0 THEN Started(def) ELSE Advance(def.body, it[t - 1])]
      BY <3>3, <3>4
    <3> QED BY <2>3, <3>5 DEF Coursed
  <2> QED BY <2>4, <2>5
<1> QED BY <1>1

(* The course starts at the start and advances from tick to tick. *)
LEMMA CourseIs ==
  ASSUME NEW def, def.body \in Seq(Node)
  PROVE  /\ Ticks(def) \in Nat
         /\ Course(def)[0] = Started(def)
         /\ \A t \in 0 .. (Ticks(def) - 1) :
              Course(def)[t + 1] = Advance(def.body, Course(def)[t])
<1>1. Ticks(def) \in Nat
  BY DEF Ticks
<1>2. Coursed(def, Ticks(def), Course(def))
  <2>1. \E m : Coursed(def, Ticks(def), m)
    BY <1>1, CourseExists
  <2> QED BY <2>1, CourseUnfolds
<1> DEFINE n == Ticks(def)
           m == Course(def)
<1> HIDE DEF n, m
<1>3. m = [t \in 0 .. n |-> IF t = 0 THEN Started(def) ELSE Advance(def.body, m[t - 1])]
  BY <1>2 DEF Coursed, n, m
<1>4. n \in Nat
  BY <1>1 DEF n
<1>5. m[0] = Started(def)
  BY <1>3, <1>4
<1>6. ASSUME NEW t \in 0 .. (n - 1)
      PROVE  m[t + 1] = Advance(def.body, m[t])
  <2>1. t + 1 \in 0 .. n /\ t + 1 # 0 /\ (t + 1) - 1 = t
    BY <1>4
  <2> QED BY <1>3, <2>1
<1> QED BY <1>4, <1>5, <1>6 DEF n, m

(* Where it rests it stays to the end. *)
LEMMA CourseRests ==
  ASSUME NEW def, def.body \in Seq(Node), NEW t \in 0 .. Ticks(def),
         Advance(def.body, Course(def)[t]) = Course(def)[t]
  PROVE  SourceRun(def) = Course(def)[t]
<1> DEFINE n == Ticks(def)
           m == Course(def)
           Bad == {u \in t .. n : m[u] # m[t]}
<1>1. n \in Nat /\ \A u \in 0 .. (n - 1) : m[u + 1] = Advance(def.body, m[u])
  BY CourseIs
<1> HIDE DEF n, m
<1>2. t \in 0 .. n /\ Advance(def.body, m[t]) = m[t]
  BY DEF n, m
<1>3. Bad = {}
  <2> SUFFICES ASSUME Bad # {} PROVE FALSE
    OBVIOUS
  <2>1. Bad \in SUBSET Nat
    BY <1>2
  <2> HIDE DEF Bad
  <2>2. PICK u \in Bad : \A y \in Bad : u <= y
    BY <2>1, MinIsLeast
  <2>3. u \in t .. n /\ m[u] # m[t]
    BY DEF Bad
  <2>4. u # t
    BY <2>3
  <2>5. u - 1 \in t .. n /\ u - 1 \notin Bad
    BY <1>1, <1>2, <2>2, <2>3, <2>4
  <2>6. m[u - 1] = m[t]
    BY <2>5 DEF Bad
  <2>7. u - 1 \in 0 .. (n - 1) /\ (u - 1) + 1 = u
    BY <1>1, <1>2, <2>3, <2>4
  <2>8. m[u] = Advance(def.body, m[u - 1])
    BY <1>1, <2>7
  <2> QED BY <1>2, <2>3, <2>6, <2>8
<1>4. n \in t .. n
  BY <1>1, <1>2
<1>5. m[n] = m[t]
  BY <1>3, <1>4
<1> QED BY <1>5 DEF SourceRun, n, m

----------------------------------------------------------------------------
(* The stack of the generator as the stack of the machine. *)

LEMMA OrderedEqual ==
  ASSUME NEW n \in Nat, NEW f, Ordered(f, n), NEW g, Ordered(g, n),
         \A o \in 1 .. n : f[o] = g[o]
  PROVE  f = g
BY DEF Ordered

(* All but the last. *)
LEMMA FrontIs ==
  ASSUME NEW n \in Nat, NEW f, Ordered(f, n + 1)
  PROVE  Ordered(Front(f), n) /\ \A o \in 1 .. n : Front(f)[o] = f[o]
<1> DEFINE S == {f[o] : o \in 1 .. (n + 1)}
           g == SubSeq(f, 1, n)
<1>1. f \in Seq(S) /\ Len(f) = n + 1
  BY OrderedIs
<1> HIDE DEF S
<1>2. g \in Seq(S) /\ Len(g) = n /\ \A o \in 1 .. n : g[o] = f[o]
  BY <1>1
<1>3. Front(f) = g
  BY <1>1 DEF Front
<1> HIDE DEF g
<1>4. Ordered(g, n)
  BY <1>2, SeqIsOrdered
<1> QED BY <1>2, <1>3, <1>4

(* What waits on the stack is as much as the generator has there. *)
LEMMA AwaitingIs ==
  ASSUME NEW body, NEW run, NEW frame \in Frame
  PROVE  LET l == Len(frame.operands)
             w == Awaiting(body, run, frame)
         IN  /\ l \in Nat /\ Ordered(w.vals, l) /\ Len(w.vals) = l /\ w.node = frame.node
             /\ \A o \in 1 .. l :
                  w.vals[o] = IF IsAssignment(body[frame.node]) /\ o = 1
                              THEN Variable(body[frame.node + 1].name)
                              ELSE TermOf(run, frame.operands[o])
             /\ w = [node |-> frame.node, vals |-> w.vals]
<1> DEFINE l == Len(frame.operands)
           w == Awaiting(body, run, frame)
           vals == [o \in 1 .. l |-> IF IsAssignment(body[frame.node]) /\ o = 1
                                     THEN Variable(body[frame.node + 1].name)
                                     ELSE TermOf(run, frame.operands[o])]
<1>1. l \in Nat /\ DOMAIN frame.operands = 1 .. l
  <2>1. frame.operands \in Seq(Value)
    BY DEF Frame
  <2> QED BY <2>1
<1>2. w = [node |-> frame.node, vals |-> vals]
  BY <1>1 DEF Awaiting
<1> HIDE DEF l, w
<1>3. Ordered(vals, l) /\ \A o \in 1 .. l :
        vals[o] = IF IsAssignment(body[frame.node]) /\ o = 1
                  THEN Variable(body[frame.node + 1].name)
                  ELSE TermOf(run, frame.operands[o])
  BY DEF Ordered
<1> HIDE DEF vals
<1>4. Len(vals) = l
  BY <1>1, <1>3, OrderedIs
<1> QED BY <1>1, <1>2, <1>3, <1>4 DEF l, w

LEMMA StackIs ==
  ASSUME NEW body, NEW run, NEW stack \in Seq(Frame)
  PROVE  LET s == Stack(body, run, stack)
             l == Len(stack)
         IN  /\ l \in Nat /\ Ordered(s, l) /\ Len(s) = l
             /\ s = <<>> <=> stack = <<>>
             /\ \A j \in 1 .. l : s[j] = Awaiting(body, run, stack[j])
<1> DEFINE l == Len(stack)
           s == [j \in 1 .. l |-> Awaiting(body, run, stack[j])]
<1>1. l \in Nat /\ DOMAIN stack = 1 .. l /\ (stack = <<>> <=> l = 0)
  OBVIOUS
<1>2. Stack(body, run, stack) = s
  BY <1>1 DEF Stack
<1> HIDE DEF l
<1>3. Ordered(s, l) /\ \A j \in 1 .. l : s[j] = Awaiting(body, run, stack[j])
  BY DEF Ordered
<1> HIDE DEF s
<1>4. Len(s) = l
  BY <1>1, <1>3, OrderedIs
<1>5. s = <<>> <=> l = 0
  <2>1. ASSUME l = 0 PROVE s = <<>>
    <3>1. Ordered(<<>>, 0)
      BY DEF Ordered
    <3> QED BY <1>3, <2>1, <3>1, OrderedEqual
  <2>2. ASSUME s = <<>> PROVE l = 0
    BY <1>4, <2>2
  <2> QED BY <2>1, <2>2
<1> QED BY <1>1, <1>2, <1>3, <1>4, <1>5 DEF l

(* The operands of a stack have been made by code of n instructions. *)
AllMade(stack, n) ==
  \A j \in DOMAIN stack : \A o \in DOMAIN stack[j].operands :
    stack[j].operands[o].kind \in {"alloca", "result"} => stack[j].operands[o].k \in 1 .. n

(* The first n results, and the first n places of memory, are as before. *)
ResultsKept(run, more, n) == \A o \in 1 .. n : more.results[o] = run.results[o]
MemoryKept(run, more, n)  == \A o \in 1 .. n : more.memory[o] = run.memory[o]

(* As long as results are kept they mean what they meant. *)
LEMMA StackKept ==
  ASSUME NEW body, NEW stack \in Seq(Frame), NEW n \in Nat, AllMade(stack, n),
         NEW run, NEW more, ResultsKept(run, more, n)
  PROVE  Stack(body, more, stack) = Stack(body, run, stack)
<1>1. ASSUME NEW v \in Value, v.kind \in {"alloca", "result"} => v.k \in 1 .. n
      PROVE  TermOf(more, v) = TermOf(run, v)
  <2>1. v.kind \in {"argument", "alloca", "result", "constant", "undef"}
    BY DEF Value
  <2> QED BY <1>1, <2>1 DEF TermOf, ResultsKept
<1>2. ASSUME NEW j \in DOMAIN stack
      PROVE  Awaiting(body, more, stack[j]) = Awaiting(body, run, stack[j])
  <2>1. stack[j].operands \in Seq(Value)
    <3>1. stack[j] \in Frame
      OBVIOUS
    <3>2. \A fr \in Frame : fr.operands \in Seq(Value)
      BY DEF Frame
    <3> QED BY <3>1, <3>2
  <2>2. \A o \in DOMAIN stack[j].operands :
          TermOf(more, stack[j].operands[o]) = TermOf(run, stack[j].operands[o])
    BY <1>1, <2>1 DEF AllMade
  <2> QED BY <2>2 DEF Awaiting
<1> QED BY <1>2 DEF Stack

(* A value delivered is a value yielded. *)
LEMMA StackYields ==
  ASSUME NEW body, NEW run, NEW stack \in Seq(Frame), NEW v \in Value,
         stack # <<>> => \/ ~IsAssignment(body[stack[Len(stack)].node])
                         \/ stack[Len(stack)].operands # <<>>
  PROVE  Stack(body, run, Deliver(stack, v)) = Yield(Stack(body, run, stack), TermOf(run, v))
<1> DEFINE s    == Stack(body, run, stack)
           new  == Deliver(stack, v)
           l    == Len(stack)
           term == TermOf(run, v)
<1>1. /\ l \in Nat /\ Ordered(s, l) /\ Len(s) = l /\ (s = <<>> <=> stack = <<>>)
      /\ \A j \in 1 .. l : s[j] = Awaiting(body, run, stack[j])
  BY StackIs
<1>2. CASE stack = <<>>
  <2>1. new = <<>> /\ <<>> \in Seq(Frame)
    BY <1>2 DEF Deliver
  <2>2. Stack(body, run, new) = <<>>
    BY <2>1, StackIs
  <2>3. Yield(s, term) = <<>>
    BY <1>1, <1>2 DEF Yield
  <2> QED BY <2>2, <2>3
<1>3. CASE stack # <<>>
  <2>1. /\ new \in Seq(Frame) /\ Len(new) = l /\ DOMAIN new = DOMAIN stack
        /\ l \in DOMAIN stack
        /\ \A j \in DOMAIN stack : j # l => new[j] = stack[j]
        /\ new[l].operands = Append(stack[l].operands, v) /\ new[l].node = stack[l].node
        /\ stack[l].operands \in Seq(Value)
    BY <1>3, DeliverIs
  <2> HIDE DEF new
  <2>2. DOMAIN stack = 1 .. l /\ stack[l] \in Frame /\ new[l] \in Frame
    BY <2>1
  <2>3. /\ Ordered(Stack(body, run, new), l)
        /\ \A j \in 1 .. l : Stack(body, run, new)[j] = Awaiting(body, run, new[j])
    BY <2>1, StackIs
  <2> DEFINE w == Awaiting(body, run, stack[l])
             u == Awaiting(body, run, new[l])
             m == Len(stack[l].operands)
  <2>4. /\ m \in Nat /\ Ordered(w.vals, m) /\ w.node = stack[l].node
        /\ \A o \in 1 .. m :
             w.vals[o] = IF IsAssignment(body[stack[l].node]) /\ o = 1
                         THEN Variable(body[stack[l].node + 1].name)
                         ELSE TermOf(run, stack[l].operands[o])
        /\ w = [node |-> stack[l].node, vals |-> w.vals]
    BY <2>2, AwaitingIs
  <2>5. Len(new[l].operands) = m + 1 /\ new[l].operands[m + 1] = v
        /\ \A o \in 1 .. m : new[l].operands[o] = stack[l].operands[o]
    BY <2>1
  <2>6. /\ Ordered(u.vals, m + 1) /\ u.node = stack[l].node
        /\ \A o \in 1 .. (m + 1) :
             u.vals[o] = IF IsAssignment(body[stack[l].node]) /\ o = 1
                         THEN Variable(body[stack[l].node + 1].name)
                         ELSE TermOf(run, new[l].operands[o])
        /\ u = [node |-> stack[l].node, vals |-> u.vals]
    BY <2>1, <2>2, <2>5, AwaitingIs
  <2>7. IsAssignment(body[stack[l].node]) => m # 0
    BY <1>3, <2>1
  <2> HIDE DEF w, u, m, s, l, term
  <2>8. u.vals = Append(w.vals, term)
    <3>1. /\ Ordered(Append(w.vals, term), m + 1)
          /\ Append(w.vals, term)[m + 1] = term
          /\ \A o \in 1 .. m : Append(w.vals, term)[o] = w.vals[o]
      BY <2>4, AppendIs
    <3>2. ASSUME NEW o \in 1 .. (m + 1) PROVE u.vals[o] = Append(w.vals, term)[o]
      <4>1. CASE o = m + 1
        <5>1. ~(IsAssignment(body[stack[l].node]) /\ o = 1)
          BY <2>4, <2>7, <4>1
        <5> QED BY <2>5, <2>6, <3>1, <4>1, <5>1 DEF term
      <4>2. CASE o # m + 1
        <5>1. o \in 1 .. m
          BY <2>4, <4>2
        <5>2. Append(w.vals, term)[o] = w.vals[o] /\ new[l].operands[o] = stack[l].operands[o]
          BY <2>5, <3>1, <5>1
        <5>3. w.vals[o] = IF IsAssignment(body[stack[l].node]) /\ o = 1
                          THEN Variable(body[stack[l].node + 1].name)
                          ELSE TermOf(run, stack[l].operands[o])
          BY <2>4, <5>1
        <5>4. u.vals[o] = IF IsAssignment(body[stack[l].node]) /\ o = 1
                          THEN Variable(body[stack[l].node + 1].name)
                          ELSE TermOf(run, new[l].operands[o])
          BY <2>6
        <5> QED BY <5>2, <5>3, <5>4
      <4> QED BY <4>1, <4>2
    <3>3. m + 1 \in Nat
      BY <2>4
    <3> QED BY <2>6, <3>1, <3>2, <3>3, OrderedEqual
  <2>9. u = [w EXCEPT !.vals = Append(@, term)]
    <3>1. PICK a, b : a = stack[l].node /\ b = w.vals
      OBVIOUS
    <3>2. w = [node |-> a, vals |-> b]
      BY <2>4, <3>1
    <3>3. PICK t : t = Append(b, term)
      OBVIOUS
    <3>4. [w EXCEPT !.vals = Append(@, term)] = [node |-> a, vals |-> t]
      <4>1. w.vals = b
        BY <3>1
      <4>2. [w EXCEPT !.vals = Append(@, term)] = [w EXCEPT !.vals = t]
        BY <3>3, <4>1, Zenon
      <4>3. [w EXCEPT !.vals = t] = [node |-> a, vals |-> t]
        BY <3>2
      <4> QED BY <4>2, <4>3
    <3> QED BY <2>6, <2>8, <3>1, <3>3, <3>4
  <2>10. s[l] = w
    BY <1>1, <2>1, <2>2 DEF w
  <2>11. Yield(s, term) = [j \in 1 .. l |-> IF j = l THEN u ELSE s[j]]
    <3>1. s # <<>> /\ Len(s) = l /\ DOMAIN s = 1 .. l
      BY <1>1, <1>3, OrderedIs
    <3>2. Yield(s, term) = [s EXCEPT ![l].vals = Append(@, term)]
      BY <3>1 DEF Yield
    <3>3. [s EXCEPT ![l].vals = Append(@, term)] =
            [j \in 1 .. l |-> IF j = l THEN [s[l] EXCEPT !.vals = Append(@, term)] ELSE s[j]]
      BY <1>1, <3>1
    <3> QED BY <2>9, <2>10, <3>2, <3>3
  <2>12. Ordered(Yield(s, term), l) /\ \A j \in 1 .. l : Yield(s, term)[j] = IF j = l THEN u ELSE s[j]
    BY <2>11 DEF Ordered
  <2>13. \A j \in 1 .. l : Stack(body, run, new)[j] = Yield(s, term)[j]
    BY <1>1, <2>1, <2>2, <2>3, <2>12 DEF u
  <2> QED BY <1>1, <2>3, <2>12, <2>13, OrderedEqual DEF s, new, term
<1> QED BY <1>2, <1>3

(* An expression begun is one opened. *)
LEMMA StackOpens ==
  ASSUME NEW body, NEW run, NEW stack \in Seq(Frame), NEW frame \in Frame
  PROVE  Stack(body, run, Append(stack, frame)) =
           Append(Stack(body, run, stack), Awaiting(body, run, frame))
<1> DEFINE s   == Stack(body, run, stack)
           new == Append(stack, frame)
           l   == Len(stack)
           w   == Awaiting(body, run, frame)
<1>1. /\ l \in Nat /\ Ordered(s, l)
      /\ \A j \in 1 .. l : s[j] = Awaiting(body, run, stack[j])
  BY StackIs
<1>2. /\ new \in Seq(Frame) /\ Len(new) = l + 1 /\ new[l + 1] = frame
      /\ \A j \in 1 .. l : new[j] = stack[j]
  OBVIOUS
<1> HIDE DEF new
<1>3. /\ Ordered(Stack(body, run, new), l + 1)
      /\ \A j \in 1 .. (l + 1) : Stack(body, run, new)[j] = Awaiting(body, run, new[j])
  BY <1>2, StackIs
<1> HIDE DEF s, l
<1>4. /\ Ordered(Append(s, w), l + 1) /\ Append(s, w)[l + 1] = w
      /\ \A j \in 1 .. l : Append(s, w)[j] = s[j]
  BY <1>1, AppendIs
<1>5. ASSUME NEW j \in 1 .. (l + 1) PROVE Stack(body, run, new)[j] = Append(s, w)[j]
  <2>1. CASE j = l + 1
    BY <1>2, <1>3, <1>4, <2>1
  <2>2. CASE j # l + 1
    <3>1. j \in 1 .. l
      BY <1>1, <2>2
    <3> QED BY <1>1, <1>2, <1>3, <1>4, <3>1
  <2> QED BY <2>1, <2>2
<1>6. l + 1 \in Nat
  BY <1>1
<1> QED BY <1>3, <1>4, <1>5, <1>6, OrderedEqual DEF new, s

(* An expression done leaves what was below it. *)
LEMMA StackCloses ==
  ASSUME NEW body, NEW run, NEW stack \in Seq(Frame), stack # <<>>
  PROVE  Front(Stack(body, run, stack)) = Stack(body, run, Front(stack))
<1> DEFINE s   == Stack(body, run, stack)
           new == Front(stack)
           l   == Len(stack)
<1>1. /\ l \in Nat /\ Ordered(s, l) /\ l # 0
      /\ \A j \in 1 .. l : s[j] = Awaiting(body, run, stack[j])
  BY StackIs
<1>2. /\ new \in Seq(Frame) /\ Len(new) = l - 1
      /\ \A j \in DOMAIN new : new[j] = stack[j]
  BY FrontOfStack
<1> HIDE DEF new
<1>3. PICK n \in Nat : n = l - 1 /\ l = n + 1
  BY <1>1
<1>4. DOMAIN new = 1 .. n
  BY <1>2, <1>3
<1>5. /\ Ordered(Stack(body, run, new), n)
      /\ \A j \in 1 .. n : Stack(body, run, new)[j] = Awaiting(body, run, new[j])
  BY <1>2, <1>3, StackIs
<1>6. Ordered(Front(s), n) /\ \A o \in 1 .. n : Front(s)[o] = s[o]
  BY <1>1, <1>3, FrontIs
<1>7. \A j \in 1 .. n : j \in 1 .. l
  BY <1>3
<1> HIDE DEF s, l
<1>8. \A j \in 1 .. n : Front(s)[j] = Stack(body, run, new)[j]
  BY <1>1, <1>2, <1>4, <1>5, <1>6, <1>7
<1> QED BY <1>5, <1>6, <1>8, OrderedEqual DEF new, s

(* The operands stay made on all these ways. *)
LEMMA MadeDelivered ==
  ASSUME NEW stack \in Seq(Frame), NEW n \in Nat, AllMade(stack, n), NEW m \in Nat, n <= m,
         NEW v \in Value, v.kind \in {"alloca", "result"} => v.k \in 1 .. m
  PROVE  AllMade(Deliver(stack, v), m)
<1>1. \A k : k \in 1 .. n => k \in 1 .. m
  OBVIOUS
<1>2. CASE stack = <<>>
  BY <1>2 DEF Deliver, AllMade
<1>3. CASE stack # <<>>
  <2> DEFINE new == Deliver(stack, v)
             l   == Len(stack)
  <2>1. /\ DOMAIN new = DOMAIN stack /\ l \in DOMAIN stack
        /\ \A j \in DOMAIN stack : j # l => new[j] = stack[j]
        /\ new[l].operands = Append(stack[l].operands, v)
        /\ stack[l].operands \in Seq(Value)
    BY <1>3, DeliverIs
  <2> HIDE DEF new
  <2>2. \A o \in DOMAIN new[l].operands :
          \/ new[l].operands[o] = v
          \/ o \in DOMAIN stack[l].operands /\ new[l].operands[o] = stack[l].operands[o]
    BY <2>1
  <2> HIDE DEF l
  <2>3. AllMade(new, m)
    BY <1>1, <2>1, <2>2 DEF AllMade
  <2> QED BY <2>3 DEF new
<1> QED BY <1>2, <1>3

LEMMA MadePushed ==
  ASSUME NEW stack \in Seq(Frame), NEW n \in Nat, AllMade(stack, n), NEW frame \in Frame,
         \A o \in DOMAIN frame.operands :
           frame.operands[o].kind \in {"alloca", "result"} => frame.operands[o].k \in 1 .. n
  PROVE  AllMade(Append(stack, frame), n)
<1> DEFINE new == Append(stack, frame)
<1>1. \A j \in DOMAIN new :
        new[j] = frame \/ (j \in DOMAIN stack /\ new[j] = stack[j])
  OBVIOUS
<1> HIDE DEF new
<1>2. AllMade(new, n)
  BY <1>1 DEF AllMade
<1> QED BY <1>2 DEF new

LEMMA MadePopped ==
  ASSUME NEW stack \in Seq(Frame), stack # <<>>, NEW n \in Nat, AllMade(stack, n)
  PROVE  AllMade(Front(stack), n)
BY FrontOfStack DEF AllMade

LEMMA MadeIs ==
  ASSUME NEW n, n = Len(CurrentCode)
  PROVE  OperandsMade <=> AllMade(frames, n)
BY DEF OperandsMade, AllMade, IsMade

----------------------------------------------------------------------------
(* The machine's two kinds of tick. *)

(* One more of a sequence (as an operator of its own, for the provers take  *)
(* an equation with Append apart).                                          *)
More(f, v) == Append(f, v)

Record(n, s, e, c, r, d) ==
  [next |-> n, stack |-> s, env |-> e, calls |-> c, returned |-> r, defined |-> d]

Machine(n, s, e, c, r) == Record(n, s, e, c, r, TRUE)

(* What a tick changes of it. *)
WithNext(m, n)     == [m EXCEPT !.next = n]
WithStack(m, s)    == [m EXCEPT !.stack = s]
WithEnv(m, e)      == [m EXCEPT !.env = e]
WithCalls(m, c)    == [m EXCEPT !.calls = c]
WithReturned(m, r) == [m EXCEPT !.returned = r]
Undefined(m)       == [m EXCEPT !.defined = FALSE]

LEMMA RecordIs ==
  ASSUME NEW n, NEW s, NEW e, NEW c, NEW r, NEW d, NEW x
  PROVE  /\ WithNext(Record(n, s, e, c, r, d), x) = Record(x, s, e, c, r, d)
         /\ WithStack(Record(n, s, e, c, r, d), x) = Record(n, x, e, c, r, d)
         /\ WithEnv(Record(n, s, e, c, r, d), x) = Record(n, s, x, c, r, d)
         /\ WithCalls(Record(n, s, e, c, r, d), x) = Record(n, s, e, x, r, d)
         /\ WithReturned(Record(n, s, e, c, r, d), x) = Record(n, s, e, c, x, d)
BY DEF Record, WithNext, WithStack, WithEnv, WithCalls, WithReturned

LEMMA MachineChanges ==
  ASSUME NEW n, NEW s, NEW e, NEW c, NEW r, NEW x
  PROVE  /\ WithNext(Machine(n, s, e, c, r), x) = Machine(x, s, e, c, r)
         /\ WithStack(Machine(n, s, e, c, r), x) = Machine(n, x, e, c, r)
         /\ WithEnv(Machine(n, s, e, c, r), x) = Machine(n, s, x, c, r)
         /\ WithCalls(Machine(n, s, e, c, r), x) = Machine(n, s, e, x, r)
         /\ WithReturned(Machine(n, s, e, c, r), x) = Machine(n, s, e, c, x)
<1>1. PICK d : d = TRUE
  OBVIOUS
<1>2. \A n2, s2, e2, c2, r2 : Machine(n2, s2, e2, c2, r2) = Record(n2, s2, e2, c2, r2, d)
  BY <1>1, Zenon DEF Machine
<1> QED BY <1>2, RecordIs

LEMMA MachineFields ==
  ASSUME NEW n, NEW s, NEW e, NEW c, NEW r
  PROVE  LET m == Machine(n, s, e, c, r)
         IN  /\ m.next = n /\ m.stack = s /\ m.env = e /\ m.calls = c /\ m.returned = r
             /\ m.defined
             /\ ~Undefined(m).defined
BY DEF Machine, Record, Undefined

(* The kinds of nodes, once more. *)
LEMMA OneKind ==
  ASSUME NEW n \in Node
  PROVE  /\ n \in Number => n \notin Ident /\ n \notin Call \cup Jump \cup Binary
         /\ n \in Ident => n \notin Number /\ n \notin Call \cup Jump \cup Binary
         /\ n \in Call => n \notin Number /\ n \notin Ident /\ n \notin Jump /\ n \notin Binary
         /\ n \in Jump => n \notin Number /\ n \notin Ident /\ n \notin Call /\ n \notin Binary
         /\ n \in Binary => n \notin Number /\ n \notin Ident /\ n \notin Call /\ n \notin Jump
         /\ IsAssignment(n) <=> n \in Binary /\ n.op = "="
BY DEF Number, Ident, Call, Binary, Jump, IsAssignment

(* An expression on top of the stack. *)
Opened(s, n, vals) == Append(s, [node |-> n, vals |-> vals])

(* What an assignment has of its values when it is opened. *)
Target(body, n) == <<Variable(body[n + 1].name)>>

(* A machine that does not wait takes the next node: a value is yielded, *)
LEMMA TakesNumber ==
  ASSUME NEW body, Len(body) \in Nat, NEW n \in Nat, n <= Len(body), body[n] \in Node,
         NEW s, NEW e, NEW c, NEW r, NEW m, m = Machine(n, s, e, c, r), ~Ready(body, m),
         body[n] \in Number
  PROVE  Advance(body, m) = Machine(n + 1, Yield(s, Num(body[n].value)), e, c, r)
<1>1. m.next = n /\ m.stack = s /\ m.env = e /\ m.defined
  BY MachineFields
<1>2. Advance(body, m) = Take(body, m)
  BY <1>1 DEF Advance
<1>3. ~IsAssignment(body[n]) /\ body[n] \notin Ident /\ body[n] \notin Call \cup Jump \cup Binary
  BY OneKind DEF IsAssignment
<1>4. Advance(body, m) = WithStack(WithNext(m, n + 1), Yield(s, Num(body[n].value)))
  BY <1>1, <1>2, <1>3 DEF Take, WithStack, WithNext
<1> QED BY <1>4, MachineChanges

(* and so is what a variable holds, *)
LEMMA TakesIdentifier ==
  ASSUME NEW body, Len(body) \in Nat, NEW n \in Nat, n <= Len(body), body[n] \in Node,
         NEW s, NEW e, NEW c, NEW r, NEW m, m = Machine(n, s, e, c, r), ~Ready(body, m),
         body[n] \in Ident
  PROVE  Advance(body, m) = Machine(n + 1, Yield(s, e[body[n].name]), e, c, r)
<1>1. m.next = n /\ m.stack = s /\ m.env = e /\ m.defined
  BY MachineFields
<1>2. Advance(body, m) = Take(body, m)
  BY <1>1 DEF Advance
<1>3. ~IsAssignment(body[n]) /\ body[n] \notin Number /\ body[n] \notin Call \cup Jump \cup Binary
  BY OneKind DEF IsAssignment
<1>4. Advance(body, m) = WithStack(WithNext(m, n + 1), Yield(s, e[body[n].name]))
  BY <1>1, <1>2, <1>3 DEF Take, WithStack, WithNext
<1> QED BY <1>4, MachineChanges

(* an expression is opened, *)
LEMMA TakesExpression ==
  ASSUME NEW body, Len(body) \in Nat, NEW n \in Nat, n <= Len(body), body[n] \in Node,
         NEW s, NEW e, NEW c, NEW r, NEW m, m = Machine(n, s, e, c, r), ~Ready(body, m),
         body[n] \in Call \cup Jump \cup Binary, ~IsAssignment(body[n])
  PROVE  Advance(body, m) = Machine(n + 1, Opened(s, n, <<>>), e, c, r)
<1>1. m.next = n /\ m.stack = s /\ m.env = e /\ m.defined
  BY MachineFields
<1>2. Advance(body, m) = Take(body, m)
  BY <1>1 DEF Advance
<1>3. body[n] \notin Number /\ body[n] \notin Ident
  BY OneKind
<1>4. Advance(body, m) = WithStack(WithNext(m, n + 1), Opened(s, n, <<>>))
  BY <1>1, <1>2, <1>3 DEF Take, WithStack, WithNext, Opened
<1> QED BY <1>4, MachineChanges

(* and an assignment together with its target. *)
LEMMA TakesAssignment ==
  ASSUME NEW body, Len(body) \in Nat, NEW n \in Nat, n <= Len(body), body[n] \in Node,
         NEW s, NEW e, NEW c, NEW r, NEW m, m = Machine(n, s, e, c, r), ~Ready(body, m),
         IsAssignment(body[n])
  PROVE  Advance(body, m) = Machine(n + 2, Opened(s, n, Target(body, n)), e, c, r)
<1>1. m.next = n /\ m.stack = s /\ m.env = e /\ m.defined
  BY MachineFields
<1>2. Advance(body, m) = Take(body, m)
  BY <1>1 DEF Advance
<1>3. body[n] \in Binary
  BY OneKind DEF IsAssignment
<1>4. Advance(body, m) = WithStack(WithNext(m, n + 2), Opened(s, n, Target(body, n)))
  BY <1>1, <1>2, <1>3 DEF Take, WithStack, WithNext, Opened, Target
<1> QED BY <1>4, MachineChanges

(* One that is ready concludes its innermost expression: a return, *)
LEMMA ConcludesReturn ==
  ASSUME NEW body, NEW n, NEW s, NEW e, NEW c, NEW r, NEW m, m = Machine(n, s, e, c, r),
         Ready(body, m), NEW at, NEW vals, at = Innermost(m).node, vals = Innermost(m).vals,
         NEW nd \in Node, nd = body[at],
         nd \in Jump
  PROVE  Advance(body, m) = Machine(n, Front(s), e, c, vals[1])
<1>1. /\ m.next = n /\ m.stack = s /\ m.env = e /\ m.calls = c /\ m.defined
      /\ ~Undefined(m).defined
  BY MachineFields
<1>2. Advance(body, m) = Conclude(body, m)
  BY <1>1 DEF Advance
<1>3. nd \notin Call /\ nd \notin Binary /\ ~IsAssignment(nd)
  BY OneKind
<1>4. Advance(body, m) = WithReturned(WithStack(m, Front(s)), vals[1])
  BY <1>1, <1>2, <1>3 DEF Conclude, WithStack, WithReturned
<1> QED BY <1>4, MachineChanges

(* a call, *)
LEMMA ConcludesCall ==
  ASSUME NEW body, NEW n, NEW s, NEW e, NEW c, NEW r, NEW m, m = Machine(n, s, e, c, r),
         Ready(body, m), NEW at, NEW vals, at = Innermost(m).node, vals = Innermost(m).vals,
         NEW nd \in Node, nd = body[at],
         nd \in Call
  PROVE  Advance(body, m) = Machine(n, Yield(Front(s), Called(Len(c) + 1)), e,
                                      More(c, <<nd.name, vals>>), r)
<1>1. /\ m.next = n /\ m.stack = s /\ m.env = e /\ m.calls = c /\ m.defined
      /\ ~Undefined(m).defined
  BY MachineFields
<1>2. Advance(body, m) = Conclude(body, m)
  BY <1>1 DEF Advance
<1>3. nd \notin Jump /\ nd \notin Binary /\ ~IsAssignment(nd)
  BY OneKind
<1>4. Advance(body, m) = WithCalls(WithStack(m, Yield(Front(s), Called(Len(c) + 1))),
                                   More(c, <<nd.name, vals>>))
  BY <1>1, <1>2, <1>3 DEF Conclude, WithStack, WithCalls, More
<1> QED BY <1>4, MachineChanges

(* an assignment, *)
LEMMA ConcludesAssignment ==
  ASSUME NEW body, NEW n, NEW s, NEW e, NEW c, NEW r, NEW m, m = Machine(n, s, e, c, r),
         Ready(body, m), NEW at, NEW vals, at = Innermost(m).node, vals = Innermost(m).vals,
         NEW nd \in Node, nd = body[at],
         IsAssignment(nd)
  PROVE  Advance(body, m) = Machine(n, Yield(Front(s), vals[2]),
                                      [e EXCEPT ![body[at + 1].name] = vals[2]], c, r)
<1>1. /\ m.next = n /\ m.stack = s /\ m.env = e /\ m.calls = c /\ m.defined
      /\ ~Undefined(m).defined
  BY MachineFields
<1>2. Advance(body, m) = Conclude(body, m)
  BY <1>1 DEF Advance
<1>3. nd \notin Jump /\ nd \notin Call /\ nd \in Binary /\ nd.op = "="
  BY OneKind
<1>4. PICK y, s2, v : y = body[at + 1].name /\ s2 = Yield(Front(s), vals[2]) /\ v = vals[2]
  OBVIOUS
<1>5. Conclude(body, m) = [m EXCEPT !.stack = s2, !.env[y] = v]
  BY <1>1, <1>3, <1>4 DEF Conclude
<1>6. [m EXCEPT !.stack = s2, !.env[y] = v] = WithEnv(WithStack(m, s2), [e EXCEPT ![y] = v])
  <2>1. WithStack(m, s2).env = e
    BY MachineChanges, MachineFields
  <2>2. [m EXCEPT !.stack = s2].env = e
    BY <2>1 DEF WithStack
  <2> QED BY <2>2, Zenon DEF WithEnv, WithStack
<1>7. Advance(body, m) = WithEnv(WithStack(m, s2), [e EXCEPT ![y] = v])
  BY <1>2, <1>5, <1>6, Zenon
<1>8. Advance(body, m) = Machine(n, s2, [e EXCEPT ![y] = v], c, r)
  BY <1>7, MachineChanges
<1> QED BY <1>4, <1>8

(* or an operation, where it has a value. *)
LEMMA ConcludesBinary ==
  ASSUME NEW body, NEW n, NEW s, NEW e, NEW c, NEW r, NEW m, m = Machine(n, s, e, c, r),
         Ready(body, m), NEW at, NEW vals, at = Innermost(m).node, vals = Innermost(m).vals,
         NEW nd \in Node, nd = body[at],
         nd \in Binary, nd.op # "=", NEW term, term = Apply(nd.op, vals[1], vals[2])
  PROVE  /\ term # NoTerm => Advance(body, m) = Machine(n, Yield(Front(s), term), e, c, r)
         /\ term = NoTerm => ~Advance(body, m).defined
<1>1. /\ m.next = n /\ m.stack = s /\ m.env = e /\ m.calls = c /\ m.defined
      /\ ~Undefined(m).defined
  BY MachineFields
<1>2. Advance(body, m) = Conclude(body, m)
  BY <1>1 DEF Advance
<1>3. nd \notin Jump /\ nd \notin Call /\ ~IsAssignment(nd)
  BY OneKind
<1>4. ASSUME term # NoTerm PROVE Advance(body, m) = Machine(n, Yield(Front(s), term), e, c, r)
  <2>1. Advance(body, m) = WithStack(m, Yield(Front(s), term))
    BY <1>1, <1>2, <1>3, <1>4 DEF Conclude, WithStack
  <2> QED BY <2>1, MachineChanges
<1>5. ASSUME term = NoTerm PROVE ~Advance(body, m).defined
  <2>1. Advance(body, m) = Undefined(m)
    BY <1>1, <1>2, <1>3, <1>5 DEF Conclude, Undefined
  <2> QED BY <1>1, <2>1
<1> QED BY <1>4, <1>5

----------------------------------------------------------------------------
(* The machine as the generator shows it inside a body. *)

InBodyNow == gen_pos.at \in {"node", "post_def"}

LEMMA ShownIs ==
  /\ Shown = Machine(NextNode, Stack(CurrentDef.body, CurrentRun, frames),
                     Env(CurrentDef, value_table, CurrentRun), CallsOf(CurrentRun),
                     CurrentRun.returned)
  /\ Shown' = Machine(NextNode', Stack(CurrentDef'.body, CurrentRun', frames'),
                      Env(CurrentDef', value_table', CurrentRun'), CallsOf(CurrentRun)',
                      CurrentRun'.returned)
BY DEF Shown, Machine, Record

(* It is ready when the expression on top of the generator's stack is. *)
LEMMA ReadyIs ==
  ASSUME Fitting, InBodyNow
  PROVE  /\ Ready(CurrentDef.body, Shown) <=> Complete
         /\ frames # <<>> =>
              /\ Innermost(Shown).node = Top.node /\ Top \in Frame
              /\ Innermost(Shown).vals = Awaiting(CurrentDef.body, CurrentRun, Top).vals
<1> DEFINE body == CurrentDef.body
           l == Len(frames)
<1>1. InDefinition
  BY DEF InDefinition, InBodyNow
<1>2. /\ frames \in Seq(Frame) /\ l \in Nat /\ DOMAIN frames = 1 .. l
      /\ frames # <<>> => Top = frames[l] /\ TopNode = FrameNode(l)
      /\ \A j \in DOMAIN frames : frames[j] \in Frame
  BY <1>1, StackFacts
<1>3. Shown.stack = Stack(body, CurrentRun, frames)
  BY ShownIs, MachineFields
<1>4. /\ Shown.stack = <<>> <=> frames = <<>>
      /\ Len(Shown.stack) = l
      /\ \A j \in 1 .. l : Shown.stack[j] = Awaiting(body, CurrentRun, frames[j])
  BY <1>2, <1>3, StackIs
<1>5. CASE frames = <<>>
  <2>1. ~Complete
    BY <1>5 DEF Complete
  <2>2. ~Ready(body, Shown)
    BY <1>4, <1>5 DEF Ready
  <2> QED BY <1>5, <2>1, <2>2
<1>6. CASE frames # <<>>
  <2>1. l \in 1 .. l /\ Top \in Frame
    BY <1>2, <1>6
  <2>2. Innermost(Shown) = Awaiting(body, CurrentRun, Top)
    BY <1>2, <1>4, <1>6, <2>1 DEF Innermost
  <2>3. /\ Len(Innermost(Shown).vals) = Len(Top.operands)
        /\ Innermost(Shown).node = Top.node
    BY <2>1, <2>2, AwaitingIs
  <2>4. TopNode = body[Top.node]
    BY <1>2, <1>6 DEF FrameNode
  <2>5. Ready(body, Shown) <=> Complete
    BY <1>4, <1>6, <2>3, <2>4 DEF Ready, Complete
  <2> QED BY <2>1, <2>2, <2>3, <2>5
<1> QED BY <1>5, <1>6

(* In a body every name has its storage, and different names have different *)
(* storage.                                                                 *)
LEMMA StorageOfName ==
  ASSUME Fitting, InBodyNow
  PROVE  /\ \A x \in VarNames : Named(CurrentDef, x) =>
              /\ value_table[x] = Storage(value_table[x].k)
              /\ value_table[x].k \in 1 .. Len(CurrentCode)
         /\ \A x, y \in VarNames : Named(CurrentDef, x) /\ Named(CurrentDef, y) /\ x # y =>
              value_table[x].k # value_table[y].k
<1> DEFINE params == CurrentDef.params
           vars   == CurrentDef.vars
           p      == Len(params)
           v      == Len(vars)
<1>1. InDefinition
  BY DEF InDefinition, InBodyNow
<1>2. /\ params \in Seq(VarNames) /\ vars \in Seq(VarNames) /\ Len(CurrentCode) \in Nat
      /\ p \in Nat /\ v \in Nat /\ DOMAIN params = 1 .. p /\ DOMAIN vars = 1 .. v
  BY <1>1, InCode
<1>3. ParamsStored = p /\ VarsStored = v
  BY DEF ParamsStored, VarsStored, InBodyNow
<1>4. /\ Len(CurrentCode) >= 2 * p + v
      /\ \A m \in 1 .. v : value_table[vars[m]] = Storage(2 * p + m)
      /\ \A m \in 1 .. p :
           (\A l \in 1 .. v : vars[l] # params[m]) => value_table[params[m]] = Storage(2 * m - 1)
  BY <1>1, <1>3 DEF Fitting, CodeFits, StorageByName
<1>5. /\ \A m \in 1 .. p : 2 * m - 1 \in 1 .. Len(CurrentCode)
      /\ \A m \in 1 .. v : 2 * p + m \in 1 .. Len(CurrentCode)
  BY <1>2, <1>4, StoragePlaces
<1> DEFINE Place(x) == \/ \E m \in 1 .. v : vars[m] = x /\ value_table[x] = Storage(2 * p + m)
                       \/ \E m \in 1 .. p : params[m] = x /\ value_table[x] = Storage(2 * m - 1)
<1>6. ASSUME NEW x \in VarNames, Named(CurrentDef, x) PROVE Place(x)
  <2>1. CASE \E m \in 1 .. v : vars[m] = x
    BY <1>4, <2>1
  <2>2. CASE \A m \in 1 .. v : vars[m] # x
    <3>1. \E m \in 1 .. p : params[m] = x
      BY <1>6, <2>2 DEF Named, Contains
    <3> QED BY <1>4, <2>2, <3>1
  <2> QED BY <2>1, <2>2
<1>7. \A k : Storage(k).k = k
  BY DEF Storage
<1>8. ASSUME NEW x \in VarNames, Named(CurrentDef, x)
      PROVE  /\ value_table[x] = Storage(value_table[x].k)
             /\ value_table[x].k \in 1 .. Len(CurrentCode)
  BY <1>5, <1>6, <1>7, <1>8
<1>9. ASSUME NEW x \in VarNames, NEW y \in VarNames, Named(CurrentDef, x), Named(CurrentDef, y),
             x # y
      PROVE  value_table[x].k # value_table[y].k
  <2>1. \/ \E m \in 1 .. v : vars[m] = x /\ value_table[x].k = 2 * p + m
        \/ \E m \in 1 .. p : params[m] = x /\ value_table[x].k = 2 * m - 1
    BY <1>6, <1>7, <1>9
  <2>2. \/ \E m \in 1 .. v : vars[m] = y /\ value_table[y].k = 2 * p + m
        \/ \E m \in 1 .. p : params[m] = y /\ value_table[y].k = 2 * m - 1
    BY <1>6, <1>7, <1>9
  <2> HIDE DEF p, v, params, vars
  <2>3. /\ \A m \in 1 .. v : \A o \in 1 .. p : 2 * p + m # 2 * o - 1
        /\ \A m \in 1 .. v : \A o \in 1 .. v : 2 * p + m = 2 * p + o => m = o
        /\ \A m \in 1 .. p : \A o \in 1 .. p : 2 * m - 1 = 2 * o - 1 => m = o
    BY <1>2
  <2> QED BY <1>9, <2>1, <2>2, <2>3
<1> QED BY <1>8, <1>9

(* Without an instruction the run is what it was. *)
LEMMA NothingRuns ==
  ASSUME UNCHANGED <<tunit, functions, insert_point>>, gen_pos'.fn = gen_pos.fn
  PROVE  /\ CurrentRun' = CurrentRun /\ CurrentDef' = CurrentDef /\ CurrentCode' = CurrentCode
         /\ CallsOf(CurrentRun)' = CallsOf(CurrentRun)
         /\ CalleesThere(CurrentRun)' <=> CalleesThere(CurrentRun)
<1>1. CurrentCode' = CurrentCode /\ CurrentDef' = CurrentDef
  BY DEF CurrentCode, CurrentDef
<1>2. CurrentRun' = CurrentRun
  BY <1>1 DEF CurrentRun
<1> QED BY <1>1, <1>2 DEF CallsOf, CalleesThere

(* With one it is a step further. *)
LEMMA OneRuns ==
  ASSUME Fitting, NEW instr \in Instruction, Extends(<<instr>>)
  PROVE  /\ Len(CurrentCode) \in Nat /\ Len(CurrentCode') = Len(CurrentCode) + 1
         /\ IsRun(CurrentRun, Len(CurrentCode))
         /\ CurrentRun' = Step(CurrentRun, instr)
         /\ CurrentDef' = CurrentDef
<1>1. <<instr>> \in Seq(Instruction) /\ Len(<<instr>>) = 1
  OBVIOUS
<1>2. CurrentCode \in Seq(Instruction) /\ Len(CurrentCode) \in Nat
  BY InCode DEF Extends
<1>3. /\ CurrentCode' = CurrentCode \o <<instr>> /\ CurrentDef' = CurrentDef
      /\ Len(CurrentCode') = Len(CurrentCode) + 1
  BY <1>1, CodeGrows
<1>4. CurrentRun' = Run(CurrentCode \o <<instr>>)
  BY <1>3 DEF CurrentRun
<1>5. CurrentRun' = Step(CurrentRun, instr)
  BY <1>2, <1>4, RunAppend DEF CurrentRun
<1>6. IsRun(CurrentRun, Len(CurrentCode))
  BY <1>2, RunIsRun DEF CurrentRun
<1> QED BY <1>2, <1>3, <1>5, <1>6

(* What the calls made lead to keeps its name. *)
LEMMA CallsKept ==
  ASSUME Fitting, NEW instrs \in Seq(Instruction), Extends(instrs),
         CalleesThere(CurrentRun), CurrentRun'.calls = CurrentRun.calls
  PROVE  CallsOf(CurrentRun)' = CallsOf(CurrentRun) /\ CalleesThere(CurrentRun)'
<1>1. /\ DOMAIN functions' = DOMAIN functions
      /\ \A f \in DOMAIN functions : functions'[f].name = functions[f].name
  BY CodeGrows
<1> QED BY <1>1 DEF CallsOf, CalleesThere

(* As long as memory is kept the variables have the values they had. *)
LEMMA EnvKept ==
  ASSUME Fitting, InBodyNow, NEW run, NEW more,
         MemoryKept(run, more, Len(CurrentCode))
  PROVE  Env(CurrentDef, value_table, more) = Env(CurrentDef, value_table, run)
BY StorageOfName DEF Env, MemoryKept

(* What is stored under a name is the value of that variable alone. *)
PlaceStored(run, more, n, k, v) ==
  /\ more.memory[k] = v
  /\ \A o \in 1 .. n : o # k => more.memory[o] = run.memory[o]

LEMMA EnvStored ==
  ASSUME Fitting, InBodyNow, NEW x \in VarNames, Named(CurrentDef, x), NEW v, NEW run, NEW more,
         PlaceStored(run, more, Len(CurrentCode), value_table[x].k, v)
  PROVE  Env(CurrentDef, value_table, more) = [Env(CurrentDef, value_table, run) EXCEPT ![x] = v]
<1> DEFINE one == Env(CurrentDef, value_table, run)
           two == Env(CurrentDef, value_table, more)
<1>1. ASSUME NEW y \in VarNames PROVE two[y] = IF y = x THEN v ELSE one[y]
  BY <1>1, StorageOfName DEF Env, PlaceStored
<1>2. one = [y \in VarNames |-> one[y]] /\ two = [y \in VarNames |-> two[y]]
  BY DEF Env
<1> HIDE DEF one, two
<1>3. two = [one EXCEPT ![x] = v]
  BY <1>1, <1>2
<1> QED BY <1>3 DEF one, two

----------------------------------------------------------------------------
(* What a step of the generator leaves on the stack. *)

AllHeld(body, table, stack) ==
  \A j \in DOMAIN stack : IsAssignment(body[stack[j].node]) =>
    stack[j].operands[1] = table[body[stack[j].node + 1].name]

LEMMA HeldIs == TargetsHeld <=> AllHeld(CurrentDef.body, value_table, frames)
BY DEF TargetsHeld, AllHeld, FrameNode

(* The stack itself, and what is below its top. *)
PartOfStack(stack) == stack = frames \/ (frames # <<>> /\ stack = Front(frames))

LEMMA PartIs ==
  ASSUME Fitting, InBodyNow, OperandsMade, TargetsHeld, NEW stack, PartOfStack(stack)
  PROVE  /\ stack \in Seq(Frame) /\ AllMade(stack, Len(CurrentCode))
         /\ AllHeld(CurrentDef.body, value_table, stack)
         /\ \A j \in DOMAIN stack :
              IsAssignment(CurrentDef.body[stack[j].node]) => stack[j].operands # <<>>
<1>1. InDefinition
  BY DEF InDefinition, InBodyNow
<1>2. frames \in Seq(Frame) /\ Len(CurrentCode) \in Nat
  BY <1>1, StackFacts, InCode
<1>3. /\ AllMade(frames, Len(CurrentCode)) /\ AllHeld(CurrentDef.body, value_table, frames)
      /\ \A j \in DOMAIN frames :
           IsAssignment(CurrentDef.body[frames[j].node]) => frames[j].operands # <<>>
  BY MadeIs, HeldIs DEF Fitting, CodeFits, OperandsFit, FrameNode
<1>4. CASE stack = frames
  BY <1>2, <1>3, <1>4
<1>5. CASE frames # <<>> /\ stack = Front(frames)
  <2>1. /\ stack \in Seq(Frame) /\ DOMAIN stack \subseteq DOMAIN frames
        /\ \A j \in DOMAIN stack : stack[j] = frames[j]
    BY <1>2, <1>5, FrontOfStack
  <2>2. AllMade(stack, Len(CurrentCode))
    BY <1>2, <1>3, <1>5, MadePopped
  <2> QED BY <1>3, <2>1, <2>2 DEF AllHeld
<1> QED BY <1>4, <1>5 DEF PartOfStack

(* A value is delivered to a part of the stack. *)
LEMMA PartYields ==
  ASSUME Fitting, InBodyNow, OperandsMade, TargetsHeld, NEW stack, PartOfStack(stack),
         NEW n \in Nat, n = Len(CurrentCode'), Len(CurrentCode) <= n,
         NEW v \in Value, v.kind \in {"alloca", "result"} => v.k \in 1 .. n,
         frames' = Deliver(stack, v), CurrentDef' = CurrentDef, UNCHANGED value_table,
         NEW run, NEW more, ResultsKept(run, more, Len(CurrentCode))
  PROVE  /\ OperandsMade' /\ TargetsHeld'
         /\ Stack(CurrentDef.body, more, frames') =
              Yield(Stack(CurrentDef.body, run, stack), TermOf(more, v))
<1> DEFINE body == CurrentDef.body
           l == Len(stack)
<1>1. InDefinition
  BY DEF InDefinition, InBodyNow
<1>2. Len(CurrentCode) \in Nat
  BY <1>1, InCode
<1>3. /\ stack \in Seq(Frame) /\ AllMade(stack, Len(CurrentCode))
      /\ AllHeld(body, value_table, stack)
      /\ \A j \in DOMAIN stack : IsAssignment(body[stack[j].node]) => stack[j].operands # <<>>
  BY PartIs
<1>4. stack # <<>> => l \in DOMAIN stack
  BY <1>3
<1>5. AllMade(Deliver(stack, v), n)
  BY <1>2, <1>3, MadeDelivered
<1>6. OperandsMade'
  <2>1. OperandsMade' <=> AllMade(frames', n)
    BY DEF OperandsMade, AllMade, IsMade
  <2> QED BY <1>5, <2>1
<1>7. TargetsHeld'
  <2>1. TargetsHeld' <=> AllHeld(body, value_table, frames')
    BY DEF TargetsHeld, AllHeld, FrameNode
  <2>2. CASE stack = <<>>
    <3>1. frames' = <<>>
      BY <2>2 DEF Deliver
    <3> QED BY <2>1, <3>1 DEF AllHeld
  <2>3. CASE stack # <<>>
    <3>1. /\ DOMAIN frames' = DOMAIN stack
          /\ \A j \in DOMAIN stack : frames'[j].node = stack[j].node
          /\ \A j \in DOMAIN stack : j # l => frames'[j] = stack[j]
          /\ frames'[l].operands = Append(stack[l].operands, v)
          /\ stack[l].operands \in Seq(Value)
      BY <1>3, <2>3, DeliverIs
    <3>2. stack[l].operands # <<>> => frames'[l].operands[1] = stack[l].operands[1]
      BY <3>1
    <3>3. \A j \in DOMAIN stack :
            stack[j].operands # <<>> => frames'[j].operands[1] = stack[j].operands[1]
      BY <3>1, <3>2
    <3>4. AllHeld(body, value_table, frames')
      BY <1>3, <3>1, <3>3 DEF AllHeld
    <3> QED BY <2>1, <3>4
  <2> QED BY <2>2, <2>3
<1>8. Stack(body, more, stack) = Stack(body, run, stack)
  BY <1>2, <1>3, StackKept
<1>9. Stack(body, more, frames') = Yield(Stack(body, more, stack), TermOf(more, v))
  BY <1>3, <1>4, StackYields
<1> QED BY <1>6, <1>7, <1>8, <1>9

LEMMA MoreIs ==
  ASSUME NEW n \in Nat, NEW f, Ordered(f, n), NEW v
  PROVE  /\ Ordered(More(f, v), n + 1)
         /\ More(f, v)[n + 1] = v
         /\ \A o \in 1 .. n : More(f, v)[o] = f[o]
BY AppendIs DEF More

(* Behind an instruction there is one more result, and one more place in    *)
(* memory.                                                                  *)
LEMMA ResultFields ==
  ASSUME NEW run, NEW term, NEW memory, NEW calls, NEW returned
  PROVE  LET new == Result(run, term, memory, calls, returned)
         IN  /\ new.results = More(run.results, term) /\ new.memory = memory
             /\ new.calls = calls /\ new.returned = returned
BY DEF Result, More

LEMMA ResultLater ==
  ASSUME NEW run, NEW n \in Nat, IsRun(run, n), NEW term,
         NEW more, more.results = More(run.results, term)
  PROVE  ResultsKept(run, more, n) /\ more.results[n + 1] = term
BY MoreIs DEF ResultsKept, IsRun

LEMMA MemoryLater ==
  ASSUME NEW run, NEW n \in Nat, IsRun(run, n), NEW more, more.memory = More(run.memory, Unset)
  PROVE  MemoryKept(run, more, n)
BY MoreIs DEF MemoryKept, IsRun

(* An instruction in place of a value: the machine has its term. *)
LEMMA ResultShown ==
  ASSUME Fitting, InBodyNow, OperandsMade, TargetsHeld, NEW stack, PartOfStack(stack),
         NEW instr \in Instruction, Extends(<<instr>>), UNCHANGED value_table,
         NEW v \in Value, v = NextValue("result"), frames' = Deliver(stack, v),
         NEW term, NEW calls,
         Step(CurrentRun, instr) = Result(CurrentRun, term, More(CurrentRun.memory, Unset), calls,
                                          CurrentRun.returned)
  PROVE  /\ OperandsMade' /\ TargetsHeld' /\ CurrentRun'.calls = calls
         /\ Shown' = Machine(NextNode', Yield(Stack(CurrentDef.body, CurrentRun, stack), term),
                             Env(CurrentDef, value_table, CurrentRun), CallsOf(CurrentRun)',
                             CurrentRun.returned)
<1> DEFINE n    == Len(CurrentCode)
           run  == CurrentRun
           more == Step(run, instr)
<1>1. /\ n \in Nat /\ Len(CurrentCode') = n + 1 /\ IsRun(run, n)
      /\ CurrentRun' = more /\ CurrentDef' = CurrentDef
  BY OneRuns
<1>2. more = Result(run, term, More(run.memory, Unset), calls, run.returned)
  OBVIOUS
<1> HIDE DEF more
<1>3. /\ more.results = More(run.results, term) /\ more.memory = More(run.memory, Unset)
      /\ more.calls = calls /\ more.returned = run.returned
  BY <1>2, ResultFields
<1>4. ResultsKept(run, more, n) /\ more.results[n + 1] = term /\ MemoryKept(run, more, n)
  BY <1>1, <1>3, ResultLater, MemoryLater
<1>5. v.kind = "result" /\ v.k = n + 1
  BY DEF NextValue, CurrentCode
<1>6. TermOf(more, v) = term
  BY <1>4, <1>5 DEF TermOf
<1>7. n + 1 \in Nat /\ n + 1 \in 1 .. (n + 1) /\ n <= n + 1
  BY <1>1
<1>8. /\ OperandsMade' /\ TargetsHeld'
      /\ Stack(CurrentDef.body, more, frames') =
           Yield(Stack(CurrentDef.body, run, stack), TermOf(more, v))
  BY <1>1, <1>4, <1>5, <1>7, PartYields
<1>9. Env(CurrentDef, value_table, more) = Env(CurrentDef, value_table, run)
  BY <1>4, EnvKept
<1> QED BY <1>1, <1>3, <1>6, <1>8, <1>9, ShownIs

----------------------------------------------------------------------------
(* Every step of the generator inside a body is a tick of the machine.      *)

(* The machine as shown, by its parts. *)
ShownStack == Stack(CurrentDef.body, CurrentRun, frames)
ShownEnv   == Env(CurrentDef, value_table, CurrentRun)

(* Without an instruction only the stack changes. *)
LEMMA QuietStep ==
  ASSUME UNCHANGED <<tunit, functions, insert_point, value_table>>, gen_pos'.fn = gen_pos.fn
  PROVE  /\ Shown' = Machine(NextNode', Stack(CurrentDef.body, CurrentRun, frames'), ShownEnv,
                             CallsOf(CurrentRun), CurrentRun.returned)
         /\ CurrentDef' = CurrentDef /\ CurrentCode' = CurrentCode /\ CurrentRun' = CurrentRun
         /\ CalleesThere(CurrentRun) => CalleesThere(CurrentRun)'
<1>1. /\ CurrentRun' = CurrentRun /\ CurrentDef' = CurrentDef /\ CurrentCode' = CurrentCode
      /\ CallsOf(CurrentRun)' = CallsOf(CurrentRun)
      /\ CalleesThere(CurrentRun)' <=> CalleesThere(CurrentRun)
  BY NothingRuns
<1> QED BY <1>1, ShownIs DEF ShownEnv

(* Nodes are taken in their order. *)
LEMMA NodesPass ==
  ASSUME Fitting, gen_pos.at = "node", UNCHANGED tunit
  PROVE  /\ InBodyNow /\ InDefinition /\ NextNode = gen_pos.k
         /\ gen_pos.k \in 1 .. Len(CurrentDef.body) /\ Len(CurrentDef.body) \in Nat
         /\ CurrentDef.body[gen_pos.k] \in Node /\ GenBody = CurrentDef.body
         /\ Pass(1) => InBodyNow' /\ gen_pos'.fn = gen_pos.fn /\ NextNode' = gen_pos.k + 1
         /\ Pass(2) /\ IsAssignment(CurrentDef.body[gen_pos.k]) =>
              InBodyNow' /\ gen_pos'.fn = gen_pos.fn /\ NextNode' = gen_pos.k + 2
<1> DEFINE body == CurrentDef.body
           k    == gen_pos.k
<1>1. InBodyNow /\ NextNode = k
  BY DEF InBodyNow, NextNode
<1>2. /\ InDefinition /\ k \in 1 .. Len(body) /\ GenBody = body /\ body[k] \in Node
  BY NodeHere
<1>3. Len(body) \in Nat
  BY <1>2, InCode
<1>4. ASSUME Pass(1)
      PROVE  InBodyNow' /\ gen_pos'.fn = gen_pos.fn /\ NextNode' = k + 1
  <2>1. /\ gen_pos'.fn = gen_pos.fn
        /\ \/ gen_pos'.at = "node" /\ gen_pos'.k = k + 1
           \/ gen_pos'.at = "post_def" /\ k = Len(body)
    BY <1>4, OwedNext
  <2>2. CurrentDef' = CurrentDef
    BY <2>1 DEF CurrentDef
  <2>3. InBodyNow'
    BY <2>1 DEF InBodyNow
  <2>4. NextNode' = IF gen_pos'.at = "node" THEN gen_pos'.k ELSE Len(body) + 1
    BY <2>2 DEF NextNode
  <2> QED BY <2>1, <2>3, <2>4
<1>5. ASSUME Pass(2), IsAssignment(body[k])
      PROVE  InBodyNow' /\ gen_pos'.fn = gen_pos.fn /\ NextNode' = k + 2
  <2>1. /\ gen_pos'.fn = gen_pos.fn
        /\ \/ gen_pos'.at = "node" /\ gen_pos'.k = k + 2
           \/ gen_pos'.at = "post_def" /\ k + 2 = Len(body) + 1
    BY <1>5, OwedNextButOne
  <2>2. CurrentDef' = CurrentDef
    BY <2>1 DEF CurrentDef
  <2>3. InBodyNow'
    BY <2>1 DEF InBodyNow
  <2>4. NextNode' = IF gen_pos'.at = "node" THEN gen_pos'.k ELSE Len(body) + 1
    BY <2>2 DEF NextNode
  <2> QED BY <2>1, <2>3, <2>4
<1> QED BY <1>1, <1>2, <1>3, <1>4, <1>5

(* An identifier has a name of the definition. *)
LEMMA IdentifierNamed ==
  ASSUME Fitting, InBodyNow,
         NEW k \in DOMAIN CurrentDef.body, CurrentDef.body[k].kind = "identifier"
  PROVE  LET x == CurrentDef.body[k].name
         IN  /\ x \in VarNames /\ Named(CurrentDef, x)
             /\ id_symbol[<<gen_pos.fn, k>>].name = x
             /\ value_table[x] = Storage(value_table[x].k)
             /\ value_table[x].k \in 1 .. Len(CurrentCode)
<1> DEFINE x == CurrentDef.body[k].name
           s == id_symbol[<<gen_pos.fn, k>>]
<1>1. InDefinition /\ gen_pos.fn \in DOMAIN tunit.defs /\ Generating
  BY InCode DEF InDefinition, InBodyNow
<1>2. /\ x \in VarNames /\ s.name = x
      /\ \/ \E m \in DOMAIN CurrentDef.vars : CurrentDef.vars[m] = x
         \/ \E m \in DOMAIN CurrentDef.params : CurrentDef.params[m] = x
  <2>1. k \in DOMAIN tunit.defs[gen_pos.fn].body
        /\ tunit.defs[gen_pos.fn].body[k].kind = "identifier" /\ Supported(tunit)
    BY DEF CurrentDef, Fitting
  <2>2. /\ x \in VarNames
        /\ \/ \E m \in DOMAIN CurrentDef.vars :
                CurrentDef.vars[m] = x /\ s = NewVariable(x, "var", gen_pos.fn, m)
           \/ \E m \in DOMAIN CurrentDef.params :
                CurrentDef.params[m] = x /\ s = NewVariable(x, "def", gen_pos.fn, m)
    BY <1>1, <2>1, SymbolOfIdentifier DEF CurrentDef
  <2>3. \A site, m : NewVariable(x, site, gen_pos.fn, m).name = x
    BY DEF NewVariable
  <2> HIDE DEF x, s
  <2> QED BY <2>2, <2>3
<1>3. CurrentDef.params \in Seq(VarNames) /\ CurrentDef.vars \in Seq(VarNames)
  BY <1>1, InCode
<1>4. Named(CurrentDef, x)
  BY <1>2, <1>3 DEF Named, Contains
<1> QED BY <1>2, <1>4, StorageOfName

(* A number. *)
LEMMA NumberShown ==
  ASSUME Fitting, GenNumber, UNCHANGED tunit, OperandsMade, TargetsHeld
  PROVE  /\ Shown' = Advance(CurrentDef.body, Shown) /\ OperandsMade' /\ TargetsHeld'
         /\ CalleesThere(CurrentRun) => CalleesThere(CurrentRun)'
<1> DEFINE body == CurrentDef.body
           k    == gen_pos.k
           n    == body[k]
<1>1. PICK v : v = Constant(n.value)
  OBVIOUS
<1>2. /\ gen_pos.at = "node" /\ ~Complete /\ n.kind = "number_literal"
      /\ frames' = Deliver(frames, v) /\ Pass(1)
      /\ UNCHANGED <<status, functions, func_map, value_table, insert_point>>
  BY <1>1, NodeHere DEF GenNumber, AtNode, tables
<1>3. /\ InBodyNow /\ InDefinition /\ NextNode = k /\ k <= Len(body) /\ n \in Node
      /\ k \in Nat /\ Len(body) \in Nat
      /\ gen_pos'.fn = gen_pos.fn /\ NextNode' = k + 1
  BY <1>2, NodesPass
<1>4. n \in Number
  BY <1>2, <1>3, KindsApart
<1>5. v \in Value /\ v.kind = "constant" /\ v.k = n.value
  <2>1. n.value \in Int
    BY <1>4, LimitAssumption DEF Number
  <2>2. v \in Value
    BY <1>1, <2>1, ConstantIsValue
  <2> QED BY <1>1, <2>2 DEF Constant
<1>6. /\ Shown' = Machine(NextNode', Stack(body, CurrentRun, frames'), ShownEnv,
                          CallsOf(CurrentRun), CurrentRun.returned)
      /\ CurrentDef' = CurrentDef /\ CurrentCode' = CurrentCode
      /\ CalleesThere(CurrentRun) => CalleesThere(CurrentRun)'
  BY <1>2, <1>3, QuietStep
<1>7. TermOf(CurrentRun, v) = Num(n.value)
  BY <1>5 DEF TermOf
<1>8. /\ OperandsMade' /\ TargetsHeld'
      /\ Stack(body, CurrentRun, frames') = Yield(ShownStack, TermOf(CurrentRun, v))
  <2>1. Len(CurrentCode) \in Nat /\ Len(CurrentCode') = Len(CurrentCode)
    BY <1>3, <1>6, InCode
  <2>2. ResultsKept(CurrentRun, CurrentRun, Len(CurrentCode)) /\ PartOfStack(frames)
    BY DEF ResultsKept, PartOfStack
  <2> QED BY <1>2, <1>3, <1>5, <1>6, <2>1, <2>2, PartYields DEF ShownStack
<1>9. Advance(body, Shown) = Machine(k + 1, Yield(ShownStack, Num(n.value)), ShownEnv,
                                     CallsOf(CurrentRun), CurrentRun.returned)
  <2>1. Shown = Machine(k, ShownStack, ShownEnv, CallsOf(CurrentRun), CurrentRun.returned)
    BY <1>3, ShownIs DEF ShownStack, ShownEnv
  <2>2. ~Ready(body, Shown)
    BY <1>2, <1>3, ReadyIs
  <2> QED BY <1>3, <1>4, <2>1, <2>2, TakesNumber
<1> QED BY <1>3, <1>6, <1>7, <1>8, <1>9

(* An expression begun. *)
LEMMA PushKeeps ==
  ASSUME Fitting, InBodyNow, OperandsMade, TargetsHeld, NEW frame \in Frame,
         frames' = Append(frames, frame), UNCHANGED value_table,
         CurrentDef' = CurrentDef, CurrentCode' = CurrentCode,
         \A o \in DOMAIN frame.operands : IsMade(frame.operands[o], CurrentCode),
         IsAssignment(CurrentDef.body[frame.node]) =>
           frame.operands[1] = value_table[CurrentDef.body[frame.node + 1].name]
  PROVE  /\ OperandsMade' /\ TargetsHeld'
         /\ Stack(CurrentDef.body, CurrentRun, frames') =
              Append(ShownStack, Awaiting(CurrentDef.body, CurrentRun, frame))
<1>1. frames \in Seq(Frame)
  BY StackFacts DEF InDefinition, InBodyNow
<1>2. \A j \in DOMAIN frames' :
        frames'[j] = frame \/ (j \in DOMAIN frames /\ frames'[j] = frames[j])
  BY <1>1
<1>3. OperandsMade'
  BY <1>2 DEF OperandsMade, IsMade
<1>4. TargetsHeld'
  BY <1>2 DEF TargetsHeld, FrameNode
<1> QED BY <1>1, <1>3, <1>4, StackOpens DEF ShownStack

LEMMA AwaitingNothing ==
  ASSUME NEW body, NEW run, NEW frame \in Frame, frame.operands = <<>>
  PROVE  Awaiting(body, run, frame) = [node |-> frame.node, vals |-> <<>>]
<1>1. Ordered(<<>>, 0)
  BY DEF Ordered
<1> DEFINE w == Awaiting(body, run, frame)
<1>2. Ordered(w.vals, 0) /\ w = [node |-> frame.node, vals |-> w.vals]
  BY AwaitingIs
<1> HIDE DEF w
<1>3. w.vals = <<>>
  BY <1>1, <1>2 DEF Ordered
<1> QED BY <1>2, <1>3 DEF w

LEMMA AwaitingTarget ==
  ASSUME NEW body, NEW run, NEW frame \in Frame, Len(frame.operands) = 1,
         IsAssignment(body[frame.node])
  PROVE  Awaiting(body, run, frame) = [node |-> frame.node, vals |-> Target(body, frame.node)]
<1>1. Ordered(Target(body, frame.node), 1)
      /\ Target(body, frame.node)[1] = Variable(body[frame.node + 1].name)
  BY DEF Ordered, Target
<1> DEFINE w == Awaiting(body, run, frame)
<1>2. /\ Ordered(w.vals, 1) /\ w = [node |-> frame.node, vals |-> w.vals]
      /\ w.vals[1] = Variable(body[frame.node + 1].name)
  BY AwaitingIs
<1> HIDE DEF w
<1>3. \A o \in 1 .. 1 : w.vals[o] = Target(body, frame.node)[o]
  BY <1>1, <1>2
<1>4. w.vals = Target(body, frame.node)
  BY <1>1, <1>2, <1>3, OrderedEqual
<1> QED BY <1>2, <1>4 DEF w

LEMMA ExpressionShown ==
  ASSUME Fitting, BeginExpression, UNCHANGED tunit, OperandsMade, TargetsHeld
  PROVE  /\ Shown' = Advance(CurrentDef.body, Shown) /\ OperandsMade' /\ TargetsHeld'
         /\ CalleesThere(CurrentRun) => CalleesThere(CurrentRun)'
<1> DEFINE body == CurrentDef.body
           k    == gen_pos.k
           n    == body[k]
<1>1. PICK frame : frame = [node |-> k, operands |-> <<>>]
  OBVIOUS
<1>2. /\ gen_pos.at = "node" /\ ~Complete
      /\ \/ n.kind = "call_expression" \/ n.kind = "jump_statement"
         \/ n.kind = "binary_expression" /\ n.op # "="
      /\ frames' = Append(frames, frame) /\ Pass(1)
      /\ UNCHANGED <<status, functions, func_map, value_table, insert_point>>
  BY <1>1, NodeHere DEF BeginExpression, AtNode, tables
<1>3. /\ InBodyNow /\ InDefinition /\ NextNode = k /\ k <= Len(body) /\ n \in Node
      /\ k \in Nat /\ Len(body) \in Nat
      /\ gen_pos'.fn = gen_pos.fn /\ NextNode' = k + 1
  BY <1>2, NodesPass
<1>4. n \in Call \cup Jump \cup Binary /\ ~IsAssignment(n)
  BY <1>2, <1>3, KindsApart
<1>5. frame \in Frame /\ frame.node = k /\ frame.operands = <<>>
  BY <1>1, <1>3 DEF Frame
<1>6. /\ Shown' = Machine(NextNode', Stack(body, CurrentRun, frames'), ShownEnv,
                          CallsOf(CurrentRun), CurrentRun.returned)
      /\ CurrentDef' = CurrentDef /\ CurrentCode' = CurrentCode
      /\ CalleesThere(CurrentRun) => CalleesThere(CurrentRun)'
  BY <1>2, <1>3, QuietStep
<1>7. /\ OperandsMade' /\ TargetsHeld'
      /\ Stack(body, CurrentRun, frames') = Append(ShownStack, Awaiting(body, CurrentRun, frame))
  BY <1>2, <1>3, <1>4, <1>5, <1>6, PushKeeps
<1>8. Stack(body, CurrentRun, frames') = Opened(ShownStack, k, <<>>)
  BY <1>5, <1>7, AwaitingNothing DEF Opened
<1>9. Advance(body, Shown) = Machine(k + 1, Opened(ShownStack, k, <<>>), ShownEnv,
                                     CallsOf(CurrentRun), CurrentRun.returned)
  <2>1. Shown = Machine(k, ShownStack, ShownEnv, CallsOf(CurrentRun), CurrentRun.returned)
    BY <1>3, ShownIs DEF ShownStack, ShownEnv
  <2>2. ~Ready(body, Shown)
    BY <1>2, <1>3, ReadyIs
  <2> QED BY <1>3, <1>4, <2>1, <2>2, TakesExpression
<1> QED BY <1>3, <1>6, <1>7, <1>8, <1>9

(* An assignment begun, with its target. *)
LEMMA AssignmentBegunShown ==
  ASSUME Fitting, BeginAssignment, UNCHANGED tunit, OperandsMade, TargetsHeld
  PROVE  /\ Shown' = Advance(CurrentDef.body, Shown) /\ OperandsMade' /\ TargetsHeld'
         /\ CalleesThere(CurrentRun) => CalleesThere(CurrentRun)'
<1> DEFINE body == CurrentDef.body
           k    == gen_pos.k
           n    == body[k]
           x    == body[k + 1].name
<1>1. gen_pos.at = "node" /\ ~Complete /\ n.kind = "binary_expression" /\ n.op = "="
  BY NodeHere DEF BeginAssignment, AtNode
<1>2. /\ InBodyNow /\ InDefinition /\ NextNode = k /\ k <= Len(body) /\ n \in Node
      /\ k \in Nat /\ Len(body) \in Nat /\ GenBody = body
  BY <1>1, NodesPass
<1>3. IsAssignment(n)
  BY <1>1, <1>2, KindsApart
<1>4. k + 1 \in DOMAIN body /\ body[k + 1].kind = "identifier"
  BY <1>1, TargetHere
<1>5. value_table[x] = Storage(value_table[x].k) /\ value_table[x].k \in 1 .. Len(CurrentCode)
  BY <1>2, <1>4, IdentifierNamed
<1>6. value_table[x] \in Value
  <2>1. insert_point \in Nat /\ Len(CurrentCode) \in Nat
    BY <1>2, InCode
  <2>2. \A c \in Int : Storage(c) \in Value
    BY <2>1 DEF Storage, Value
  <2> QED BY <1>5, <2>1, <2>2
<1>7. PICK operands : operands = <<value_table[x]>>
  OBVIOUS
<1>8. operands \in Seq(Value) /\ Len(operands) = 1 /\ operands[1] = value_table[x]
      /\ DOMAIN operands = {1}
  BY <1>6, <1>7
<1>9. PICK frame : frame = [node |-> k, operands |-> operands]
  OBVIOUS
<1>10. frame \in Frame /\ frame.node = k /\ frame.operands = operands
  BY <1>2, <1>8, <1>9 DEF Frame
<1>11. /\ frames' = Append(frames, frame) /\ Pass(2)
       /\ UNCHANGED <<status, functions, func_map, value_table, insert_point>>
  <2>1. value_table[x] # NoValue
    BY <1>6, ValueIsSome
  <2> QED BY <1>2, <1>4, <1>7, <1>9, <2>1 DEF BeginAssignment, tables
<1>12. gen_pos'.fn = gen_pos.fn /\ NextNode' = k + 2
  BY <1>1, <1>3, <1>11, NodesPass
<1>13. /\ Shown' = Machine(NextNode', Stack(body, CurrentRun, frames'), ShownEnv,
                           CallsOf(CurrentRun), CurrentRun.returned)
       /\ CurrentDef' = CurrentDef /\ CurrentCode' = CurrentCode
       /\ CalleesThere(CurrentRun) => CalleesThere(CurrentRun)'
  BY <1>11, <1>12, QuietStep
<1>14. \A o \in DOMAIN frame.operands : IsMade(frame.operands[o], CurrentCode)
  BY <1>5, <1>8, <1>10 DEF IsMade
<1>15. /\ OperandsMade' /\ TargetsHeld'
       /\ Stack(body, CurrentRun, frames') = Append(ShownStack, Awaiting(body, CurrentRun, frame))
  BY <1>2, <1>8, <1>10, <1>11, <1>13, <1>14, PushKeeps
<1>16. Stack(body, CurrentRun, frames') = Opened(ShownStack, k, Target(body, k))
  BY <1>3, <1>8, <1>10, <1>15, AwaitingTarget DEF Opened
<1>17. Advance(body, Shown) = Machine(k + 2, Opened(ShownStack, k, Target(body, k)), ShownEnv,
                                      CallsOf(CurrentRun), CurrentRun.returned)
  <2>1. Shown = Machine(k, ShownStack, ShownEnv, CallsOf(CurrentRun), CurrentRun.returned)
    BY <1>2, ShownIs DEF ShownStack, ShownEnv
  <2>2. ~Ready(body, Shown)
    BY <1>1, <1>2, ReadyIs
  <2> QED BY <1>2, <1>3, <2>1, <2>2, TakesAssignment
<1> QED BY <1>12, <1>13, <1>15, <1>16, <1>17

(* What an instruction does to a run, by its operation. *)
LEMMA LoadSteps ==
  ASSUME NEW run, NEW instr \in Instruction, instr.op = "load"
  PROVE  Step(run, instr) = Result(run, run.memory[instr.operands[1].k], More(run.memory, Unset),
                                   run.calls, run.returned)
BY StepIs DEF More

LEMMA OperationSteps ==
  ASSUME NEW run, NEW instr \in Instruction, instr.op \in {"+", "-", "*", "/"}
  PROVE  Step(run, instr) =
           Result(run, Apply(instr.op, Terms(run, instr.operands)[1], Terms(run, instr.operands)[2]),
                  More(run.memory, Unset), run.calls, run.returned)
BY StepIs DEF More

LEMMA CallSteps ==
  ASSUME NEW run, NEW instr \in Instruction, instr.op = "call"
  PROVE  Step(run, instr) =
           Result(run, Called(Len(run.calls) + 1), More(run.memory, Unset),
                  More(run.calls, <<instr.callee, Terms(run, instr.operands)>>), run.returned)
BY StepIs DEF More

LEMMA ReturnSteps ==
  ASSUME NEW run, NEW instr \in Instruction, instr.op = "ret"
  PROVE  Step(run, instr) = Result(run, NoTerm, More(run.memory, Unset), run.calls,
                                   Terms(run, instr.operands)[1])
BY StepIs DEF More

LEMMA AllocaSteps ==
  ASSUME NEW run, NEW instr \in Instruction, instr.op = "alloca"
  PROVE  Step(run, instr) = Result(run, NoTerm, More(run.memory, Unset), run.calls, run.returned)
BY StepIs DEF More

(* Memory with one more place, and v at an address. *)
Stored(memory, k, v) == [More(memory, Unset) EXCEPT ![k] = v]

LEMMA StoreSteps ==
  ASSUME NEW run, NEW instr \in Instruction, instr.op = "store"
  PROVE  Step(run, instr) =
           Result(run, NoTerm,
                  Stored(run.memory, instr.operands[2].k, Terms(run, instr.operands)[1]),
                  run.calls, run.returned)
BY StepIs DEF More, Stored

(* An identifier. *)
LEMMA IdentifierShown ==
  ASSUME Fitting, GenIdentifier, UNCHANGED tunit, OperandsMade, TargetsHeld,
         CalleesThere(CurrentRun)
  PROVE  /\ Shown' = Advance(CurrentDef.body, Shown) /\ OperandsMade' /\ TargetsHeld'
         /\ CalleesThere(CurrentRun)'
<1> DEFINE body == CurrentDef.body
           k    == gen_pos.k
           n    == body[k]
           x    == n.name
<1>1. gen_pos.at = "node" /\ ~Complete /\ n.kind = "identifier"
  BY IdentifierEmits
<1>2. PICK instr \in Instruction, v \in Value, c \in 1 .. Len(CurrentCode) :
        /\ instr.op = "load" /\ instr.operands = <<Storage(c)>>
        /\ value_table[id_symbol[<<gen_pos.fn, k>>].name] = Storage(c) /\ v = NextValue("result")
        /\ frames' = Deliver(frames, v) /\ Pass(1) /\ UNCHANGED value_table
        /\ <<instr>> \in Seq(Instruction) /\ Extends(<<instr>>)
  BY IdentifierEmits
<1>3. /\ InBodyNow /\ InDefinition /\ NextNode = k /\ k <= Len(body) /\ n \in Node
      /\ k \in Nat /\ Len(body) \in Nat /\ k \in DOMAIN body /\ NextNode' = k + 1
  BY <1>1, <1>2, NodesPass, NodeHere
<1>4. n \in Ident
  BY <1>1, <1>3, KindsApart
<1>5. /\ x \in VarNames /\ Named(CurrentDef, x) /\ value_table[x] = Storage(c)
  BY <1>1, <1>2, <1>3, IdentifierNamed
<1>6. Storage(c).k = c /\ instr.operands[1] = Storage(c)
  BY <1>2 DEF Storage
<1>7. ShownEnv[x] = CurrentRun.memory[c]
  BY <1>5, <1>6 DEF ShownEnv, Env
<1>8. PICK term : term = CurrentRun.memory[c]
  OBVIOUS
<1>9. Step(CurrentRun, instr) = Result(CurrentRun, term, More(CurrentRun.memory, Unset),
                                       CurrentRun.calls, CurrentRun.returned)
  BY <1>2, <1>6, <1>8, LoadSteps
<1>10. /\ OperandsMade' /\ TargetsHeld' /\ CurrentRun'.calls = CurrentRun.calls
       /\ Shown' = Machine(NextNode', Yield(ShownStack, term), ShownEnv, CallsOf(CurrentRun)',
                           CurrentRun.returned)
  <2>1. PartOfStack(frames)
    BY DEF PartOfStack
  <2> QED BY <1>2, <1>3, <1>9, <2>1, ResultShown DEF ShownStack, ShownEnv
<1>11. CallsOf(CurrentRun)' = CallsOf(CurrentRun) /\ CalleesThere(CurrentRun)'
  BY <1>2, <1>10, CallsKept
<1>12. Advance(body, Shown) = Machine(k + 1, Yield(ShownStack, ShownEnv[x]), ShownEnv,
                                      CallsOf(CurrentRun), CurrentRun.returned)
  <2>1. Shown = Machine(k, ShownStack, ShownEnv, CallsOf(CurrentRun), CurrentRun.returned)
    BY <1>3, ShownIs DEF ShownStack, ShownEnv
  <2>2. ~Ready(body, Shown)
    BY <1>1, <1>3, ReadyIs
  <2> QED BY <1>3, <1>4, <2>1, <2>2, TakesIdentifier
<1> QED BY <1>3, <1>7, <1>8, <1>10, <1>11, <1>12

(* An expression that has all its operands. *)
LEMMA CompleteShown ==
  ASSUME Fitting, Complete
  PROVE  /\ InBodyNow /\ InDefinition
         /\ Shown = Machine(NextNode, ShownStack, ShownEnv, CallsOf(CurrentRun),
                            CurrentRun.returned)
         /\ Ready(CurrentDef.body, Shown)
         /\ Innermost(Shown).node = Top.node
         /\ Innermost(Shown).vals = Awaiting(CurrentDef.body, CurrentRun, Top).vals
         /\ TopNode \in Node /\ TopNode = CurrentDef.body[Top.node]
         /\ ~IsAssignment(TopNode) => Innermost(Shown).vals = Terms(CurrentRun, Top.operands)
         /\ PartOfStack(Front(frames))
         /\ Front(ShownStack) = Stack(CurrentDef.body, CurrentRun, Front(frames))
<1>1. /\ InBodyNow /\ InDefinition /\ frames # <<>> /\ TopNode \in Node
      /\ TopNode = CurrentDef.body[Top.node]
  BY TopOperands DEF InBodyNow
<1>2. /\ Ready(CurrentDef.body, Shown) /\ Innermost(Shown).node = Top.node
      /\ Innermost(Shown).vals = Awaiting(CurrentDef.body, CurrentRun, Top).vals
  BY <1>1, ReadyIs
<1>3. ASSUME ~IsAssignment(TopNode)
      PROVE  Awaiting(CurrentDef.body, CurrentRun, Top).vals = Terms(CurrentRun, Top.operands)
  BY <1>1, <1>3 DEF Awaiting, Terms
<1>4. frames \in Seq(Frame)
  BY <1>1, StackFacts
<1>5. Front(ShownStack) = Stack(CurrentDef.body, CurrentRun, Front(frames))
  BY <1>1, <1>4, StackCloses DEF ShownStack
<1>6. PartOfStack(Front(frames))
  BY <1>1 DEF PartOfStack
<1>7. Shown = Machine(NextNode, ShownStack, ShownEnv, CallsOf(CurrentRun), CurrentRun.returned)
  BY ShownIs DEF ShownStack, ShownEnv
<1> QED BY <1>1, <1>2, <1>3, <1>5, <1>6, <1>7

LEMMA PlaceKept ==
  ASSUME UNCHANGED <<tunit, gen_pos>>
  PROVE  /\ NextNode' = NextNode /\ CurrentDef' = CurrentDef /\ gen_pos'.fn = gen_pos.fn
         /\ InBodyNow' <=> InBodyNow
BY DEF NextNode, CurrentDef, InBodyNow

(* An operation. *)
LEMMA BinaryShown ==
  ASSUME Fitting, FinishBinary, UNCHANGED tunit, OperandsMade, TargetsHeld,
         CalleesThere(CurrentRun), Advance(CurrentDef.body, Shown).defined
  PROVE  /\ Shown' = Advance(CurrentDef.body, Shown) /\ OperandsMade' /\ TargetsHeld'
         /\ CalleesThere(CurrentRun)'
<1> DEFINE body == CurrentDef.body
<1>1. Complete /\ TopNode \in Binary /\ TopNode.op # "=" /\ ~IsAssignment(TopNode)
  BY BinaryEmits
<1>2. PICK instr \in Instruction, v \in Value :
        /\ instr.op = TopNode.op /\ instr.op \in {"+", "-", "*", "/"}
        /\ instr.operands = Top.operands /\ v = NextValue("result")
        /\ frames' = Deliver(Front(frames), v)
        /\ UNCHANGED <<gen_pos, value_table>>
        /\ <<instr>> \in Seq(Instruction) /\ Extends(<<instr>>)
  BY BinaryEmits
<1>3. /\ InBodyNow /\ TopNode \in Node /\ TopNode = body[Top.node]
      /\ Shown = Machine(NextNode, ShownStack, ShownEnv, CallsOf(CurrentRun), CurrentRun.returned)
      /\ Ready(body, Shown) /\ Innermost(Shown).node = Top.node
      /\ Innermost(Shown).vals = Terms(CurrentRun, Top.operands)
      /\ PartOfStack(Front(frames))
      /\ Front(ShownStack) = Stack(body, CurrentRun, Front(frames))
  BY <1>1, CompleteShown
<1>4. PICK vals : vals = Terms(CurrentRun, Top.operands)
  OBVIOUS
<1>5. PICK term : term = Apply(TopNode.op, vals[1], vals[2])
  OBVIOUS
<1>6. Step(CurrentRun, instr) = Result(CurrentRun, term, More(CurrentRun.memory, Unset),
                                       CurrentRun.calls, CurrentRun.returned)
  BY <1>2, <1>4, <1>5, OperationSteps
<1>7. /\ OperandsMade' /\ TargetsHeld' /\ CurrentRun'.calls = CurrentRun.calls
      /\ Shown' = Machine(NextNode', Yield(Front(ShownStack), term), ShownEnv,
                          CallsOf(CurrentRun)', CurrentRun.returned)
  BY <1>2, <1>3, <1>6, ResultShown DEF ShownEnv
<1>8. CallsOf(CurrentRun)' = CallsOf(CurrentRun) /\ CalleesThere(CurrentRun)'
  BY <1>2, <1>7, CallsKept
<1>9. /\ term # NoTerm =>
           Advance(body, Shown) = Machine(NextNode, Yield(Front(ShownStack), term), ShownEnv,
                                          CallsOf(CurrentRun), CurrentRun.returned)
      /\ term = NoTerm => ~Advance(body, Shown).defined
  BY <1>1, <1>3, <1>4, <1>5, ConcludesBinary
<1>10. NextNode' = NextNode
  BY <1>2, PlaceKept
<1> QED BY <1>7, <1>8, <1>9, <1>10

(* One more call, by the name of what is called. *)
LEMMA CallRecorded ==
  ASSUME Fitting, NEW instr \in Instruction, Extends(<<instr>>), CalleesThere(CurrentRun),
         NEW callee \in DOMAIN functions, NEW name, functions[callee].name = name, NEW vals,
         CurrentRun'.calls = More(CurrentRun.calls, <<callee, vals>>)
  PROVE  /\ Len(CallsOf(CurrentRun)) = Len(CurrentRun.calls)
         /\ CallsOf(CurrentRun)' = More(CallsOf(CurrentRun), <<name, vals>>)
         /\ CalleesThere(CurrentRun)'
<1> DEFINE one == CurrentRun.calls
           two == CurrentRun'.calls
           was == CallsOf(CurrentRun)
           is  == CallsOf(CurrentRun)'
<1>1. PICK c \in Nat : Ordered(one, c)
  BY OneRuns DEF IsRun
<1>2. /\ DOMAIN functions' = DOMAIN functions
      /\ \A f \in DOMAIN functions : functions'[f].name = functions[f].name
  <2>1. <<instr>> \in Seq(Instruction)
    OBVIOUS
  <2> QED BY <2>1, CodeGrows
<1>3. DOMAIN one = 1 .. c /\ Len(one) = c
  BY <1>1, OrderedIs
<1>4. PICK call : call = <<callee, vals>>
  OBVIOUS
<1>5. call[1] = callee /\ call[2] = vals
  BY <1>4
<1>6. two = More(one, call)
  BY <1>4
<1>7. /\ Ordered(two, c + 1) /\ two[c + 1] = call /\ \A o \in 1 .. c : two[o] = one[o]
      /\ c + 1 \in Nat
  <2> HIDE DEF one, two
  <2> QED BY <1>1, <1>6, MoreIs
<1>8. DOMAIN two = 1 .. (c + 1)
  <2> HIDE DEF two
  <2> QED BY <1>7, OrderedIs
<1>9. /\ was = [o \in 1 .. c |-> <<functions[one[o][1]].name, one[o][2]>>]
      /\ is = [o \in 1 .. (c + 1) |-> <<functions'[two[o][1]].name, two[o][2]>>]
  BY <1>3, <1>8 DEF CallsOf
<1>10. \A o \in 1 .. c : one[o][1] \in DOMAIN functions
  BY <1>3 DEF CalleesThere
<1>11. CalleesThere(CurrentRun)'
  <2>1. \A o \in 1 .. (c + 1) : two[o][1] \in DOMAIN functions
    BY <1>5, <1>7, <1>10
  <2> QED BY <1>2, <1>8, <2>1 DEF CalleesThere
<1> HIDE DEF one, two, was, is
<1>12. Ordered(was, c) /\ Ordered(is, c + 1) /\ Len(was) = c
  <2>1. Ordered(was, c) /\ Ordered(is, c + 1)
    BY <1>9 DEF Ordered
  <2> QED BY <2>1, OrderedIs
<1>13. PICK entry : entry = <<name, vals>>
  OBVIOUS
<1>14. /\ Ordered(More(was, entry), c + 1) /\ More(was, entry)[c + 1] = entry
       /\ \A o \in 1 .. c : More(was, entry)[o] = was[o]
  BY <1>12, MoreIs
<1>15. ASSUME NEW o \in 1 .. (c + 1) PROVE is[o] = More(was, entry)[o]
  <2>1. CASE o = c + 1
    <3>1. is[o] = <<functions'[callee].name, vals>>
      BY <1>5, <1>7, <1>9, <2>1
    <3> QED BY <1>2, <1>13, <1>14, <2>1, <3>1
  <2>2. CASE o # c + 1
    <3>1. o \in 1 .. c
      BY <1>1, <2>2
    <3>2. is[o] = <<functions'[one[o][1]].name, one[o][2]>>
      BY <1>7, <1>9, <3>1
    <3>3. was[o] = <<functions[one[o][1]].name, one[o][2]>>
      BY <1>9, <3>1
    <3> QED BY <1>2, <1>10, <1>14, <3>1, <3>2, <3>3
  <2> QED BY <2>1, <2>2
<1>16. is = More(was, entry)
  BY <1>7, <1>12, <1>14, <1>15, OrderedEqual
<1> QED BY <1>3, <1>11, <1>12, <1>13, <1>16 DEF one, was, is

(* A call. *)
LEMMA CallShown ==
  ASSUME Fitting, FinishCall, UNCHANGED tunit, OperandsMade, TargetsHeld,
         CalleesThere(CurrentRun)
  PROVE  /\ Shown' = Advance(CurrentDef.body, Shown) /\ OperandsMade' /\ TargetsHeld'
         /\ CalleesThere(CurrentRun)'
<1> DEFINE body == CurrentDef.body
<1>1. Complete /\ TopNode \in Call
  BY CallEmits
<1>2. PICK instr \in Instruction, v \in Value :
        /\ instr.op = "call" /\ instr.operands = Top.operands
        /\ instr.callee \in DOMAIN functions /\ functions[instr.callee].name = TopNode.name
        /\ v = NextValue("result") /\ frames' = Deliver(Front(frames), v)
        /\ UNCHANGED <<gen_pos, value_table>>
        /\ <<instr>> \in Seq(Instruction) /\ Extends(<<instr>>)
  BY CallEmits
<1>3. TopNode \in Node /\ ~IsAssignment(TopNode)
  BY <1>1, TopOperands, OneKind
<1>4. /\ InBodyNow /\ TopNode = body[Top.node]
      /\ Shown = Machine(NextNode, ShownStack, ShownEnv, CallsOf(CurrentRun), CurrentRun.returned)
      /\ Ready(body, Shown) /\ Innermost(Shown).node = Top.node
      /\ Innermost(Shown).vals = Terms(CurrentRun, Top.operands)
      /\ PartOfStack(Front(frames))
      /\ Front(ShownStack) = Stack(body, CurrentRun, Front(frames))
  BY <1>1, <1>3, CompleteShown
<1>5. PICK vals : vals = Terms(CurrentRun, Top.operands)
  OBVIOUS
<1>6. PICK term : term = Called(Len(CurrentRun.calls) + 1)
  OBVIOUS
<1>7. PICK calls : calls = More(CurrentRun.calls, <<instr.callee, vals>>)
  OBVIOUS
<1>8. Step(CurrentRun, instr) = Result(CurrentRun, term, More(CurrentRun.memory, Unset), calls,
                                       CurrentRun.returned)
  BY <1>2, <1>5, <1>6, <1>7, CallSteps
<1>9. /\ OperandsMade' /\ TargetsHeld' /\ CurrentRun'.calls = calls
      /\ Shown' = Machine(NextNode', Yield(Front(ShownStack), term), ShownEnv,
                          CallsOf(CurrentRun)', CurrentRun.returned)
  BY <1>2, <1>4, <1>8, ResultShown DEF ShownEnv
<1>10. /\ Len(CallsOf(CurrentRun)) = Len(CurrentRun.calls)
       /\ CallsOf(CurrentRun)' = More(CallsOf(CurrentRun), <<TopNode.name, vals>>)
       /\ CalleesThere(CurrentRun)'
  BY <1>2, <1>7, <1>9, CallRecorded
<1>11. Advance(body, Shown) =
         Machine(NextNode, Yield(Front(ShownStack), Called(Len(CallsOf(CurrentRun)) + 1)), ShownEnv,
                 More(CallsOf(CurrentRun), <<TopNode.name, vals>>), CurrentRun.returned)
  BY <1>1, <1>3, <1>4, <1>5, ConcludesCall
<1>12. NextNode' = NextNode
  BY <1>2, PlaceKept
<1> QED BY <1>6, <1>9, <1>10, <1>11, <1>12

(* A statement that is done leaves no expression. *)
LEMMA NothingWaits ==
  ASSUME frames' = <<>>
  PROVE  OperandsMade' /\ TargetsHeld' /\ \A body, run : Stack(body, run, frames') = <<>>
<1>1. DOMAIN frames' = {}
  OBVIOUS
<1>2. OperandsMade' /\ TargetsHeld'
  BY <1>1 DEF OperandsMade, TargetsHeld
<1>3. <<>> \in Seq(Frame)
  OBVIOUS
<1> QED BY <1>2, <1>3, StackIs

(* The value of an assignment is in the storage of its target. *)
LEMMA StoredIs ==
  ASSUME NEW memory, NEW n \in Nat, Ordered(memory, n), NEW v, NEW place \in 1 .. n
  PROVE  /\ Stored(memory, place, v)[place] = v
         /\ \A k \in 1 .. n : k # place => Stored(memory, place, v)[k] = memory[k]
<1> DEFINE more == More(memory, Unset)
<1>1. /\ Ordered(more, n + 1) /\ \A k \in 1 .. n : more[k] = memory[k]
  BY MoreIs
<1> HIDE DEF more
<1>2. DOMAIN more = 1 .. (n + 1) /\ place \in 1 .. (n + 1)
  BY <1>1 DEF Ordered
<1>3. [more EXCEPT ![place] = v][place] = v
      /\ \A k \in 1 .. n : k # place => [more EXCEPT ![place] = v][k] = memory[k]
  BY <1>1, <1>2
<1> QED BY <1>3 DEF Stored, more

LEMMA AssignmentShown ==
  ASSUME Fitting, FinishAssignment, UNCHANGED tunit, TargetsHeld, CalleesThere(CurrentRun)
  PROVE  /\ Shown' = Advance(CurrentDef.body, Shown) /\ OperandsMade' /\ TargetsHeld'
         /\ CalleesThere(CurrentRun)'
<1> DEFINE body == CurrentDef.body
           at   == Top.node
           x    == body[at + 1].name
<1>1. /\ Complete /\ IsAssignment(TopNode) /\ Front(frames) = <<>>
  BY AssignmentEmits
<1>2. PICK instr \in Instruction :
        /\ instr.op = "store" /\ instr.operands = <<Top.operands[2], Top.operands[1]>>
        /\ frames' = Deliver(Front(frames), Top.operands[1])
        /\ UNCHANGED <<gen_pos, value_table>>
        /\ <<instr>> \in Seq(Instruction) /\ Extends(<<instr>>)
  BY AssignmentEmits
<1>3. /\ InBodyNow /\ InDefinition /\ TopNode \in Node /\ TopNode = body[at]
      /\ Shown = Machine(NextNode, ShownStack, ShownEnv, CallsOf(CurrentRun), CurrentRun.returned)
      /\ Ready(body, Shown) /\ Innermost(Shown).node = at
      /\ Innermost(Shown).vals = Awaiting(body, CurrentRun, Top).vals
      /\ Front(ShownStack) = Stack(body, CurrentRun, Front(frames))
  BY <1>1, CompleteShown
<1>4. /\ at + 1 \in DOMAIN body /\ body[at + 1].kind = "identifier"
  <2>1. body \in Seq(Node) /\ WellFormed(body) /\ at \in DOMAIN body
    BY <1>1, <1>3, InCode, TopOperands
  <2>2. body[at] \in Binary /\ body[at].op = "=" /\ Arity(body[at]) > 0
    BY <1>1, <1>3 DEF IsAssignment, Binary, Arity
  <2>3. at + 1 \in DOMAIN body
    BY <2>1, <2>2, OwedAtEnd
  <2>4. body[at + 1] \in Ident
    BY <2>1, <2>2 DEF WellFormed
  <2> QED BY <2>3, <2>4 DEF Ident
<1>5. PICK c : c = value_table[x].k
  OBVIOUS
<1>6. /\ x \in VarNames /\ Named(CurrentDef, x) /\ value_table[x] = Storage(c)
      /\ c \in 1 .. Len(CurrentCode) /\ Storage(c).k = c
  BY <1>3, <1>4, <1>5, IdentifierNamed DEF Storage
<1>7. Top.operands[1] = Storage(c)
  <2>1. Len(frames) \in DOMAIN frames /\ Top = frames[Len(frames)]
        /\ TopNode = FrameNode(Len(frames))
    BY <1>1, <1>3, StackFacts
  <2> QED BY <1>1, <1>6, <2>1 DEF TargetsHeld
<1>8. PICK v : v = TermOf(CurrentRun, Top.operands[2])
  OBVIOUS
<1>9. instr.operands[2].k = c /\ Terms(CurrentRun, instr.operands)[1] = v
  <2>1. instr.operands[1] = Top.operands[2] /\ instr.operands[2] = Storage(c)
        /\ 1 \in DOMAIN instr.operands
    BY <1>2, <1>7
  <2> QED BY <1>6, <1>8, <2>1 DEF Terms
<1>10. PICK vals : vals = Awaiting(body, CurrentRun, Top).vals
  OBVIOUS
<1>11. vals[2] = v
  <2>1. Top \in Frame /\ Len(Top.operands) = 2
    <3>1. frames # <<>> /\ Len(Top.operands) = Arity(TopNode) /\ Arity(TopNode) = 2
      BY <1>1, TopOperands DEF IsAssignment, Binary, Arity
    <3> QED BY <1>3, <3>1, ReadyIs
  <2>2. 2 \in 1 .. Len(Top.operands)
    BY <2>1
  <2> QED BY <1>8, <1>10, <2>1, <2>2, AwaitingIs
<1> HIDE DEF x, at
<1>12. /\ Len(CurrentCode) \in Nat /\ IsRun(CurrentRun, Len(CurrentCode))
       /\ CurrentRun' = Step(CurrentRun, instr) /\ CurrentDef' = CurrentDef
  BY <1>2, OneRuns
<1>13. PICK memory : memory = Stored(CurrentRun.memory, c, v)
  OBVIOUS
<1>14. Step(CurrentRun, instr) = Result(CurrentRun, NoTerm, memory, CurrentRun.calls,
                                        CurrentRun.returned)
  BY <1>2, <1>9, <1>13, StoreSteps
<1>15. /\ CurrentRun'.memory = memory /\ CurrentRun'.calls = CurrentRun.calls
       /\ CurrentRun'.returned = CurrentRun.returned
  BY <1>12, <1>14, ResultFields
<1>16. memory[c] = v /\ \A o \in 1 .. Len(CurrentCode) : o # c => memory[o] = CurrentRun.memory[o]
  BY <1>6, <1>12, <1>13, StoredIs DEF IsRun
<1>17. Env(CurrentDef, value_table, CurrentRun') = [ShownEnv EXCEPT ![x] = v]
  <2>1. PlaceStored(CurrentRun, CurrentRun', Len(CurrentCode), value_table[x].k, v)
    BY <1>5, <1>15, <1>16 DEF PlaceStored
  <2>2. PICK run, more : run = CurrentRun /\ more = CurrentRun'
    OBVIOUS
  <2>3. InBodyNow /\ x \in VarNames /\ Named(CurrentDef, x)
        /\ PlaceStored(run, more, Len(CurrentCode), value_table[x].k, v)
    BY <1>3, <1>6, <2>1, <2>2
  <2>4. Env(CurrentDef, value_table, more) = [Env(CurrentDef, value_table, run) EXCEPT ![x] = v]
    BY <2>3, EnvStored
  <2> QED BY <2>2, <2>4 DEF ShownEnv
<1>18. CallsOf(CurrentRun)' = CallsOf(CurrentRun) /\ CalleesThere(CurrentRun)'
  BY <1>2, <1>15, CallsKept
<1>19. /\ frames' = <<>> /\ OperandsMade' /\ TargetsHeld'
       /\ Stack(body, CurrentRun', frames') = <<>>
  <2>1. frames' = <<>>
    BY <1>1, <1>2 DEF Deliver
  <2> QED BY <2>1, NothingWaits
<1>20. Front(ShownStack) = <<>> /\ \A t : Yield(<<>>, t) = <<>>
  <2>1. <<>> \in Seq(Frame)
    OBVIOUS
  <2> QED BY <1>1, <1>3, <2>1, StackIs DEF Yield
<1>21. Advance(body, Shown) =
         Machine(NextNode, Yield(Front(ShownStack), vals[2]), [ShownEnv EXCEPT ![x] = vals[2]],
                 CallsOf(CurrentRun), CurrentRun.returned)
  BY <1>1, <1>3, <1>10, ConcludesAssignment DEF x, at
<1>22. Shown' = Machine(NextNode, <<>>, [ShownEnv EXCEPT ![x] = v], CallsOf(CurrentRun),
                        CurrentRun.returned)
  <2>1. NextNode' = NextNode
    BY <1>2, PlaceKept
  <2>2. value_table' = value_table
    BY <1>2
  <2> QED BY <1>12, <1>15, <1>17, <1>18, <1>19, <2>1, <2>2, ShownIs
<1> QED BY <1>11, <1>18, <1>19, <1>20, <1>21, <1>22

(* A return. *)
LEMMA ReturnShown ==
  ASSUME Fitting, FinishReturn, UNCHANGED tunit, CalleesThere(CurrentRun)
  PROVE  /\ Shown' = Advance(CurrentDef.body, Shown) /\ OperandsMade' /\ TargetsHeld'
         /\ CalleesThere(CurrentRun)'
<1> DEFINE body == CurrentDef.body
<1>1. Complete /\ TopNode \in Jump
  BY ReturnEmits
<1>2. PICK instr \in Instruction :
        /\ instr.op = "ret" /\ instr.operands = Top.operands /\ frames' = Front(frames)
        /\ UNCHANGED <<gen_pos, value_table>> /\ Extends(<<instr>>)
  BY ReturnEmits
<1>3. TopNode \in Node /\ ~IsAssignment(TopNode)
  BY <1>1, TopOperands, OneKind
<1>4. /\ InBodyNow /\ InDefinition /\ TopNode = body[Top.node]
      /\ Shown = Machine(NextNode, ShownStack, ShownEnv, CallsOf(CurrentRun), CurrentRun.returned)
      /\ Ready(body, Shown) /\ Innermost(Shown).node = Top.node
      /\ Innermost(Shown).vals = Terms(CurrentRun, Top.operands)
      /\ Front(ShownStack) = Stack(body, CurrentRun, Front(frames))
  BY <1>1, <1>3, CompleteShown
<1>5. Front(frames) = <<>>
  BY <1>1, <1>4, StatementAlone
<1>6. PICK vals : vals = Terms(CurrentRun, Top.operands)
  OBVIOUS
<1>7. PICK val : val = vals[1]
  OBVIOUS
<1>8. /\ Len(CurrentCode) \in Nat /\ IsRun(CurrentRun, Len(CurrentCode))
      /\ CurrentRun' = Step(CurrentRun, instr) /\ CurrentDef' = CurrentDef
  BY <1>2, OneRuns
<1>9. Step(CurrentRun, instr) = Result(CurrentRun, NoTerm, More(CurrentRun.memory, Unset),
                                       CurrentRun.calls, val)
  BY <1>2, <1>6, <1>7, ReturnSteps
<1>10. /\ CurrentRun'.memory = More(CurrentRun.memory, Unset)
       /\ CurrentRun'.calls = CurrentRun.calls /\ CurrentRun'.returned = val
  BY <1>8, <1>9, ResultFields
<1>11. Env(CurrentDef, value_table, CurrentRun') = ShownEnv
  <2>1. MemoryKept(CurrentRun, CurrentRun', Len(CurrentCode))
    BY <1>8, <1>10, MemoryLater
  <2> QED BY <1>4, <2>1, EnvKept DEF ShownEnv
<1>12. CallsOf(CurrentRun)' = CallsOf(CurrentRun) /\ CalleesThere(CurrentRun)'
  <2>1. <<instr>> \in Seq(Instruction)
    OBVIOUS
  <2> QED BY <1>2, <1>10, <2>1, CallsKept
<1>13. OperandsMade' /\ TargetsHeld' /\ Stack(body, CurrentRun', frames') = <<>>
  BY <1>2, <1>5, NothingWaits
<1>14. Front(ShownStack) = <<>>
  <2>1. <<>> \in Seq(Frame)
    OBVIOUS
  <2> QED BY <1>4, <1>5, <2>1, StackIs
<1>15. Advance(body, Shown) =
         Machine(NextNode, Front(ShownStack), ShownEnv, CallsOf(CurrentRun), vals[1])
  BY <1>1, <1>3, <1>4, <1>6, ConcludesReturn
<1>16. Shown' = Machine(NextNode, <<>>, ShownEnv, CallsOf(CurrentRun), val)
  <2>1. NextNode' = NextNode
    BY <1>2, PlaceKept
  <2>2. value_table' = value_table
    BY <1>2
  <2> QED BY <1>8, <1>10, <1>11, <1>12, <1>13, <2>1, <2>2, ShownIs
<1> QED BY <1>7, <1>12, <1>13, <1>14, <1>15, <1>16

----------------------------------------------------------------------------
(* The builder's arithmetic is that of the source. *)

(* A multiple of a number other than 0 is 0 or no less than it. *)
LEMMA Multiples ==
  ASSUME NEW d \in Int, NEW b \in Int, d # 0
  PROVE  /\ b > 0 => d * b >= b \/ d * b <= -b
         /\ b < 0 => d * b >= -b \/ d * b <= b
OBVIOUS

(* ... and leaves nothing when divided. *)
LEMMA NothingLeft ==
  ASSUME NEW j \in Int, NEW d \in Nat, d > 0
  PROVE  (j * d) % d = 0
<1> DEFINE x == (j * d) % d
           k == (j * d) \div d
<1>1. j * d \in Int
  OBVIOUS
<1>2. x \in 0 .. d - 1 /\ k \in Int /\ j * d = d * k + x
  BY <1>1
<1> HIDE DEF x, k
<1>3. j * d - d * k = (j - k) * d
  BY <1>2
<1>4. x = (j - k) * d
  BY <1>1, <1>2, <1>3
<1>5. j - k = 0
  BY <1>2, <1>4, Multiples
<1> QED BY <1>2, <1>4, <1>5 DEF x

(* What a number wraps around to is the number in range congruent to it. *)
LEMMA WrappedCongruent ==
  ASSUME NEW n \in Int
  PROVE  Wrapped(n) \in Ints /\ Congruent(n) = Wrapped(n)
<1> DEFINE w == Wrapped(n)
           d == 2 * Limit
<1>1. Limit \in Nat /\ Limit > 0
  BY LimitAssumption
<1>2. w \in Ints
  BY <1>1 DEF Wrapped, Ints
<1>3. \E j \in Int : n - w = j * d
  BY <1>1 DEF Wrapped
<1>4. (n - w) % d = 0
  <2>1. PICK j \in Int : n - w = j * d
    BY <1>3
  <2>2. (j * d) % d = 0
    BY <1>1, NothingLeft
  <2> QED BY <2>1, <2>2
<1>5. \A r \in Ints : (n - r) % d = 0 => r = w
  BY <1>1 DEF Wrapped, Ints
<1> QED BY <1>2, <1>4, <1>5 DEF Congruent

(* There is one quotient at most, ... *)
LEMMA OneQuotient ==
  ASSUME NEW a \in Int, NEW b \in Int, NEW p \in Int, NEW q \in Int,
         IsQuotient(p, a, b), IsQuotient(q, a, b)
  PROVE  p = q
<1> SUFFICES ASSUME p # q PROVE FALSE
  OBVIOUS
<1>1. (p - q) * b = p * b - q * b
  OBVIOUS
<1>2. b # 0
  BY DEF IsQuotient
<1>3. PICK s \in Int, t \in Int, u \in Int : s = p * b /\ t = q * b /\ u = (p - q) * b
  OBVIOUS
<1>4. u = s - t
  BY <1>1, <1>3
<1>5. p - q \in Int /\ p - q # 0
  OBVIOUS
<1>6. (b > 0 => u >= b \/ u <= -b) /\ (b < 0 => u >= -b \/ u <= b)
  BY <1>3, <1>5, Multiples
<1>7. /\ IF a >= 0 THEN 0 <= a - s /\ (a - s < b \/ a - s < -b)
                   ELSE a - s <= 0 /\ (-(a - s) < b \/ -(a - s) < -b)
      /\ IF a >= 0 THEN 0 <= a - t /\ (a - t < b \/ a - t < -b)
                   ELSE a - t <= 0 /\ (-(a - t) < b \/ -(a - t) < -b)
  BY <1>3 DEF IsQuotient
<1> QED BY <1>2, <1>4, <1>6, <1>7

(* ... the builder finds it where it says there is one, ... *)
LEMMA QuotientIs ==
  ASSUME NEW a \in Ints, NEW b \in Ints, Divides(a, b)
  PROVE  Quotient(a, b) \in Ints /\ IsQuotient(Quotient(a, b), a, b)
<1> DEFINE m == Magnitude(a)
           d == Magnitude(b)
           e == m \div d
           q == Quotient(a, b)
<1>1. /\ Limit \in Nat /\ Limit > 0 /\ a \in Int /\ b \in Int /\ b # 0
      /\ a >= -Limit /\ a < Limit
  BY LimitAssumption DEF Ints, Divides
<1>2. m \in Nat /\ d \in Nat /\ d > 0 /\ m <= Limit
  BY <1>1 DEF Magnitude
<1>3. e \in Nat /\ d * e <= m /\ m < d * e + d
  BY <1>2
<1>4. q = IF (a < 0) = (b < 0) THEN e ELSE -e
  BY DEF Quotient
<1>5. m = (IF a < 0 THEN -a ELSE a) /\ d = (IF b < 0 THEN -b ELSE b)
  BY DEF Magnitude
<1> HIDE DEF m, d, e, q
<1>6. PICK s \in Int : s = d * e
  BY <1>2, <1>3
<1>7. q * b = IF a < 0 THEN -s ELSE s
  <2>1. CASE b < 0
    <3>1. b = -d /\ (q = e \/ q = -e)
      BY <1>1, <1>2, <1>4, <1>5, <2>1
    <3>2. e * (-d) = -s /\ (-e) * (-d) = s
      BY <1>2, <1>3, <1>6
    <3> QED BY <1>1, <1>4, <2>1, <3>1, <3>2
  <2>2. CASE ~(b < 0)
    <3>1. b = d
      BY <1>1, <1>5, <2>2
    <3>2. e * d = s /\ (-e) * d = -s
      BY <1>2, <1>3, <1>6
    <3> QED BY <1>1, <1>4, <2>2, <3>1, <3>2
  <2> QED BY <2>1, <2>2
<1>8. IsQuotient(q, a, b)
  <2>1. PICK u : u = q * b
    OBVIOUS
  <2>2. IF a >= 0 THEN 0 <= a - u /\ (a - u < b \/ a - u < -b)
        ELSE a - u <= 0 /\ (-(a - u) < b \/ -(a - u) < -b)
    BY <1>1, <1>2, <1>3, <1>5, <1>6, <1>7, <2>1
  <2> QED BY <2>1, <2>2 DEF IsQuotient
<1> QED BY <1>8, QuotientInRange DEF q, Ints

(* ... and elsewhere there is none. *)
LEMMA NoQuotient ==
  ASSUME NEW a \in Ints, NEW b \in Ints, ~Divides(a, b), NEW q \in Ints
  PROVE  ~IsQuotient(q, a, b)
<1>1. /\ Limit \in Nat /\ Limit > 0 /\ a \in Int /\ b \in Int /\ q \in Int
      /\ q < Limit
  BY LimitAssumption DEF Ints
<1>2. CASE b = 0
  <2>1. q * b = 0
    BY <1>1, <1>2
  <2> QED BY <1>1, <1>2, <2>1 DEF IsQuotient
<1>3. CASE a = -Limit /\ b = -1
  <2>1. q * b = -q
    BY <1>1, <1>3
  <2> QED BY <1>1, <1>3, <2>1 DEF IsQuotient
<1> QED BY <1>2, <1>3 DEF Divides

(* So the two agree on all the numbers there are. *)
LEMMA QuotientsAre ==
  ASSUME NEW a \in Ints, NEW b \in Ints
  PROVE  Quotients(a, b) = IF Divides(a, b) THEN {Quotient(a, b)} ELSE {}
<1>1. CASE ~Divides(a, b)
  BY <1>1, NoQuotient DEF Quotients
<1>2. CASE Divides(a, b)
  <2>1. Quotient(a, b) \in Quotients(a, b)
    BY <1>2, QuotientIs DEF Quotients
  <2>2. \A q \in Quotients(a, b) : q = Quotient(a, b)
    <3>1. a \in Int /\ b \in Int /\ \A q \in Ints : q \in Int
      BY LimitAssumption DEF Ints
    <3> QED BY <2>1, <3>1, OneQuotient DEF Quotients
  <2>3. Quotients(a, b) = {Quotient(a, b)}
    BY <2>1, <2>2
  <2> QED BY <1>2, <2>3
<1> QED BY <1>1, <1>2

(* What is folded has the value the source gives it. *)
LEMMA FoldedMeans ==
  ASSUME NEW run, NEW op \in {"+", "-", "*", "/"}, NEW a, NEW b, IsConstant(a), IsConstant(b),
         a.k \in Ints, b.k \in Ints,
         NEW v \in Folded(op, a, b), NEW l, NEW r, l = TermOf(run, a), r = TermOf(run, b),
         NEW term, term = Apply(op, l, r), term # NoTerm
  PROVE  TermOf(run, v) = term
<1>1. \A k : /\ Num(k)[1] = "number" /\ Num(k)[2] = k /\ Num(k) # NoTerm
             /\ TermOf(run, Constant(k)) = Num(k)
  <2>1. \A k : Num(k)[1] = "number" /\ Num(k)[2] = k
    BY DEF Num
  <2>2. NoTerm[1] = "none"
    BY DEF NoTerm
  <2>3. \A k : Num(k) # NoTerm
    BY <2>1, <2>2
  <2>4. \A k : TermOf(run, Constant(k)) = Num(k)
    BY DEF TermOf, Constant
  <2> QED BY <2>1, <2>3, <2>4
<1>2. l # NoTerm /\ r # NoTerm
  BY DEF Apply
<1>3. a.kind = "constant" /\ b.kind = "constant"
  BY <1>2 DEF IsConstant, TermOf
<1>4. l = Num(a.k) /\ r = Num(b.k)
  BY <1>3 DEF TermOf
<1>5. Undef \notin {a, b}
  BY <1>3 DEF Undef
<1>6. Apply(op, l, r) =
        CASE op = "+" -> Num(Congruent(a.k + b.k))
          [] op = "-" -> Num(Congruent(a.k - b.k))
          [] op = "*" -> Num(Congruent(a.k * b.k))
          [] op = "/" -> IF Quotients(a.k, b.k) = {} THEN NoTerm
                         ELSE Num(CHOOSE q \in Quotients(a.k, b.k) : TRUE)
  BY <1>1, <1>2, <1>4 DEF Apply
<1>7. v = CASE op = "+" -> Constant(Wrapped(a.k + b.k))
            [] op = "-" -> Constant(Wrapped(a.k - b.k))
            [] op = "*" -> Constant(Wrapped(a.k * b.k))
            [] op = "/" -> IF Divides(a.k, b.k) THEN Constant(Quotient(a.k, b.k)) ELSE Undef
  BY <1>5 DEF Folded
<1>8. a.k \in Int /\ b.k \in Int
  BY LimitAssumption DEF Ints
<1>9. CASE op = "+"
  <2>1. Congruent(a.k + b.k) = Wrapped(a.k + b.k)
    BY <1>8, WrappedCongruent
  <2> QED BY <1>1, <1>6, <1>7, <1>9, <2>1
<1>10. CASE op = "-"
  <2>1. Congruent(a.k - b.k) = Wrapped(a.k - b.k)
    BY <1>8, WrappedCongruent
  <2> QED BY <1>1, <1>6, <1>7, <1>10, <2>1
<1>11. CASE op = "*"
  <2>1. Congruent(a.k * b.k) = Wrapped(a.k * b.k)
    BY <1>8, WrappedCongruent
  <2> QED BY <1>1, <1>6, <1>7, <1>11, <2>1
<1>12. CASE op = "/"
  <2>1. Divides(a.k, b.k) /\ Quotients(a.k, b.k) = {Quotient(a.k, b.k)}
    BY <1>6, <1>12, QuotientsAre
  <2>2. (CHOOSE q \in Quotients(a.k, b.k) : TRUE) = Quotient(a.k, b.k)
    BY <2>1
  <2> QED BY <1>1, <1>6, <1>7, <1>12, <2>1, <2>2
<1> QED BY <1>9, <1>10, <1>11, <1>12

(* An operation on constants. *)
LEMMA FoldShown ==
  ASSUME Fitting, NothingDangles, FoldConstants, UNCHANGED tunit, OperandsMade, TargetsHeld,
         Advance(CurrentDef.body, Shown).defined
  PROVE  /\ Shown' = Advance(CurrentDef.body, Shown) /\ OperandsMade' /\ TargetsHeld'
         /\ CalleesThere(CurrentRun) => CalleesThere(CurrentRun)'
<1> DEFINE body == CurrentDef.body
<1>1. /\ Complete /\ TopNode \in Binary /\ TopNode.op # "=" /\ Generating /\ AllConstant
      /\ UNCHANGED <<gen_pos, functions, value_table, insert_point>>
  BY DEF FoldConstants, tables, Fitting
<1>2. PICK a, b : a = Top.operands[1] /\ b = Top.operands[2]
  OBVIOUS
<1>3. PICK v \in Folded(TopNode.op, a, b) : frames' = Deliver(Front(frames), v)
  BY <1>2 DEF FoldConstants
<1>4. /\ TopNode.op \in {"+", "-", "*", "/"} /\ a \in Value /\ b \in Value
      /\ 1 \in DOMAIN Top.operands /\ 2 \in DOMAIN Top.operands
  BY <1>1, <1>2, BinaryOperands, TopOperands
<1>5. IsConstant(a) /\ IsConstant(b)
  BY <1>1, <1>2, <1>4 DEF AllConstant
<1>6. v \in Value /\ IsConstant(v)
  BY <1>1, <1>3, <1>4, FoldedIsValue, FoldedIsConstant
<1>7. /\ InBodyNow /\ InDefinition /\ TopNode \in Node /\ TopNode = body[Top.node]
      /\ ~IsAssignment(TopNode)
      /\ Shown = Machine(NextNode, ShownStack, ShownEnv, CallsOf(CurrentRun), CurrentRun.returned)
      /\ Ready(body, Shown) /\ Innermost(Shown).node = Top.node
      /\ Innermost(Shown).vals = Terms(CurrentRun, Top.operands)
      /\ PartOfStack(Front(frames))
      /\ Front(ShownStack) = Stack(body, CurrentRun, Front(frames))
  <2>1. ~IsAssignment(TopNode)
    BY <1>1 DEF IsAssignment
  <2> QED BY <1>1, <2>1, CompleteShown
<1>8. PICK vals : vals = Terms(CurrentRun, Top.operands)
  OBVIOUS
<1>9. vals[1] = TermOf(CurrentRun, a) /\ vals[2] = TermOf(CurrentRun, b)
  BY <1>2, <1>4, <1>8 DEF Terms
<1>10. PICK term : term = Apply(TopNode.op, vals[1], vals[2])
  OBVIOUS
<1>11. /\ term # NoTerm
       /\ Advance(body, Shown) = Machine(NextNode, Yield(Front(ShownStack), term), ShownEnv,
                                         CallsOf(CurrentRun), CurrentRun.returned)
  BY <1>1, <1>7, <1>8, <1>10, ConcludesBinary
<1>12. TermOf(CurrentRun, v) = term
  <2>1. PICK op : op = TopNode.op
    OBVIOUS
  <2>2. PICK l, r : l = vals[1] /\ r = vals[2]
    OBVIOUS
  <2>3. op \in {"+", "-", "*", "/"} /\ v \in Folded(op, a, b)
    BY <1>3, <1>4, <2>1
  <2>4. l = TermOf(CurrentRun, a) /\ r = TermOf(CurrentRun, b) /\ term = Apply(op, l, r)
    BY <1>9, <1>10, <2>1, <2>2
  <2>5. a.k \in Ints /\ b.k \in Ints
    <3>1. status # "crashed"
      BY <1>1 DEF Generating
    <3>2. MadeIn(functions, a) /\ MadeIn(functions, b)
      BY <1>1, <1>2, <1>4, <3>1, DanglingMade, TopMade DEF AllMadeIn
    <3> QED BY <1>5, <3>2 DEF MadeIn, Ints
  <2> HIDE DEF body
  <2> QED BY <1>5, <1>11, <2>3, <2>4, <2>5, FoldedMeans
<1>13. /\ Shown' = Machine(NextNode', Stack(body, CurrentRun, frames'), ShownEnv,
                           CallsOf(CurrentRun), CurrentRun.returned)
       /\ CurrentDef' = CurrentDef /\ CurrentCode' = CurrentCode
       /\ CalleesThere(CurrentRun) => CalleesThere(CurrentRun)'
  BY <1>1, QuietStep
<1>14. /\ OperandsMade' /\ TargetsHeld'
       /\ Stack(body, CurrentRun, frames') = Yield(Front(ShownStack), TermOf(CurrentRun, v))
  <2>1. Len(CurrentCode) \in Nat /\ Len(CurrentCode') = Len(CurrentCode)
    BY <1>7, <1>13, InCode
  <2>2. ResultsKept(CurrentRun, CurrentRun, Len(CurrentCode))
    BY DEF ResultsKept
  <2>3. v.kind \notin {"alloca", "result"}
    BY <1>6 DEF IsConstant
  <2> QED BY <1>1, <1>3, <1>6, <1>7, <1>13, <2>1, <2>2, <2>3, PartYields
<1>15. NextNode' = NextNode
  BY <1>1, PlaceKept
<1> QED BY <1>11, <1>12, <1>13, <1>14, <1>15

----------------------------------------------------------------------------
(* A step inside a body is a tick of the source's machine. *)

TakesNode  == GenNumber \/ GenIdentifier \/ BeginExpression \/ BeginAssignment
FinishesOp ==
  FoldConstants \/ FinishBinary \/ FinishAssignment \/ FinishCall \/ FinishReturn

(* What is delivered leaves the stack as high as it is. *)
LEMMA DeliveredHeight ==
  ASSUME NEW stack \in Seq(Frame), NEW v \in Value
  PROVE  Len(Deliver(stack, v)) = Len(stack)
<1>1. CASE stack = <<>>
  BY <1>1 DEF Deliver
<1>2. CASE stack # <<>>
  BY <1>2, DeliverIs
<1> QED BY <1>1, <1>2

(* A node is taken, or two, and at most one more expression waits. *)
LEMMA TakeMoves ==
  ASSUME Fitting, TakesNode, UNCHANGED tunit
  PROVE  /\ gen_pos.at = "node"
         /\ \/ Pass(1) /\ Len(frames') = Len(frames)
            \/ Pass(1) /\ Len(frames') = Len(frames) + 1
            \/ /\ Pass(2) /\ IsAssignment(CurrentDef.body[gen_pos.k])
               /\ Len(frames') = Len(frames) + 1
<1>1. frames \in Seq(Frame)
  BY GeneratingFacts DEF Fitting
<1>2. gen_pos.at = "node"
  BY DEF TakesNode, GenNumber, GenIdentifier, BeginExpression, BeginAssignment, AtNode
<1>3. GenBody = CurrentDef.body /\ CurrentDef.body[gen_pos.k] \in Node
  BY <1>2, NodesPass
<1>4. CASE GenNumber
  <2>1. PICK v : v = Constant(GenBody[gen_pos.k].value)
    OBVIOUS
  <2>2. GenBody[gen_pos.k] \in Number
    BY <1>3, <1>4, KindsApart DEF GenNumber, AtNode
  <2>3. v \in Value
    BY <2>1, <2>2, ConstantIsValue DEF Number
  <2>4. frames' = Deliver(frames, v) /\ Pass(1)
    BY <1>4, <2>1 DEF GenNumber
  <2> QED BY <1>1, <1>2, <2>3, <2>4, DeliveredHeight
<1>5. CASE GenIdentifier
  <2>1. PICK v \in Value : frames' = Deliver(frames, v) /\ Pass(1)
    BY <1>5, IdentifierEmits
  <2> QED BY <1>1, <1>2, <2>1, DeliveredHeight
<1>6. CASE BeginExpression
  <2>1. PICK frame : frames' = Append(frames, frame) /\ Pass(1)
    BY <1>6 DEF BeginExpression
  <2> QED BY <1>1, <1>2, <2>1
<1>7. CASE BeginAssignment
  <2>1. PICK frame : frames' = Append(frames, frame) /\ Pass(2)
    <3>1. status' = "generating"
      BY <1>7, BeginAssignmentFits
    <3> QED BY <1>7, <3>1 DEF BeginAssignment, Stop
  <2>2. IsAssignment(CurrentDef.body[gen_pos.k])
    BY <1>3, <1>7, KindsApart DEF BeginAssignment, AtNode
  <2> QED BY <1>1, <1>2, <2>1, <2>2
<1> QED BY <1>4, <1>5, <1>6, <1>7 DEF TakesNode

(* One expression less waits. *)
LEMMA FinishMoves ==
  ASSUME Fitting, FinishesOp, UNCHANGED tunit
  PROVE  Complete /\ UNCHANGED gen_pos /\ Len(frames') = Len(frames) - 1
<1>1. Complete
  BY DEF FinishesOp, FoldConstants, FinishBinary, FinishAssignment, FinishCall, FinishReturn
<1>2. frames \in Seq(Frame) /\ frames # <<>>
  BY <1>1, GeneratingFacts DEF Fitting, Complete
<1>3. Front(frames) \in Seq(Frame) /\ Len(Front(frames)) = Len(frames) - 1
  BY <1>2, FrontOfStack
<1>4. /\ UNCHANGED gen_pos
      /\ frames' = Front(frames) \/ \E v \in Value : frames' = Deliver(Front(frames), v)
  <2>1. CASE FoldConstants
    <3>1. PICK a, b : a = Top.operands[1] /\ b = Top.operands[2]
      OBVIOUS
    <3>2. TopNode.op \in {"+", "-", "*", "/"} /\ a \in Value /\ b \in Value
      BY <1>1, <2>1, <3>1, BinaryOperands, TopOperands DEF FoldConstants, Fitting
    <3>3. PICK v \in Folded(TopNode.op, a, b) : frames' = Deliver(Front(frames), v)
      BY <2>1, <3>1 DEF FoldConstants
    <3>4. v \in Value
      BY <3>2, <3>3, FoldedIsValue
    <3> QED BY <2>1, <3>3, <3>4 DEF FoldConstants
  <2>2. CASE FinishBinary
    BY <2>2, BinaryEmits
  <2>3. CASE FinishAssignment
    BY <2>3, AssignmentEmits
  <2>4. CASE FinishCall
    BY <2>4, CallEmits
  <2>5. CASE FinishReturn
    BY <2>5, ReturnEmits
  <2> QED BY <2>1, <2>2, <2>3, <2>4, <2>5 DEF FinishesOp
<1> QED BY <1>1, <1>3, <1>4, DeliveredHeight

(* How much of a body is behind the generator: every step inside it adds to *)
(* that.                                                                    *)
Way(next, waiting) == 2 * (next - 1) - waiting

LEMMA BodyMoves ==
  ASSUME Fitting, TakesNode \/ FinishesOp, UNCHANGED tunit
  PROVE  /\ InBodyNow /\ InDefinition /\ InBodyNow' /\ CurrentDef' = CurrentDef
         /\ NextNode \in Nat /\ NextNode' \in Nat /\ NextNode' <= Len(CurrentDef.body) + 1
         /\ Len(CurrentDef.body) \in Nat /\ Len(frames) \in Nat /\ Len(frames') \in Nat
         /\ Way(NextNode', Len(frames')) >= Way(NextNode, Len(frames)) + 1
<1> DEFINE body == CurrentDef.body
<1>1. Len(frames) \in Nat /\ (frames # <<>> => Len(frames) > 0)
  BY GeneratingFacts DEF Fitting
<1>2. CASE TakesNode
  <2>1. /\ InBodyNow /\ InDefinition /\ NextNode = gen_pos.k /\ gen_pos.k \in 1 .. Len(body)
        /\ Len(body) \in Nat
    BY <1>2, TakeMoves, NodesPass
  <2>2. ASSUME Pass(1) PROVE InBodyNow' /\ gen_pos'.fn = gen_pos.fn /\ NextNode' = gen_pos.k + 1
    BY <1>2, <2>2, TakeMoves, NodesPass
  <2>3. ASSUME Pass(2), IsAssignment(body[gen_pos.k])
        PROVE  InBodyNow' /\ gen_pos'.fn = gen_pos.fn /\ NextNode' = gen_pos.k + 2
    BY <1>2, <2>3, TakeMoves, NodesPass
  <2>4. InBodyNow' /\ gen_pos'.fn = gen_pos.fn /\ \E n \in {1, 2} : Pass(n)
    BY <1>2, <2>2, <2>3, TakeMoves
  <2>5. CurrentDef' = CurrentDef
    BY <2>4 DEF CurrentDef
  <2>6. NextNode' <= Len(body) + 1
    <3>1. gen_pos'.at = "node" => gen_pos'.k \in DOMAIN body
      <4>1. IsPlace(gen_pos')
        BY <1>2, <2>4, TakeMoves, PassPlace DEF Fitting
      <4> QED BY <2>4, <4>1 DEF IsPlace, Within, CurrentDef
    <3>2. DOMAIN body = 1 .. Len(body)
      BY <2>1, InCode
    <3>3. NextNode' = IF gen_pos'.at = "node" THEN gen_pos'.k ELSE Len(body) + 1
      BY <2>5 DEF NextNode
    <3> QED BY <2>1, <3>1, <3>2, <3>3
  <2>7. \/ NextNode' = NextNode + 1 /\ Len(frames') = Len(frames)
        \/ NextNode' = NextNode + 1 /\ Len(frames') = Len(frames) + 1
        \/ NextNode' = NextNode + 2 /\ Len(frames') = Len(frames) + 1
    BY <1>2, <2>1, <2>2, <2>3, TakeMoves
  <2>8. NextNode \in Nat /\ NextNode' \in Nat /\ Len(frames') \in Nat
    BY <1>1, <2>1, <2>7
  <2>9. Way(NextNode', Len(frames')) >= Way(NextNode, Len(frames)) + 1
    <3>1. PICK next, waiting : next = NextNode /\ waiting = Len(frames)
      OBVIOUS
    <3>2. PICK next2, waiting2 : next2 = NextNode' /\ waiting2 = Len(frames')
      OBVIOUS
    <3>3. next \in Nat /\ waiting \in Nat
          /\ \/ next2 = next + 1 /\ waiting2 = waiting
             \/ next2 = next + 1 /\ waiting2 = waiting + 1
             \/ next2 = next + 2 /\ waiting2 = waiting + 1
      BY <1>1, <2>7, <2>8, <3>1, <3>2
    <3>4. 2 * (next2 - 1) - waiting2 >= 2 * (next - 1) - waiting + 1
      BY <3>3
    <3> QED BY <3>1, <3>2, <3>4 DEF Way
  <2> QED BY <1>1, <2>1, <2>4, <2>5, <2>6, <2>8, <2>9
<1>3. CASE FinishesOp
  <2>1. Complete /\ UNCHANGED gen_pos /\ Len(frames') = Len(frames) - 1 /\ frames # <<>>
    BY <1>3, FinishMoves DEF Complete
  <2>2. InBodyNow /\ InDefinition
    BY <2>1, CompleteShown
  <2>3. NextNode' = NextNode /\ CurrentDef' = CurrentDef /\ InBodyNow'
    BY <2>1, <2>2, PlaceKept
  <2>4. Len(body) \in Nat /\ DOMAIN body = 1 .. Len(body)
    BY <2>2, InCode
  <2>5. NextNode \in Nat /\ NextNode <= Len(body) + 1
    <3>1. gen_pos.at = "node" => gen_pos.k \in 1 .. Len(body)
      BY NodesPass
    <3> QED BY <2>4, <3>1 DEF NextNode
  <2> QED BY <1>1, <2>1, <2>2, <2>3, <2>4, <2>5 DEF Way
<1> QED BY <1>2, <1>3

(* What a step leads to is what the machine shows after a tick. *)
LEMMA BodyTick ==
  ASSUME Fitting, NothingDangles, TakesNode \/ FinishesOp, UNCHANGED tunit,
         OperandsMade, TargetsHeld, CalleesThere(CurrentRun),
         Advance(CurrentDef.body, Shown).defined
  PROVE  /\ Shown' = Advance(CurrentDef.body, Shown) /\ OperandsMade' /\ TargetsHeld'
         /\ CalleesThere(CurrentRun)'
<1>1. CASE TakesNode
  BY <1>1, NumberShown, IdentifierShown, ExpressionShown, AssignmentBegunShown DEF TakesNode
<1>2. CASE FinishesOp
  BY <1>2, FoldShown, BinaryShown, AssignmentShown, CallShown, ReturnShown DEF FinishesOp
<1> QED BY <1>1, <1>2

(* A machine that has stopped stays as it is. *)
LEMMA StoppedRests ==
  ASSUME NEW body, NEW m, ~m.defined
  PROVE  Advance(body, m) = m
BY DEF Advance

LEMMA SimulatedStep ==
  ASSUME Fitting, NothingDangles, TakesNode \/ FinishesOp, UNCHANGED tunit, Simulated
  PROVE  Simulated'
<1> DEFINE body == CurrentDef.body
<1>1. /\ InBodyNow /\ InDefinition /\ InBodyNow' /\ CurrentDef' = CurrentDef
      /\ NextNode \in Nat /\ NextNode' \in Nat /\ NextNode' <= Len(body) + 1
      /\ Len(body) \in Nat /\ Len(frames) \in Nat /\ Len(frames') \in Nat
      /\ Way(NextNode', Len(frames')) >= Way(NextNode, Len(frames)) + 1
  BY BodyMoves
<1>2. PICK t \in 0 .. Ticks(CurrentDef) :
        /\ t <= Way(NextNode, Len(frames))
        /\ Course(CurrentDef)[t].defined =>
             /\ Course(CurrentDef)[t] = Shown
             /\ OperandsMade /\ TargetsHeld
             /\ CalleesThere(CurrentRun)
  BY <1>1 DEF Simulated, InBodyNow, Way
<1>3. /\ Ticks(CurrentDef) = 2 * Len(body)
      /\ \A n \in 0 .. (Ticks(CurrentDef) - 1) :
           Course(CurrentDef)[n + 1] = Advance(body, Course(CurrentDef)[n])
  BY <1>1, InCode, CourseIs DEF Ticks
<1>4. /\ t \in Nat /\ t + 1 <= Way(NextNode', Len(frames')) /\ t + 1 <= 2 * Len(body)
      /\ t \in 0 .. (Ticks(CurrentDef) - 1) /\ t + 1 \in 0 .. Ticks(CurrentDef)
  <2>1. PICK n : n = Len(body)
    OBVIOUS
  <2>2. PICK ticks : ticks = Ticks(CurrentDef)
    OBVIOUS
  <2>3. n \in Nat /\ ticks = 2 * n /\ ticks \in Nat
    BY <1>1, <1>3, <2>1, <2>2
  <2>4. t \in Nat
    BY <1>2, <2>2, <2>3
  <2>5. PICK now, later : now = Way(NextNode, Len(frames)) /\ later = Way(NextNode', Len(frames'))
    OBVIOUS
  <2>6. now \in Int /\ later \in Int /\ later <= 2 * n
    <3>1. PICK a, b, c, e : a = NextNode /\ b = Len(frames) /\ c = NextNode' /\ e = Len(frames')
      OBVIOUS
    <3>2. now = 2 * (a - 1) - b /\ later = 2 * (c - 1) - e
      BY <2>5, <3>1 DEF Way
    <3>3. a \in Nat /\ b \in Nat /\ c \in Nat /\ e \in Nat /\ c <= n + 1
      BY <1>1, <2>1, <3>1
    <3> QED BY <2>3, <3>2, <3>3
  <2>7. t <= now /\ later >= now + 1
    BY <1>1, <1>2, <2>5
  <2>8. t + 1 <= Way(NextNode', Len(frames')) /\ t + 1 <= 2 * n
    BY <2>3, <2>4, <2>5, <2>6, <2>7
  <2> QED BY <2>1, <2>2, <2>3, <2>4, <2>8
<1>5. Course(CurrentDef)[t + 1] = Advance(body, Course(CurrentDef)[t])
  BY <1>3, <1>4
<1>6. ASSUME Course(CurrentDef)[t + 1].defined
      PROVE  /\ Course(CurrentDef)[t + 1] = Shown' /\ OperandsMade' /\ TargetsHeld'
             /\ CalleesThere(CurrentRun)'
  <2>1. Course(CurrentDef)[t].defined
    BY <1>5, <1>6, StoppedRests
  <2> QED BY <1>2, <1>5, <1>6, <2>1, BodyTick
<1>7. \E n \in 0 .. Ticks(CurrentDef') :
        /\ n <= 2 * (NextNode' - 1) - Len(frames')
        /\ Course(CurrentDef')[n].defined =>
             /\ Course(CurrentDef')[n] = Shown'
             /\ OperandsMade' /\ TargetsHeld'
             /\ CalleesThere(CurrentRun)'
  BY <1>1, <1>4, <1>6 DEF Way
<1> QED BY <1>7 DEF Simulated

----------------------------------------------------------------------------
(* The definitions the generator has left behind. *)

(* The functions that are there keep their names. *)
NamesKept == \A f \in DOMAIN functions :
               f \in DOMAIN functions' /\ functions'[f].name = functions[f].name

LeftBehind(i) == Begun(i) /\ (InDefinition => i # gen_pos.fn)

(* What BodiesMean says of one definition. *)
Means(def, code) ==
  /\ SameObserved(def, code)
  /\ SourceRun(def).defined => CalleesThere(Run(code))

LEMMA BodiesMeanIs ==
  BodiesMean <=> \A i \in DOMAIN tunit.defs :
                   LeftBehind(i) => Means(tunit.defs[i], functions[FunctionOf(i)].code)
BY DEF BodiesMean, LeftBehind, Means

LEMMA MeansKept ==
  ASSUME NamesKept, NEW def, NEW code, Means(def, code)
  PROVE  Means(def, code)'
<1> SUFFICES ASSUME SourceRun(def).defined
             PROVE  /\ CallsOf(Run(code))' = SourceRun(def).calls
                    /\ Run(code).returned = SourceRun(def).returned
                    /\ CalleesThere(Run(code))'
  BY DEF Means, SameObserved
<1>1. PICK run : run = Run(code)
  OBVIOUS
<1>2. CallsOf(run) = SourceRun(def).calls /\ CalleesThere(run)
      /\ Run(code).returned = SourceRun(def).returned
  BY <1>1 DEF Means, SameObserved
<1>3. CallsOf(run)' = CallsOf(run) /\ CalleesThere(run)'
  BY <1>2 DEF CallsOf, CalleesThere, NamesKept
<1> QED BY <1>1, <1>2, <1>3

(* They still do what their source does while nothing happens to them. *)
LEMMA BodiesKept ==
  ASSUME BodiesMean, NamesKept, UNCHANGED tunit,
         \A i \in DOMAIN tunit.defs : LeftBehind(i)' =>
           /\ LeftBehind(i)
           /\ functions'[FunctionOf(i)'].code = functions[FunctionOf(i)].code
  PROVE  BodiesMean'
<1> SUFFICES ASSUME NEW i \in DOMAIN tunit.defs, LeftBehind(i)'
             PROVE  Means(tunit.defs[i], functions[FunctionOf(i)].code)'
  BY DEF BodiesMean, LeftBehind, Means
<1>1. PICK def, code : def = tunit.defs[i] /\ code = functions[FunctionOf(i)].code
  OBVIOUS
<1>2. Means(def, code)
  BY <1>1, BodiesMeanIs
<1>3. Means(def, code)'
  BY <1>2, MeansKept
<1>4. def = tunit'.defs[i] /\ code = functions'[FunctionOf(i)'].code
  BY <1>1
<1> QED BY <1>3, <1>4

(* Inside a definition only its own function changes. *)
LEMMA BodiesBeside ==
  ASSUME Fitting, BodiesMean, BodyEffect, UNCHANGED tunit
  PROVE  BodiesMean'
<1>0. /\ InDefinition /\ InDefinition' /\ gen_pos'.fn = gen_pos.fn /\ UNCHANGED func_map
      /\ insert_point \in DOMAIN functions /\ functions \in Seq(LlvmFunction)
  BY InCode DEF BodyEffect, InDefinition
<1>1. /\ NamesKept
      /\ \A f \in DOMAIN functions : f # insert_point => functions'[f].code = functions[f].code
  <2>1. CASE UNCHANGED functions
    BY <2>1 DEF NamesKept
  <2>2. CASE \E instrs \in Seq(Instruction) : Appended(instrs)
    BY <1>0, <2>2, AppendedFunctions DEF NamesKept
  <2> QED BY <2>1, <2>2 DEF BodyEffect
<1>2. \A i \in DOMAIN tunit.defs : LeftBehind(i)' => LeftBehind(i)
  BY <1>0 DEF LeftBehind, Begun, InDefinition
<1>3. ASSUME NEW i \in DOMAIN tunit.defs, LeftBehind(i)
      PROVE  functions'[FunctionOf(i)'].code = functions[FunctionOf(i)].code
  <2>1. FunctionOf(i)' = FunctionOf(i)
    BY <1>0 DEF FunctionOf
  <2>2. FunctionOf(i) \in DOMAIN functions /\ FunctionOf(i) # insert_point
    BY <1>0, <1>3, FunctionsApart DEF LeftBehind
  <2> QED BY <1>1, <2>1, <2>2
<1> QED BY <1>1, <1>2, <1>3, BodiesKept

----------------------------------------------------------------------------
(* The storage of the parameters and the local variables. *)

(* The run has filled the storage of p parameters and v variables. *)
Filled(def, run, p, v) ==
  /\ \A k \in 1 .. p : run.memory[2 * k - 1] = Param(k)
  /\ \A k \in 1 .. v : run.memory[2 * Len(def.params) + k] = Unset
  /\ run.calls = <<>> /\ run.returned = NoTerm

(* New storage is unset ... *)
LEMMA AllocaRuns ==
  ASSUME NEW run, NEW n \in Nat, IsRun(run, n), NEW make \in Instruction, make.op = "alloca",
         NEW new, new = Step(run, make)
  PROVE  /\ IsRun(new, n + 1) /\ MemoryKept(run, new, n) /\ new.memory[n + 1] = Unset
         /\ new.calls = run.calls /\ new.returned = run.returned
<1>1. IsRun(new, n + 1)
  BY StepRuns
<1>2. /\ new.memory = More(run.memory, Unset)
      /\ new.calls = run.calls /\ new.returned = run.returned
  BY AllocaSteps, ResultFields
<1>3. Ordered(run.memory, n)
  BY DEF IsRun
<1> QED BY <1>1, <1>2, <1>3, MoreIs, MemoryLater

(* ... until something is stored in it. *)
LEMMA StoreRuns ==
  ASSUME NEW run, NEW n \in Nat, IsRun(run, n), NEW put \in Instruction, put.op = "store",
         NEW place \in 1 .. n, put.operands[2].k = place, 1 \in DOMAIN put.operands,
         NEW term, term = TermOf(run, put.operands[1]),
         NEW new, new = Step(run, put)
  PROVE  /\ IsRun(new, n + 1) /\ PlaceStored(run, new, n, place, term)
         /\ new.calls = run.calls /\ new.returned = run.returned
<1>1. IsRun(new, n + 1)
  BY StepRuns
<1>2. Terms(run, put.operands)[1] = term
  BY DEF Terms
<1>3. /\ new.memory = Stored(run.memory, place, term)
      /\ new.calls = run.calls /\ new.returned = run.returned
  BY <1>2, StoreSteps, ResultFields
<1>4. Ordered(run.memory, n)
  BY DEF IsRun
<1> QED BY <1>1, <1>3, <1>4, StoredIs DEF PlaceStored

(* Nothing of a body has been taken where it is entered. *)
LEMMA BodyEntered ==
  ASSUME tunit \in TranslationUnit, UNCHANGED tunit, NEW i \in DOMAIN tunit.defs, NEW k \in Nat,
         gen_pos' = EnterParam(tunit, i, k) \/ gen_pos' = EnterVar(tunit, i, k)
  PROVE  InBodyNow' => NextNode' = 1
<1>1. Len(tunit.defs[i].body) \in Nat
  BY UnitType
<1>2. \/ gen_pos'.at \in {"param", "var"}
      \/ gen_pos' = EnterNode(tunit, i, 1)
  BY DEF EnterParam, EnterVar, At
<1>3. CASE gen_pos'.at \in {"param", "var"}
  BY <1>3 DEF InBodyNow
<1>4. CASE gen_pos' = EnterNode(tunit, i, 1)
  <2>1. CASE 1 <= Len(tunit.defs[i].body)
    BY <1>4, <2>1 DEF EnterNode, At, NextNode
  <2>2. CASE ~(1 <= Len(tunit.defs[i].body))
    <3>1. gen_pos'.at = "post_def" /\ gen_pos'.fn = i
      BY <1>4, <2>2 DEF EnterNode, At
    <3>2. CurrentDef' = tunit.defs[i]
      BY <3>1 DEF CurrentDef
    <3> QED BY <1>1, <2>2, <3>1, <3>2 DEF NextNode
  <2> QED BY <2>1, <2>2
<1> QED BY <1>2, <1>3, <1>4

(* With the storage of all of them the variables are as the source has them *)
(* at the beginning.                                                        *)
LEMMA FilledEnv ==
  ASSUME NEW def, def.params \in Seq(VarNames), def.vars \in Seq(VarNames),
         \A j, k \in DOMAIN def.params : def.params[j] = def.params[k] => j = k,
         NEW table, NEW run,
         \A k \in DOMAIN def.vars : run.memory[table[def.vars[k]].k] = Unset,
         \A k \in DOMAIN def.params : ~Contains(def.vars, def.params[k]) =>
           run.memory[table[def.params[k]].k] = Param(k)
  PROVE  Env(def, table, run) = Started(def).env
<1> DEFINE started == [x \in VarNames |->
              IF Contains(def.vars, x) \/ ~Contains(def.params, x) THEN Unset
              ELSE Param(CHOOSE k \in DOMAIN def.params : def.params[k] = x)]
<1>1. Started(def).env = started
  BY DEF Started
<1>2. \A s \in Seq(VarNames) : \A x : Contains(s, x) <=> \E k \in DOMAIN s : s[k] = x
  BY DEF Contains
<1>3. ASSUME NEW x \in VarNames
      PROVE  (IF Named(def, x) THEN run.memory[table[x].k] ELSE Unset) = started[x]
  <2>1. CASE Contains(def.vars, x)
    <3>1. PICK k \in DOMAIN def.vars : def.vars[k] = x
      BY <1>2, <2>1
    <3>2. run.memory[table[x].k] = Unset
      BY <3>1
    <3> QED BY <2>1, <3>2 DEF Named
  <2>2. CASE ~Contains(def.vars, x) /\ Contains(def.params, x)
    <3>1. PICK k \in DOMAIN def.params : def.params[k] = x
      BY <1>2, <2>2
    <3>2. run.memory[table[x].k] = Param(k)
      BY <2>2, <3>1
    <3>3. k = CHOOSE j \in DOMAIN def.params : def.params[j] = x
      BY <3>1
    <3> QED BY <2>2, <3>2, <3>3 DEF Named
  <2>3. CASE ~Contains(def.vars, x) /\ ~Contains(def.params, x)
    BY <2>3 DEF Named
  <2> QED BY <2>1, <2>2, <2>3
<1> QED BY <1>1, <1>3 DEF Env

(* What is stored leads to the machine as it is started. *)
LEMMA StorageLeads ==
  ASSUME UNCHANGED tunit, CurrentDef' = CurrentDef, InDefinition', frames' = <<>>,
         NEW def \in Definition, def = CurrentDef,
         \A j, k \in DOMAIN def.params : def.params[j] = def.params[k] => j = k,
         StorageByName', InBodyNow' => NextNode' = 1,
         Filled(def, CurrentRun', ParamsStored', VarsStored')
  PROVE  StorageFilled' /\ Simulated'
<1>1. def.params \in Seq(VarNames) /\ def.vars \in Seq(VarNames) /\ def.body \in Seq(Node)
      /\ Len(def.params) \in Nat /\ Len(def.vars) \in Nat
  BY DEF Definition
<1>2. StorageFilled'
  BY DEF StorageFilled, Filled
<1>3. ASSUME InBodyNow' PROVE Shown' = Started(def)
  <2>0. /\ \A k \in 1 .. VarsStored' :
             value_table'[CurrentDef'.vars[k]] = Storage(2 * Len(CurrentDef.params) + k)'
        /\ \A k \in 1 .. ParamsStored' :
             (\A l \in 1 .. VarsStored' : CurrentDef'.vars[l] # CurrentDef'.params[k]) =>
               value_table'[CurrentDef'.params[k]] = Storage(2 * k - 1)'
    BY DEF StorageByName
  <2>1. ParamsStored' = Len(def.params) /\ VarsStored' = Len(def.vars)
    BY <1>3 DEF InBodyNow, ParamsStored, VarsStored
  <2>2. ASSUME NEW k \in DOMAIN def.vars
        PROVE  CurrentRun'.memory[value_table'[def.vars[k]].k] = Unset
    <3>1. k \in 1 .. VarsStored'
      BY <1>1, <2>1
    <3>2. value_table'[def.vars[k]].k = 2 * Len(def.params) + k
      <4>1. value_table'[CurrentDef'.vars[k]] = Storage(2 * Len(CurrentDef.params) + k)'
        BY <2>0, <3>1
      <4>2. value_table'[CurrentDef'.vars[k]].k = 2 * Len(CurrentDef'.params) + k
        BY <4>1 DEF Storage
      <4> QED BY <4>2
    <3> QED BY <3>1, <3>2 DEF Filled
  <2>3. ASSUME NEW k \in DOMAIN def.params, ~Contains(def.vars, def.params[k])
        PROVE  CurrentRun'.memory[value_table'[def.params[k]].k] = Param(k)
    <3>1. k \in 1 .. ParamsStored'
      BY <1>1, <2>1
    <3>2. \A l \in 1 .. VarsStored' : def.vars[l] # def.params[k]
      BY <2>1, <2>3 DEF Contains
    <3>3. value_table'[def.params[k]].k = 2 * k - 1
      <4>1. value_table'[CurrentDef'.params[k]] = Storage(2 * k - 1)'
        BY <2>0, <3>1, <3>2
      <4>2. value_table'[CurrentDef'.params[k]].k = 2 * k - 1
        BY <4>1 DEF Storage
      <4> QED BY <4>2
    <3> QED BY <3>1, <3>3 DEF Filled
  <2>4. Env(def, value_table', CurrentRun') = Started(def).env
    BY <1>1, <2>2, <2>3, FilledEnv
  <2>5. CallsOf(CurrentRun)' = <<>> /\ CurrentRun'.returned = NoTerm
    BY DEF Filled, CallsOf
  <2>6. Stack(def.body, CurrentRun', frames') = <<>>
    BY NothingWaits
  <2>7. Shown' = Machine(1, <<>>, Started(def).env, <<>>, NoTerm)
    BY <1>3, <2>4, <2>5, <2>6, ShownIs
  <2>8. Started(def) = Machine(1, <<>>, Started(def).env, <<>>, NoTerm)
    BY DEF Started, Machine, Record
  <2> QED BY <2>7, <2>8
<1>4. OperandsMade' /\ TargetsHeld'
  BY NothingWaits
<1>5. CalleesThere(CurrentRun)'
  BY DEF Filled, CalleesThere
<1>6. Ticks(def) \in Nat /\ Course(def)[0] = Started(def)
  BY <1>1, CourseIs
<1>7. ASSUME InBodyNow'
      PROVE  \E t \in 0 .. Ticks(def) :
               /\ t <= 2 * (NextNode' - 1) - Len(frames')
               /\ Course(def)[t].defined =>
                    /\ Course(def)[t] = Shown'
                    /\ OperandsMade' /\ TargetsHeld'
                    /\ CalleesThere(CurrentRun)'
  <2>1. 0 \in 0 .. Ticks(def) /\ 0 <= 2 * (NextNode' - 1) - Len(frames')
    BY <1>6, <1>7
  <2> QED BY <1>3, <1>4, <1>5, <1>6, <1>7, <2>1
<1>8. Simulated'
  BY <1>7 DEF Simulated, InBodyNow
<1> QED BY <1>2, <1>8

(* A parameter has its argument stored. *)
LEMMA ParameterFills ==
  ASSUME Fitting, GenParameter, UNCHANGED tunit, StorageFilled
  PROVE  /\ gen_pos.at = "param" /\ UNCHANGED frames
         /\ gen_pos.k \in Nat /\ gen_pos.k <= Len(CurrentDef.params)
         /\ gen_pos' = EnterParam(tunit, gen_pos.fn, gen_pos.k + 1)
         /\ Filled(CurrentDef, CurrentRun', gen_pos.k, 0)
<1> DEFINE k == gen_pos.k
           d == CurrentDef
           n == Len(CurrentCode)
<1>1. /\ gen_pos.at = "param" /\ InDefinition /\ Generating /\ status = "generating"
      /\ status' = "generating"
  BY ParameterFits DEF GenParameter, InDefinition, Fitting, Generating
<1>2. /\ insert_point \in DOMAIN functions /\ functions \in Seq(LlvmFunction)
      /\ CurrentCode \in Seq(Instruction) /\ d.params \in Seq(VarNames)
      /\ gen_pos.fn \in DOMAIN tunit.defs
  BY <1>1, InCode
<1>3. k \in 1 .. Len(d.params) /\ k \in Nat /\ Len(d.params) \in Nat
  <2>1. k \in DOMAIN d.params
    BY <1>1, GeneratingFacts DEF IsPlace, CurrentDef
  <2> QED BY <1>2, <2>1
<1>4. ParamsStored = k - 1 /\ VarsStored = 0
  BY <1>1 DEF ParamsStored, VarsStored
<1>5. n = 2 * (k - 1) /\ n \in Nat /\ value_table[d.params[k]] = Argument(insert_point, k)
  <2>1. StorageByName
    BY DEF Fitting, CodeFits
  <2>2. n = 2 * (k - 1) + 0
    BY <1>1, <1>4, <2>1 DEF StorageByName
  <2>3. value_table[d.params[k]] = Argument(insert_point, k)
    <3>1. k \in gen_pos.k .. Len(d.params)
      BY <1>3
    <3> QED BY <1>1, <2>1, <3>1 DEF StorageByName
  <2> QED BY <1>3, <2>2, <2>3
<1>6. PICK a, c : a = Argument(insert_point, k) /\ c = NextValue("alloca")
  OBVIOUS
<1>7. a \in Value /\ a # NoValue /\ c \in Value /\ c.k = n + 1
  <2>1. a \in Value
    BY <1>2, <1>3, <1>6 DEF Argument, Value
  <2>2. c \in Value
    BY <1>2, <1>6, NextValueIsValue
  <2>3. c.k = n + 1
    BY <1>6 DEF NextValue, CurrentCode
  <2> QED BY <2>1, <2>2, <2>3, ValueIsSome
<1>8. PICK make, put : make = Instr("alloca", <<>>) /\ put = Instr("store", <<a, c>>)
  OBVIOUS
<1>9. /\ make \in Instruction /\ make.op = "alloca"
      /\ put \in Instruction /\ put.op = "store" /\ put.operands = <<a, c>>
  <2>1. <<a, c>> \in Seq(Value)
    BY <1>7
  <2> QED BY <1>8, <2>1, AllocaInstr, PlainInstr DEF Instr
<1>10. /\ Appended(<<make, put>>) /\ UNCHANGED <<insert_point, frames>>
       /\ gen_pos' = EnterParam(tunit, gen_pos.fn, k + 1)
  BY <1>1, <1>5, <1>6, <1>7, <1>8 DEF GenParameter, Stop, Emit, Appended, CurrentDef
<1>11. PICK code : code = CurrentCode
  OBVIOUS
<1>12. CurrentCode' = (code \o <<make>>) \o <<put>>
  <2>1. <<make, put>> \in Seq(Instruction)
    BY <1>9
  <2>2. CurrentCode' = code \o <<make, put>>
    BY <1>2, <1>10, <1>11, <2>1, AppendedFunctions DEF CurrentCode
  <2>3. code \o <<make, put>> = (code \o <<make>>) \o <<put>>
    <3>1. <<make>> \in Seq(Instruction) /\ <<put>> \in Seq(Instruction)
      BY <1>9
    <3>2. <<make, put>> = <<make>> \o <<put>>
      <4>1. PICK one, two, both : one = <<make>> /\ two = <<put>> /\ both = <<make, put>>
        OBVIOUS
      <4>2. /\ Len(one) = 1 /\ Len(two) = 1 /\ Len(both) = 2 /\ both \in Seq(Instruction)
            /\ one[1] = make /\ two[1] = put /\ both[1] = make /\ both[2] = put
        BY <1>9, <4>1
      <4>3. /\ one \o two \in Seq(Instruction) /\ Len(one \o two) = 1 + 1
            /\ \A i \in 1 .. 1 + 1 : (one \o two)[i] = IF i <= 1 THEN one[i] ELSE two[i - 1]
        BY <3>1, <4>1, <4>2, ConcatProperties
      <4>4. \A i \in 1 .. 2 : both[i] = (one \o two)[i]
        BY <4>2, <4>3
      <4>5. PICK joined : joined = one \o two
        OBVIOUS
      <4>6. /\ joined \in Seq(Instruction) /\ Len(both) = Len(joined)
            /\ \A i \in 1 .. Len(both) : both[i] = joined[i]
        BY <4>2, <4>3, <4>4, <4>5
      <4>7. both = joined
        BY <4>2, <4>6, SeqEqual
      <4> QED BY <4>1, <4>5, <4>7
    <3> QED BY <1>2, <1>11, <3>1, <3>2, ConcatAssociative
  <2> QED BY <2>2, <2>3
<1>13. PICK one : one = Step(CurrentRun, make)
  OBVIOUS
<1>14. PICK two : two = Step(one, put)
  OBVIOUS
<1>15. CurrentRun' = two
  <2>1. code \in Seq(Instruction) /\ code \o <<make>> \in Seq(Instruction)
    BY <1>2, <1>9, <1>11
  <2>2. Run(code \o <<make>>) = one
    BY <1>9, <1>11, <1>13, <2>1, RunAppend DEF CurrentRun
  <2>3. Run((code \o <<make>>) \o <<put>>) = two
    BY <1>9, <1>14, <2>1, <2>2, RunAppend
  <2> QED BY <1>12, <2>3 DEF CurrentRun
<1>16. /\ IsRun(one, n + 1) /\ MemoryKept(CurrentRun, one, n)
       /\ one.calls = CurrentRun.calls /\ one.returned = CurrentRun.returned
  <2>1. IsRun(CurrentRun, n)
    BY <1>2, RunIsRun DEF CurrentRun
  <2> QED BY <1>5, <1>9, <1>13, <2>1, AllocaRuns
<1>17. /\ PlaceStored(one, two, n + 1, n + 1, Param(k))
       /\ two.calls = CurrentRun.calls /\ two.returned = CurrentRun.returned
  <2>1. Param(k) = TermOf(one, put.operands[1])
    BY <1>6, <1>9 DEF TermOf, Argument
  <2>2. put.operands[2].k = n + 1 /\ 1 \in DOMAIN put.operands
    BY <1>7, <1>9
  <2>3. n + 1 \in Nat /\ n + 1 \in 1 .. (n + 1)
    BY <1>5
  <2> QED BY <1>9, <1>14, <1>16, <2>1, <2>2, <2>3, StoreRuns
<1>18. /\ \A m \in 1 .. (k - 1) : CurrentRun.memory[2 * m - 1] = Param(m)
       /\ CurrentRun.calls = <<>> /\ CurrentRun.returned = NoTerm
  BY <1>1, <1>4 DEF StorageFilled
<1>19. ASSUME NEW m \in 1 .. k PROVE two.memory[2 * m - 1] = Param(m)
  <2>1. CASE m = k
    <3>1. 2 * m - 1 = n + 1
      BY <1>3, <1>5, <2>1
    <3> QED BY <1>17, <2>1, <3>1 DEF PlaceStored
  <2>2. CASE m # k
    <3>1. /\ m \in 1 .. (k - 1) /\ 2 * m - 1 \in 1 .. n /\ 2 * m - 1 \in 1 .. (n + 1)
          /\ 2 * m - 1 # n + 1
      BY <1>3, <1>5, <2>2
    <3>2. two.memory[2 * m - 1] = one.memory[2 * m - 1]
      BY <1>17, <3>1 DEF PlaceStored
    <3>3. one.memory[2 * m - 1] = CurrentRun.memory[2 * m - 1]
      BY <1>16, <3>1 DEF MemoryKept
    <3> QED BY <1>18, <3>1, <3>2, <3>3
  <2> QED BY <2>1, <2>2
<1>20. Filled(d, two, k, 0)
  BY <1>17, <1>18, <1>19 DEF Filled
<1> QED BY <1>1, <1>3, <1>10, <1>15, <1>20

(* A local variable has its storage, unset. *)
LEMMA VariableFills ==
  ASSUME Fitting, GenVariable, UNCHANGED tunit, StorageFilled
  PROVE  /\ gen_pos.at = "var" /\ UNCHANGED frames
         /\ gen_pos.k \in Nat /\ gen_pos.k <= Len(CurrentDef.vars) /\ gen_pos.k > 0
         /\ gen_pos' = EnterVar(tunit, gen_pos.fn, gen_pos.k + 1)
         /\ Filled(CurrentDef, CurrentRun', Len(CurrentDef.params), gen_pos.k)
<1> DEFINE k == gen_pos.k
           d == CurrentDef
           n == Len(CurrentCode)
           p == Len(d.params)
<1>1. /\ gen_pos.at = "var" /\ InDefinition /\ Generating /\ status = "generating"
      /\ status' = "generating"
  BY VariableFits DEF GenVariable, InDefinition, Fitting, Generating
<1>2. /\ insert_point \in DOMAIN functions /\ functions \in Seq(LlvmFunction)
      /\ CurrentCode \in Seq(Instruction) /\ d.params \in Seq(VarNames) /\ p \in Nat
      /\ d.vars \in Seq(VarNames) /\ gen_pos.fn \in DOMAIN tunit.defs
  BY <1>1, InCode
<1>3. k \in 1 .. Len(d.vars) /\ k \in Nat /\ Len(d.vars) \in Nat
  <2>1. k \in DOMAIN d.vars
    BY <1>1, GeneratingFacts DEF IsPlace, Within, CurrentDef
  <2> QED BY <1>2, <2>1
<1>4. ParamsStored = p /\ VarsStored = k - 1
  BY <1>1 DEF ParamsStored, VarsStored
<1>5. n = 2 * p + (k - 1) /\ n \in Nat
  <2>1. StorageByName
    BY DEF Fitting, CodeFits
  <2> QED BY <1>1, <1>2, <1>4, <2>1 DEF StorageByName
<1>6. PICK make : make = Instr("alloca", <<>>)
  OBVIOUS
<1>7. make \in Instruction /\ make.op = "alloca"
  BY <1>6, AllocaInstr
<1>8. /\ Appended(<<make>>) /\ UNCHANGED <<insert_point, frames>>
      /\ gen_pos' = EnterVar(tunit, gen_pos.fn, k + 1)
  BY <1>1, <1>6 DEF GenVariable, Stop, Emit, Appended
<1>9. PICK new : new = Step(CurrentRun, make)
  OBVIOUS
<1>10. CurrentRun' = new
  <2>1. <<make>> \in Seq(Instruction)
    BY <1>7
  <2>2. CurrentCode' = CurrentCode \o <<make>>
    BY <1>2, <1>8, <2>1, AppendedFunctions DEF CurrentCode
  <2> QED BY <1>2, <1>7, <1>9, <2>2, RunAppend DEF CurrentRun
<1>11. /\ MemoryKept(CurrentRun, new, n) /\ new.memory[n + 1] = Unset
       /\ new.calls = CurrentRun.calls /\ new.returned = CurrentRun.returned
  <2>1. IsRun(CurrentRun, n)
    BY <1>2, RunIsRun DEF CurrentRun
  <2> QED BY <1>5, <1>7, <1>9, <2>1, AllocaRuns
<1>12. /\ \A m \in 1 .. p : CurrentRun.memory[2 * m - 1] = Param(m)
       /\ \A m \in 1 .. (k - 1) : CurrentRun.memory[2 * p + m] = Unset
       /\ CurrentRun.calls = <<>> /\ CurrentRun.returned = NoTerm
  BY <1>1, <1>4 DEF StorageFilled
<1> HIDE DEF k, n, p
<1>13. ASSUME NEW m \in 1 .. p PROVE new.memory[2 * m - 1] = Param(m)
  <2>1. 2 * m - 1 \in 1 .. n
    BY <1>2, <1>3, <1>5
  <2> QED BY <1>11, <1>12, <2>1 DEF MemoryKept
<1>14. ASSUME NEW m \in 1 .. k PROVE new.memory[2 * p + m] = Unset
  <2>1. CASE m = k
    <3>1. 2 * p + m = n + 1
      BY <1>2, <1>3, <1>5, <2>1
    <3> QED BY <1>11, <3>1
  <2>2. CASE m # k
    <3>1. m \in 1 .. (k - 1) /\ 2 * p + m \in 1 .. n
      BY <1>2, <1>3, <1>5, <2>2
    <3> QED BY <1>11, <1>12, <3>1 DEF MemoryKept
  <2> QED BY <2>1, <2>2
<1>15. Filled(d, new, p, k)
  BY <1>11, <1>12, <1>13, <1>14 DEF Filled, p
<1> QED BY <1>1, <1>3, <1>8, <1>10, <1>15 DEF k, n, p

----------------------------------------------------------------------------
(* The steps of the generator. *)

(* What MeaningInv says of a supported unit. *)
Meaningful == Simulated /\ StorageFilled /\ BodiesMean

(* A step inside a body. *)
LEMMA BodyMeaning ==
  ASSUME Fitting, NothingDangles, TakesNode \/ FinishesOp, UNCHANGED tunit, Meaningful
  PROVE  Meaningful'
<1>1. Generating
  BY DEF Fitting
<1>2. BodyEffect
  BY <1>1, NumberEffect, IdentifierEffect, BeginExpressionEffect, BeginAssignmentEffect,
     FoldEffect, BinaryEffect, AssignmentEffect, CallEffect, ReturnEffect
     DEF TakesNode, FinishesOp
<1>3. Simulated'
  BY SimulatedStep DEF Meaningful
<1>4. StorageFilled'
  <2>1. InBodyNow'
    BY BodyMoves
  <2> QED BY <2>1 DEF StorageFilled, InBodyNow
<1>5. BodiesMean'
  BY <1>2, BodiesBeside DEF Meaningful
<1> QED BY <1>3, <1>4, <1>5 DEF Meaningful

(* The parameters of a supported definition have different names, and the   *)
(* definition is one of the unit.                                           *)
LEMMA DefinitionHere ==
  ASSUME Fitting, NEW i \in DOMAIN tunit.defs
  PROVE  /\ tunit.defs[i] \in Definition /\ tunit \in TranslationUnit
         /\ \A j, k \in DOMAIN tunit.defs[i].params :
              tunit.defs[i].params[j] = tunit.defs[i].params[k] => j = k
<1>1. tunit \in TranslationUnit
  BY GeneratingFacts DEF Fitting
<1>2. tunit.defs \in Seq(Definition)
  BY <1>1, UnitType
<1>3. tunit.defs[i] \in Definition
  BY <1>2
<1> QED BY <1>1, <1>3, NamesApart

(* A step ahead of a body. *)
LEMMA StorageMeaning ==
  ASSUME Fitting, GenParameter \/ GenVariable, UNCHANGED tunit, Meaningful
  PROVE  Meaningful'
<1> DEFINE i == gen_pos.fn
           k == gen_pos.k
<1>1. Generating /\ InDefinition /\ i \in DOMAIN tunit.defs
  BY InCode DEF GenParameter, GenVariable, InDefinition, Fitting
<1>2. /\ BodyEffect /\ StorageByName'
  BY <1>1, ParameterEffect, VariableEffect, ParameterFits, VariableFits DEF CodeFits
<1>3. BodiesMean'
  BY <1>2, BodiesBeside DEF Meaningful
<1>4. PICK def : def = CurrentDef
  OBVIOUS
<1>5. /\ def \in Definition /\ tunit \in TranslationUnit /\ def = tunit.defs[i]
      /\ \A j, l \in DOMAIN def.params : def.params[j] = def.params[l] => j = l
  BY <1>1, <1>4, DefinitionHere DEF CurrentDef
<1>6. frames = <<>>
  <2>1. gen_pos.at \in {"param", "var"}
    BY DEF GenParameter, GenVariable
  <2> QED BY <1>1, <2>1, GeneratingFacts
<1>7. Len(def.params) \in Nat /\ Len(def.vars) \in Nat
  BY <1>5 DEF Definition
<1>8. CASE GenParameter
  <2>1. /\ UNCHANGED frames /\ k \in Nat /\ k <= Len(def.params)
        /\ gen_pos' = EnterParam(tunit, i, k + 1)
        /\ Filled(def, CurrentRun', k, 0)
    BY <1>4, <1>8, ParameterFills DEF Meaningful
  <2>2. k + 1 \in Nat /\ k + 1 > 0 /\ k + 1 <= Len(tunit.defs[i].params) + 1 /\ (k + 1) - 1 = k
    BY <1>5, <1>7, <2>1
  <2>3. InDefinition' /\ CurrentDef' = def /\ ParamsStored' = k /\ VarsStored' = 0
    BY <1>1, <1>5, <2>1, <2>2, ParamEntered
  <2>4. InBodyNow' => NextNode' = 1
    BY <1>1, <1>5, <2>1, <2>2, BodyEntered
  <2> QED BY <1>2, <1>3, <1>4, <1>5, <1>6, <2>1, <2>3, <2>4, StorageLeads DEF Meaningful
<1>9. CASE GenVariable
  <2>1. /\ UNCHANGED frames /\ k \in Nat /\ k <= Len(def.vars) /\ k > 0
        /\ gen_pos' = EnterVar(tunit, i, k + 1)
        /\ Filled(def, CurrentRun', Len(def.params), k)
    BY <1>4, <1>9, VariableFills DEF Meaningful
  <2>2. k + 1 \in Nat /\ k + 1 > 0 /\ k + 1 <= Len(tunit.defs[i].vars) + 1 /\ (k + 1) - 1 = k
    BY <1>5, <1>7, <2>1
  <2>3. InDefinition' /\ CurrentDef' = def /\ ParamsStored' = Len(def.params) /\ VarsStored' = k
    BY <1>1, <1>5, <2>1, <2>2, VarEntered
  <2>4. InBodyNow' => NextNode' = 1
    BY <1>1, <1>5, <2>1, <2>2, BodyEntered
  <2> QED BY <1>2, <1>3, <1>4, <1>5, <1>6, <2>1, <2>3, <2>4, StorageLeads DEF Meaningful
<1> QED BY <1>8, <1>9

(* A definition is begun with nothing done. *)
LEMMA BeginMeaning ==
  ASSUME Fitting, GenNewDefinition \/ GenKnownDefinition, UNCHANGED tunit, Meaningful
  PROVE  Meaningful'
<1> DEFINE i == gen_pos.fn
<1>1. /\ Generating /\ gen_pos.at = "def" /\ UNCHANGED frames
      /\ gen_pos' = EnterParam(tunit, i, 1)
  BY DEF GenNewDefinition, GenKnownDefinition, Fitting
<1>2. /\ StorageByName' /\ ModuleGrows /\ BegunKept /\ functions'[insert_point'].code = <<>>
  BY NewDefinitionFits, KnownDefinitionFits DEF CodeFits
<1>3. /\ i \in DOMAIN tunit.defs /\ gen_pos'.fn = i /\ ~InDefinition /\ frames = <<>>
      /\ \A j \in DOMAIN tunit.defs : Begun(j)' <=> Begun(j) \/ j = i
  BY <1>1, BeginDefinition DEF InDefinition
<1>4. PICK def : def = tunit.defs[i]
  OBVIOUS
<1>5. /\ def \in Definition /\ tunit \in TranslationUnit /\ Len(def.params) \in Nat
      /\ \A j, k \in DOMAIN def.params : def.params[j] = def.params[k] => j = k
  <2>1. def \in Definition /\ tunit \in TranslationUnit
    BY <1>3, <1>4, DefinitionHere
  <2> QED BY <1>3, <1>4, <2>1, DefinitionHere DEF Definition
<1>6. InDefinition' /\ CurrentDef' = def /\ ParamsStored' = 0 /\ VarsStored' = 0
  <2>1. 1 \in Nat /\ 1 > 0 /\ 1 <= Len(tunit.defs[i].params) + 1 /\ 1 - 1 = 0
    BY <1>4, <1>5
  <2> QED BY <1>1, <1>3, <1>4, <1>5, <2>1, ParamEntered
<1>7. InBodyNow' => NextNode' = 1
  BY <1>1, <1>3, <1>5, BodyEntered
<1>8. Filled(def, CurrentRun', 0, 0)
  <2>1. CurrentRun' = Blank
    BY <1>2, RunEmpty DEF CurrentRun, CurrentCode
  <2>2. \A k \in 1 .. 0 : FALSE
    OBVIOUS
  <2> QED BY <2>1, <2>2 DEF Filled, Blank
<1>9. CurrentDef = def /\ CurrentDef' = CurrentDef /\ frames' = <<>>
  BY <1>1, <1>3, <1>4, <1>6 DEF CurrentDef
<1>10. StorageFilled' /\ Simulated'
  BY <1>2, <1>5, <1>6, <1>7, <1>8, <1>9, StorageLeads
<1>11. BodiesMean'
  <2>1. NamesKept
    BY <1>2 DEF ModuleGrows, NamesKept
  <2>2. ASSUME NEW j \in DOMAIN tunit.defs, LeftBehind(j)'
        PROVE  LeftBehind(j) /\ functions'[FunctionOf(j)'].code = functions[FunctionOf(j)].code
    <3>1. Begun(j)
      BY <1>3, <1>6, <2>2 DEF LeftBehind
    <3>2. LeftBehind(j)
      BY <1>3, <3>1 DEF LeftBehind
    <3> QED BY <1>2, <3>1, <3>2 DEF ModuleGrows, BegunKept
  <2> QED BY <2>1, <2>2, BodiesKept DEF Meaningful
<1> QED BY <1>10, <1>11 DEF Meaningful

(* At the end of a body the machine has nothing left to do, and the code    *)
(* does what it did.                                                        *)
LEMMA BodyMeans ==
  ASSUME Fitting, gen_pos.at = "post_def", frames = <<>>, Simulated
  PROVE  Means(CurrentDef, CurrentCode)
<1> DEFINE body == CurrentDef.body
<1>1. InDefinition /\ InBodyNow /\ NextNode = Len(body) + 1
  BY DEF InDefinition, InBodyNow, NextNode
<1>2. body \in Seq(Node) /\ Len(body) \in Nat
  BY <1>1, InCode
<1>3. PICK t \in 0 .. Ticks(CurrentDef) :
        Course(CurrentDef)[t].defined =>
          Course(CurrentDef)[t] = Shown /\ CalleesThere(CurrentRun)
  BY <1>1 DEF Simulated, InBodyNow
<1>4. PICK m : m = Course(CurrentDef)[t]
  OBVIOUS
<1>5. CASE ~m.defined
  <2>1. Advance(body, m) = m
    BY <1>5, StoppedRests
  <2>2. SourceRun(CurrentDef) = m
    BY <1>2, <1>4, <2>1, CourseRests
  <2> QED BY <1>5, <2>2 DEF Means, SameObserved
<1>6. CASE m.defined
  <2>1. m = Shown /\ CalleesThere(CurrentRun)
    BY <1>3, <1>4, <1>6
  <2>2. /\ m.next = Len(body) + 1
        /\ m.calls = CallsOf(CurrentRun) /\ m.returned = CurrentRun.returned
    BY <1>1, <2>1, ShownIs, MachineFields
  <2>3. ~Ready(body, m)
    <3>1. ~Complete
      BY DEF Complete
    <3> QED BY <1>1, <2>1, <3>1, ReadyIs
  <2>4. ~(m.next <= Len(body))
    BY <1>2, <2>2
  <2>5. Advance(body, m) = m
    BY <2>3, <2>4 DEF Advance
  <2>6. SourceRun(CurrentDef) = m
    BY <1>2, <1>4, <2>5, CourseRests
  <2> QED BY <2>1, <2>2, <2>6 DEF Means, SameObserved, CurrentRun
<1> QED BY <1>5, <1>6

(* The generator leaves a definition, or the unit. *)
LEMMA LeaveMeaning ==
  ASSUME Fitting, LeaveDefinition \/ LeaveUnit, UNCHANGED tunit, Meaningful
  PROVE  Meaningful'
<1>1. UNCHANGED <<functions, func_map, insert_point>> /\ Generating
  BY DEF LeaveDefinition, LeaveUnit, tables, Fitting
<1>2. /\ tunit \in TranslationUnit /\ IsPlace(gen_pos)
      /\ DOMAIN tunit.defs = 1 .. Len(tunit.defs) /\ Len(tunit.defs) \in Nat
  BY <1>1, GeneratingFacts, UnitType
<1>3. /\ ~InDefinition'
      /\ \A j \in DOMAIN tunit.defs : Begun(j)' =>
           LeftBehind(j)
             \/ (j = gen_pos.fn /\ gen_pos.at = "post_def" /\ InDefinition /\ frames = <<>>)
  <2>1. CASE LeaveUnit
    <3>1. gen_pos.at = "end" /\ gen_pos' = gen_pos /\ ~InDefinition
      BY <2>1 DEF LeaveUnit, InDefinition
    <3> QED BY <3>1 DEF InDefinition, Begun, LeftBehind
  <2>2. CASE LeaveDefinition
    <3> DEFINE i == gen_pos.fn
    <3>1. gen_pos.at = "post_def" /\ frames = <<>> /\ gen_pos' = EnterDef(tunit, i + 1)
      BY <2>2 DEF LeaveDefinition
    <3>2. i \in DOMAIN tunit.defs /\ i \in Nat /\ InDefinition
      BY <1>2, <3>1 DEF IsPlace, Within, InDefinition
    <3>3. /\ gen_pos'.at \in {"def", "end"}
          /\ gen_pos'.at = "def" => gen_pos'.fn = i + 1
          /\ gen_pos'.at = "end" => i + 1 > Len(tunit.defs)
      BY <1>2, <3>1, <3>2, EnterDefPlace
    <3>4. \A j \in DOMAIN tunit.defs : Begun(j)' => j <= i
      <4>1. \A j \in DOMAIN tunit.defs : j \in Nat /\ j <= Len(tunit.defs)
        BY <1>2
      <4> QED BY <1>2, <3>2, <3>3, <4>1 DEF Begun, InDefinition
    <3>5. \A j \in DOMAIN tunit.defs : j <= i => Begun(j)
      BY <3>2 DEF Begun
    <3> QED BY <3>1, <3>2, <3>3, <3>4, <3>5 DEF InDefinition, LeftBehind
  <2> QED BY <2>1, <2>2
<1>4. Simulated' /\ StorageFilled'
  BY <1>3 DEF Simulated, StorageFilled, InDefinition
<1>5. BodiesMean'
  <2> SUFFICES ASSUME NEW j \in DOMAIN tunit.defs, Begun(j)'
               PROVE  Means(tunit.defs[j], functions[FunctionOf(j)].code)'
    BY DEF BodiesMean, Means
  <2>1. PICK def, code : def = tunit.defs[j] /\ code = functions[FunctionOf(j)].code
    OBVIOUS
  <2>2. Means(def, code)
    <3>1. CASE LeftBehind(j)
      BY <2>1, <3>1, BodiesMeanIs DEF Meaningful
    <3>2. CASE j = gen_pos.fn /\ gen_pos.at = "post_def" /\ InDefinition /\ frames = <<>>
      <4>1. def = CurrentDef /\ code = CurrentCode
        BY <1>1, <2>1, <3>2, InsertPointIsFunction DEF CurrentDef, CurrentCode
      <4> QED BY <3>2, <4>1, BodyMeans DEF Meaningful
    <3> QED BY <1>3, <3>1, <3>2
  <2>3. NamesKept
    BY <1>1 DEF NamesKept
  <2>4. Means(def, code)'
    BY <2>2, <2>3, MeansKept
  <2>5. FunctionOf(j)' = FunctionOf(j)
    BY <1>1 DEF FunctionOf
  <2>6. def = tunit'.defs[j] /\ code = functions'[FunctionOf(j)'].code
    BY <1>1, <2>1, <2>5
  <2> QED BY <2>4, <2>6
<1> QED BY <1>4, <1>5 DEF Meaningful

(* Where no definition is begun there is nothing to say. *)
LEMMA NothingBegunMeans ==
  ASSUME ~InDefinition, \A j \in DOMAIN tunit.defs : ~Begun(j)
  PROVE  Meaningful
BY DEF Meaningful, Simulated, StorageFilled, BodiesMean, InDefinition

(* A declaration comes before all definitions. *)
LEMMA DeclarationMeaning ==
  ASSUME Fitting, GenDeclaration, UNCHANGED tunit
  PROVE  Meaningful'
<1>1. ~InDefinition' /\ \A j \in DOMAIN tunit'.defs : ~Begun(j)'
  BY DeclarationFits
<1> QED BY <1>1 DEF Meaningful, Simulated, StorageFilled, BodiesMean, InDefinition

(* Each step of the generator keeps code and source together. *)
LEMMA MeaningStep ==
  ASSUME Fitting, NothingDangles, GeneratorNext, UNCHANGED tunit, Meaningful
  PROVE  Meaningful'
<1>1. CASE GenDeclaration
  BY <1>1, DeclarationMeaning
<1>2. CASE GenNewDefinition \/ GenKnownDefinition
  BY <1>2, BeginMeaning
<1>3. CASE GenParameter \/ GenVariable
  BY <1>3, StorageMeaning
<1>4. CASE TakesNode \/ FinishesOp
  BY <1>4, BodyMeaning
<1>5. CASE LeaveDefinition \/ LeaveUnit
  BY <1>5, LeaveMeaning
<1> QED BY <1>1, <1>2, <1>3, <1>4, <1>5 DEF GeneratorNext, TakesNode, FinishesOp

----------------------------------------------------------------------------
(* The compiler. *)

(* Before the generator begins no definition is begun. *)
LEMMA StartMeans ==
  ASSUME GeneratorInit, tunit \in TranslationUnit
  PROVE  Meaningful
BY NotBegunYet, NothingBegunMeans

(* What a unit and its code mean is about the unit and the generator. *)
LEMMA MeaningStable ==
  ASSUME Meaningful, UNCHANGED <<tunit, gen_vars>>
  PROVE  Meaningful'
<1>1. UNCHANGED <<gen_pos, functions, func_map, value_table, insert_point, frames>>
  BY DEF gen_vars, tables
<1>2. /\ CurrentDef' = CurrentDef /\ CurrentCode' = CurrentCode /\ NextNode' = NextNode
      /\ ParamsStored' = ParamsStored /\ VarsStored' = VarsStored
      /\ InDefinition' <=> InDefinition
  BY <1>1 DEF CurrentDef, CurrentCode, NextNode, ParamsStored, VarsStored, InDefinition
<1>3. CurrentRun' = CurrentRun
  BY <1>2 DEF CurrentRun
<1>4. CallsOf(CurrentRun)' = CallsOf(CurrentRun)
      /\ (CalleesThere(CurrentRun)' <=> CalleesThere(CurrentRun))
  BY <1>1, <1>3 DEF CallsOf, CalleesThere
<1>5. Shown' = Shown
  BY <1>1, <1>2, <1>3, <1>4 DEF Shown
<1>6. (OperandsMade' <=> OperandsMade) /\ (TargetsHeld' <=> TargetsHeld)
  BY <1>1, <1>2 DEF OperandsMade, TargetsHeld, FrameNode, CurrentCode, CurrentDef
<1>7. Simulated'
  BY <1>1, <1>2, <1>4, <1>5, <1>6 DEF Meaningful, Simulated
<1>8. StorageFilled'
  BY <1>1, <1>2, <1>3 DEF Meaningful, StorageFilled
<1>9. BodiesMean'
  <2>1. NamesKept
    BY <1>1 DEF NamesKept
  <2>2. \A i \in DOMAIN tunit.defs : LeftBehind(i)' =>
          LeftBehind(i) /\ functions'[FunctionOf(i)'].code = functions[FunctionOf(i)].code
    BY <1>1 DEF LeftBehind, Begun, InDefinition, FunctionOf
  <2> QED BY <2>1, <2>2, BodiesKept DEF Meaningful
<1> QED BY <1>7, <1>8, <1>9 DEF Meaningful

LEMMA MeaningInvIs == MeaningInv <=> (Supported(tunit) /\ phase = "analyzed" => Meaningful)
BY DEF MeaningInv, Meaningful

(* The analysis hands the generator over at its beginning, and the          *)
(* generator keeps code and source together.                                *)
LEMMA MeaningInvStep ==
  CompilerFacts /\ NothingDangles /\ MeaningInv /\ [CompilerNext]_compiler_vars
    => MeaningInv'
<1> SUFFICES ASSUME CompilerFacts, NothingDangles, MeaningInv,
                    [CompilerNext]_compiler_vars,
                    Supported(tunit)', phase' = "analyzed"
             PROVE  Meaningful'
  BY DEF MeaningInv, Meaningful
<1>1. /\ AnalysisFacts /\ GeneratorInv /\ TypeInv /\ CodeInv /\ tunit \in TranslationUnit
  BY TunitType DEF CompilerFacts, CompilerInv, AnalysisFacts, AnalyzerInv, TypeInv,
                   AnalyzerTypeOK
<1>2. CASE Analyze
  <2>1. AnalyzerNext /\ UNCHANGED gen_vars
    BY <1>2 DEF Analyze
  <2>2. UNCHANGED tunit
    BY <1>1, <2>1, TunitFixed
  <2>3. Supported(tunit)
    BY <2>2
  <2>4. Meaningful
    <3>1. CASE phase = "analyzed"
      BY <2>3, <3>1, MeaningInvIs
    <3>2. CASE phase # "analyzed"
      BY <1>1, <3>2, StartMeans DEF CodeInv
    <3> QED BY <3>1, <3>2
  <2> QED BY <2>1, <2>2, <2>4, MeaningStable
<1>3. CASE Generate
  <2>1. /\ phase = "analyzed" /\ GeneratorNext /\ UNCHANGED <<phase, tunit>>
    BY <1>3 DEF Generate, analyzer_vars, heap
  <2>2. Supported(tunit)
    BY <2>1
  <2>3. Fitting
    BY <1>1, <2>1, <2>2 DEF CodeInv, Fitting, Generating, GeneratorNext
  <2> QED BY <2>1, <2>2, <2>3, MeaningInvIs, MeaningStep
<1>4. CASE CompilerOver \/ UNCHANGED compiler_vars
  <2>1. UNCHANGED <<analyzer_vars, gen_vars>>
    BY <1>4 DEF CompilerOver, compiler_vars
  <2>2. UNCHANGED <<tunit, phase>>
    BY <2>1 DEF analyzer_vars, heap
  <2>3. Meaningful
    BY <2>2, MeaningInvIs
  <2> QED BY <2>1, <2>2, <2>3, MeaningStable
<1> QED BY <1>2, <1>3, <1>4 DEF CompilerNext

(* All that is known of the compiler and of what its code does. *)
LEMMA MeaningFactsHold == CompilerSpec => [](CompilerFacts /\ MeaningInv)
<1>1. CompilerInit => MeaningInv
  BY DEF CompilerInit, AnalyzerInit, MeaningInv
<1>2. CompilerFacts /\ NothingDangles /\ MeaningInv /\ [CompilerNext]_compiler_vars
        => MeaningInv'
  BY MeaningInvStep
<1> QED BY <1>1, <1>2, CompilerFactsHold, NothingDanglesHolds, PTL DEF CompilerSpec

(* Between two steps of the generator the run of the code of a supported    *)
(* unit shows a state of the machine that evaluates its source: operands    *)
(* that wait have the values the machine has, every variable has its        *)
(* content in the storage the value table names, and the same calls were    *)
(* made.                                                                    *)
THEOREM MeaningInvariant == CompilerSpec => []MeaningInv
BY MeaningFactsHold, PTL

(* What a name has in func_map is the only function of it with a body. *)
LEMMA BodyOfName ==
  ASSUME CompilerFacts, gen_pos.at = "end", NEW i \in DOMAIN tunit.defs,
         NEW f \in DOMAIN functions,
         functions[f].name = tunit.defs[i].name, functions[f].blocks = 1
  PROVE  f = FunctionOf(i) /\ Begun(i) /\ ~InDefinition
<1>1. GeneratorInv /\ tunit \in TranslationUnit
  BY TunitType DEF CompilerFacts, CompilerInv, CodeInv, AnalysisFacts, AnalyzerInv, TypeInv,
                   AnalyzerTypeOK
<1>2. Begun(i) /\ ~InDefinition
  BY DEF Begun, InDefinition
<1>3. PICK j \in DOMAIN tunit.defs : Begun(j) /\ FunctionOf(j) = f
  BY <1>1 DEF GeneratorInv, BodiesByDefinition
<1>4. tunit.defs[j].name \in FuncNames
  BY <1>1, UnitType
<1>5. functions[FunctionOf(j)].name = tunit.defs[j].name
  BY <1>1, <1>3, <1>4 DEF GeneratorInv, FunctionsByName, FunctionOf
<1> QED BY <1>2, <1>3, <1>5 DEF FunctionOf

(* The code of a supported unit does what its source does, whatever the     *)
(* arguments and whatever its calls return: it makes the same calls in the  *)
(* same order with the same arguments and returns the same value, wherever  *)
(* the source means something.                                              *)
THEOREM CodeDoesMean == CompilerSpec => []CodeMeans
<1>1. CompilerFacts /\ MeaningInv => CodeMeans
  <2> SUFFICES ASSUME CompilerFacts, MeaningInv, Supported(tunit), status = "generated",
                      NEW i \in DOMAIN tunit.defs, NEW f \in DOMAIN functions,
                      functions[f].name = tunit.defs[i].name, functions[f].blocks = 1
               PROVE  SameObserved(tunit.defs[i], functions[f].code)
    BY DEF CodeMeans
  <2>1. gen_pos.at = "end"
    BY DEF CompilerFacts, CompilerInv, GeneratorInv, GeneratorInside
  <2>2. phase = "analyzed"
    BY DEF CompilerFacts, CodeInv, GeneratorInit
  <2>3. BodiesMean
    BY <2>2 DEF MeaningInv
  <2>4. f = FunctionOf(i) /\ LeftBehind(i)
    BY <2>1, BodyOfName DEF LeftBehind
  <2> QED BY <2>3, <2>4, BodiesMeanIs DEF Means
<1> QED BY MeaningFactsHold, <1>1, PTL

============================================================================
