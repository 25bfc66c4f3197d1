---------------------------- MODULE DriverProofs ----------------------------
(***************************************************************************)
(* For any number of runs of dcc, whatever their command lines and their   *)
(* files: a failed run leaves no trace, a success means a module, and no   *)
(* source is overwritten by a default output.                              *)
(***************************************************************************)
EXTENDS Driver, TLAPS

(* A run that has an input names files of the file system. *)
LEMMA NamesKnown ==
  ASSUME DriverTypeOK, NEW p \in Runs, command[p].inputs # <<>>
  PROVE  InputOf(command[p]) \in FileNames /\ OutputOf(command[p]) \in FileNames
<1>1. command[p] \in Commands
  BY DEF DriverTypeOK
<1>. QED
  BY <1>1 DEF FileNames

(* Texts that are put into files. *)
LEMMA TextsKnown ==
  /\ Nothing \in Texts /\ Other \in Texts /\ Nothing.is # "source"
  /\ \A text \in Texts : text.is = "source" => Module(text.unit) \in Texts
<1>1. ASSUME NEW text \in Texts, text.is = "source"
      PROVE  Module(text.unit) \in Texts
  BY <1>1 DEF Texts, Nothing, Other, Source, Module
<1>. QED
  BY <1>1 DEF Texts, Nothing, Other

(* Only a unit that is well named comes to a module. *)
LEMMA ModuleNeedsNames ==
  ASSUME NEW t, "module" \in Outcomes(t)
  PROVE  WellNamed(t)
BY DEF Outcomes

(* A step changes the state of the run that takes it, and no file but its   *)
(* output, and that only when its source has passed the analysis.           *)
LEMMA StepsAreLocal ==
  ASSUME DriverTypeOK, NEW p \in Runs, Progress(p), Main(p)
  PROVE  /\ before' = before /\ command' = command
         /\ \A q \in Runs \ {p} : at'[q] = at[q] /\ code'[q] = code[q] /\ ended'[q] = ended[q]
         /\ \A f \in FileNames : files'[f] # files[f] =>
              Targets(p, f) /\ at[p] \in {"open", "print"}
         /\ at[p] # "read" => code'[p] = code[p]
<1>. USE DEF DriverTypeOK, Go, End
<1>1. CASE StoreOptions(p) BY <1>1 DEF StoreOptions
<1>2. CASE ReadInput(p) BY <1>2 DEF ReadInput
<1>3. CASE CompileText(p) BY <1>3 DEF CompileText
<1>4. CASE OpenOutput(p)
  <2>1. command[p].inputs # <<>>
    BY <1>4 DEF OpenOutput, Progress
  <2>2. OutputOf(command[p]) \in FileNames
    BY <2>1, NamesKnown
  <2>. QED BY <1>4, <2>1, <2>2 DEF OpenOutput, Targets
<1>5. CASE PrintModule(p) \/ PrintPart(p)
  <2>1. command[p].inputs # <<>>
    BY <1>5 DEF PrintModule, PrintPart, Progress
  <2>2. OutputOf(command[p]) \in FileNames
    BY <2>1, NamesKnown
  <2>. QED BY <1>5, <2>1, <2>2 DEF PrintModule, PrintPart, Targets
<1>6. CASE PrintNothing(p) BY <1>6 DEF PrintNothing
<1>. QED BY <1>1, <1>2, <1>3, <1>4, <1>5, <1>6 DEF Main

(* The types are kept. *)
LEMMA TypesStep ==
  ASSUME DriverTypeOK, NEW p \in Runs, Progress(p), Main(p)
  PROVE  DriverTypeOK'
<1>. USE DEF DriverTypeOK, Go, End
<1>1. CASE StoreOptions(p) BY <1>1 DEF StoreOptions
<1>2. CASE ReadInput(p)
  <2>1. files[InputOf(command[p])] \in Texts \cup {Missing}
    BY <1>2, NamesKnown DEF ReadInput, Progress
  <2>. QED BY <1>2, <2>1, TextsKnown DEF ReadInput
<1>3. CASE CompileText(p) BY <1>3 DEF CompileText
<1>4. CASE OpenOutput(p) BY <1>4, TextsKnown DEF OpenOutput
<1>5. CASE PrintModule(p)
  <2>1. Module(code[p].unit) \in Texts
    BY <1>5, TextsKnown DEF PrintModule, Progress
  <2>2. PICK text \in {Module(code[p].unit), Other} :
          files' = [files EXCEPT ![OutputOf(command[p])] = text]
    BY <1>5 DEF PrintModule, Written
  <2>3. files' \in [FileNames -> Texts \cup {Missing}]
    BY <2>1, <2>2, TextsKnown
  <2>. QED BY <1>5, <2>3 DEF PrintModule
<1>6. CASE PrintPart(p)
  <2>1. PICK text \in {Nothing, Other} :
          files' = [files EXCEPT ![OutputOf(command[p])] = text]
    BY <1>6 DEF PrintPart
  <2>2. files' \in [FileNames -> Texts \cup {Missing}]
    BY <2>1, TextsKnown
  <2>. QED BY <1>6, <2>2 DEF PrintPart
<1>7. CASE PrintNothing(p) BY <1>7 DEF PrintNothing
<1>. QED BY <1>1, <1>2, <1>3, <1>4, <1>5, <1>6, <1>7, Zenon DEF Main

(* A run gets on with what it has read. *)
LEMMA ProgressStep ==
  ASSUME DriverTypeOK, NEW p \in Runs, Progress(p), Main(p)
  PROVE  Progress(p)'
<1>. USE DEF DriverTypeOK, Progress, Go, End
<1>1. CASE StoreOptions(p) BY <1>1 DEF StoreOptions
<1>2. CASE ReadInput(p) BY <1>2 DEF ReadInput
<1>3. CASE CompileText(p) BY <1>3, ModuleNeedsNames DEF CompileText
<1>4. CASE OpenOutput(p) BY <1>4 DEF OpenOutput
<1>5. CASE PrintModule(p) BY <1>5 DEF PrintModule
<1>6. CASE PrintPart(p) BY <1>6 DEF PrintPart
<1>7. CASE PrintNothing(p) BY <1>7 DEF PrintNothing
<1>. QED BY <1>1, <1>2, <1>3, <1>4, <1>5, <1>6, <1>7 DEF Main

(* The step of one run disturbs nothing another has read or written, ...    *)
LEMMA KeptByOthers ==
  ASSUME DriverTypeOK, NEW p \in Runs, Progress(p), Main(p),
         NEW q \in Runs \ {p}, Kept(q)
  PROVE  Kept(q)'
<1>1. command' = command /\ at'[q] = at[q] /\ code'[q] = code[q] /\ ended'[q] = ended[q]
  BY StepsAreLocal
<1>2. ASSUME command[q].inputs # <<>>, Untouched(InputOf(command[q]))
      PROVE  files'[InputOf(command[q])] = files[InputOf(command[q])]
  BY <1>2, NamesKnown, StepsAreLocal DEF Untouched
<1>3. ASSUME command[q].inputs # <<>>, AtMostBy(q, OutputOf(command[q]))
      PROVE  files'[OutputOf(command[q])] = files[OutputOf(command[q])]
  BY <1>3, NamesKnown, StepsAreLocal DEF AtMostBy
<1>. QED
  BY <1>1, <1>2, <1>3 DEF Kept, Untouched, AtMostBy, Targets

(* ... and its own is where it has put it. *)
LEMMA KeptByItself ==
  ASSUME DriverTypeOK, NEW p \in Runs, Progress(p), Kept(p), Main(p)
  PROVE  Kept(p)'
<1>. DEFINE in  == InputOf(command[p])
            out == OutputOf(command[p])
<1>1. command' = command /\ (at[p] # "read" => code'[p] = code[p])
  BY StepsAreLocal
<1>. SUFFICES ASSUME command[p].inputs # <<>>
              PROVE  /\ code'[p].is = "source" /\ Untouched(in) => files'[in] = code'[p]
                     /\ at'[p] = "print" /\ AtMostBy(p, out) => files'[out] = Nothing
                     /\ ended'[p] = "success" /\ AtMostBy(p, out) =>
                          files'[out] = Module(code'[p].unit)
  BY <1>1 DEF Kept, Untouched, AtMostBy, Targets
<1>2. in \in FileNames /\ out \in FileNames
  BY NamesKnown
<1>3. ASSUME code'[p].is = "source", Untouched(in)
      PROVE  files'[in] = code'[p]
  <2>1. files'[in] = files[in]
    BY <1>2, <1>3, StepsAreLocal DEF Untouched
  <2>2. CASE at[p] = "read"
    <3>1. ReadInput(p)
      BY <2>2 DEF Main, StoreOptions, CompileText, OpenOutput, PrintModule, PrintPart, PrintNothing
    <3>2. code'[p] = IF files[in] = Missing THEN Nothing ELSE files[in]
      BY <3>1 DEF ReadInput, DriverTypeOK
    <3>. QED BY <1>3, <2>1, <3>2, TextsKnown
  <2>3. CASE at[p] # "read"
    BY <1>1, <1>3, <2>1, <2>3 DEF Kept
  <2>. QED BY <2>2, <2>3
<1>4. ASSUME at'[p] = "print"
      PROVE  files'[out] = Nothing
  <2>. USE DEF DriverTypeOK, Go, End
  <2>1. OpenOutput(p)
    BY <1>4 DEF Main, StoreOptions, ReadInput, CompileText, PrintModule, PrintPart, PrintNothing
  <2>. QED BY <1>2, <1>4, <2>1 DEF OpenOutput
<1>5. ASSUME ended'[p] = "success", AtMostBy(p, out)
      PROVE  files'[out] = Module(code'[p].unit)
  <2>. USE DEF DriverTypeOK, Go, End
  <2>1. at[p] # "end"
    BY DEF Main, StoreOptions, ReadInput, CompileText, OpenOutput, PrintModule, PrintPart, PrintNothing
  <2>2. ended[p] = ""
    BY <2>1 DEF Progress
  <2>3. PrintModule(p)
    BY <1>5, <2>2 DEF Main, StoreOptions, ReadInput, CompileText, OpenOutput, PrintPart, PrintNothing
  <2>4. files[out] = Nothing
    BY <1>5, <2>3 DEF PrintModule, Kept
  <2>. QED BY <1>2, <2>3, <2>4 DEF PrintModule, Written
<1>. QED BY <1>3, <1>4, <1>5

(* Files differ from what they were only where a good source was compiled. *)
LEMMA ErrorsStep ==
  ASSUME DriverTypeOK, ErrorsKeepOutputs, NEW p \in Runs, Progress(p), Main(p)
  PROVE  ErrorsKeepOutputs'
<1>1. before' = before /\ command' = command
  BY StepsAreLocal
<1>. SUFFICES ASSUME NEW f \in FileNames, files'[f] # before[f]
              PROVE  \E q \in Runs : /\ Targets(q, f)
                                    /\ code'[q].is = "source" /\ WellNamed(code'[q].unit)
  BY <1>1 DEF ErrorsKeepOutputs, Targets
<1>2. CASE files'[f] = files[f]
  <2>1. PICK q \in Runs : Targets(q, f) /\ code[q].is = "source" /\ WellNamed(code[q].unit)
    BY <1>2 DEF ErrorsKeepOutputs
  <2>2. code'[q] = code[q]
    BY <2>1, StepsAreLocal, TextsKnown DEF Progress
  <2>. QED BY <2>1, <2>2
<1>3. CASE files'[f] # files[f]
  BY <1>3, StepsAreLocal DEF Progress
<1>. QED BY <1>2, <1>3

----------------------------------------------------------------------------
(* The invariant holds when no run has begun. *)
LEMMA InvariantAtStart == DriverInit => DriverInv
<1>. SUFFICES ASSUME DriverInit PROVE DriverInv
  OBVIOUS
<1>1. DriverTypeOK
  BY DisksAssumption, TextsKnown DEF DriverInit, DriverTypeOK
<1>2. ErrorsKeepOutputs
  BY DEF DriverInit, ErrorsKeepOutputs
<1>3. ASSUME NEW p \in Runs PROVE Progress(p) /\ Kept(p)
  BY TextsKnown DEF DriverInit, Progress, Kept
<1>. QED BY <1>1, <1>2, <1>3 DEF DriverInv

(* Every step of every run keeps the invariant. *)
LEMMA InvariantKept == DriverInv /\ [DriverNext]_driver_vars => DriverInv'
<1>. SUFFICES ASSUME DriverInv, [DriverNext]_driver_vars PROVE DriverInv'
  OBVIOUS
<1>1. ASSUME NEW p \in Runs, Main(p)
      PROVE  DriverInv'
  <2>1. DriverTypeOK /\ ErrorsKeepOutputs /\ Progress(p) /\ Kept(p)
    BY DEF DriverInv
  <2>2. DriverTypeOK' /\ ErrorsKeepOutputs'
    BY <1>1, <2>1, TypesStep, ErrorsStep
  <2>3. Progress(p)' /\ Kept(p)'
    BY <1>1, <2>1, ProgressStep, KeptByItself
  <2>4. ASSUME NEW q \in Runs \ {p}
        PROVE  Progress(q)' /\ Kept(q)'
    <3>1. Progress(q) /\ Kept(q)
      BY DEF DriverInv
    <3>2. Kept(q)'
      BY <1>1, <2>1, <3>1, KeptByOthers
    <3>3. Progress(q)'
      BY <1>1, <2>1, <3>1, StepsAreLocal DEF Progress
    <3>. QED BY <3>2, <3>3
  <2>. QED BY <2>2, <2>3, <2>4 DEF DriverInv
<1>2. CASE UNCHANGED driver_vars
  BY <1>2 DEF driver_vars, DriverInv, DriverTypeOK, ErrorsKeepOutputs, Progress, Kept,
              Untouched, AtMostBy, Targets
<1>. QED BY <1>1, <1>2 DEF DriverNext, AllEnded

(* The inductive invariant holds. *)
THEOREM DriverInvariant == DriverSpec => []DriverInv
BY InvariantAtStart, InvariantKept, PTL DEF DriverSpec

(* Only a run whose source passed the analysis ever touches a file: the     *)
(* output is opened after everything that can throw.                        *)
THEOREM FailuresLeaveNoTrace == DriverSpec => []ErrorsKeepOutputs
<1>1. DriverInv => ErrorsKeepOutputs
  BY DEF DriverInv
<1>. QED BY <1>1, DriverInvariant, PTL

(* The exit code can be relied on, whatever the other runs do to other      *)
(* files and although the driver looks at no error of opening or writing.   *)
THEOREM SuccessIsReliable == DriverSpec => []SuccessMeansModule
<1>1. DriverInv => SuccessMeansModule
  BY DEF DriverInv, SuccessMeansModule, Progress, Kept
<1>. QED BY <1>1, DriverInvariant, PTL

(* A default output is never the input. *)
LEMMA DefaultIsAnother ==
  ASSUME NEW name \in Seq(STRING)
  PROVE  DefaultOutput(name) # name
BY DEF DefaultOutput, Matches

(* No source is lost to a default output. *)
THEOREM SourcesAreKept == DriverSpec => []SourcesKept
<1>1. ASSUME DriverInv, NEW p \in Runs, command[p].inputs # <<>>, command[p].outputs = <<>>,
             AtMostBy(p, InputOf(command[p]))
      PROVE  files[InputOf(command[p])] = before[InputOf(command[p])]
  <2>1. command[p] \in Command
    BY <1>1, CommandsAssumption DEF DriverInv, DriverTypeOK
  <2>2. InputOf(command[p]) \in Seq(STRING)
    BY <1>1, <2>1 DEF Command, InputOf
  <2>3. ~Targets(p, InputOf(command[p]))
    BY <1>1, <2>2, DefaultIsAnother DEF Targets, OutputOf
  <2>4. InputOf(command[p]) \in FileNames
    BY <1>1, NamesKnown DEF DriverInv
  <2>. QED BY <1>1, <2>3, <2>4 DEF DriverInv, ErrorsKeepOutputs, AtMostBy
<1>2. DriverInv => SourcesKept
  BY <1>1 DEF SourcesKept
<1>. QED BY <1>2, DriverInvariant, PTL

============================================================================
