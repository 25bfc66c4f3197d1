------------------------------- MODULE Driver -------------------------------
(***************************************************************************)
(* main(): runs of dcc over a common file system.  Each run takes its      *)
(* options, reads a file, compiles what it read, and writes the module.    *)
(* Runs may follow one another or overlap, as those of a parallel build    *)
(* do; files may be missing, refuse to be opened, and the disk may be full.*)
(*                                                                         *)
(* What a file holds is the source of a unit, the printed module of one,   *)
(* nothing, or anything else.                                              *)
(***************************************************************************)
EXTENDS Language

CONSTANTS
  Runs,       \* the runs of dcc
  Commands,   \* the command lines they may have
  Stems,      \* the parts of file names that consist of word characters
  Disks       \* what the files of FileNames may hold before the runs

Nothing   == [is |-> "nothing"]
Other     == [is |-> "other"]
Source(t) == [is |-> "source", unit |-> t]
Module(t) == [is |-> "module", unit |-> t]

Texts   == {Nothing, Other} \cup {Source(t) : t \in Programs} \cup {Module(t) : t \in Programs}
Missing == [is |-> "missing"]

(* The name that stands for standard output: LLVM opens no file for it.     *)
StandardOutput == <<"-">>

(* A command line: the names given without an option and with "-o", and     *)
(* whether it has an option dcc does not know.  (main() never looks whether *)
(* it was asked for help.)  Outputs are files.                              *)
Command ==
  [inputs  : Seq(Seq(STRING)),
   outputs : Seq(Seq(STRING) \ {StandardOutput}),
   unknown : BOOLEAN]

ASSUME CommandsAssumption == Commands \subseteq Command

(* A file name is the sequence of its parts between dots. *)
Matches(name) == Len(name) = 2 /\ name[1] \in Stems /\ name[2] = "dc"

(* Mutant: what does not match is left as it is. *)
DefaultOutputReplaced(name) == IF Matches(name) THEN <<name[1], "ll">> ELSE name

(* (\w+)\.dc becomes $1.ll, and anything else gets .ll added. *)
DefaultOutput(name) == IF Matches(name) THEN <<name[1], "ll">> ELSE Append(name, "ll")

InputOf(command) == command.inputs[1]

OutputOf(command) ==
  IF command.outputs # <<>> THEN command.outputs[1] ELSE DefaultOutput(InputOf(command))

FileNames ==
  UNION {{InputOf(c), OutputOf(c)} : c \in {c \in Commands : c.inputs # <<>>}}

ASSUME DisksAssumption == Disks \subseteq [FileNames -> Texts \cup {Missing}]

VARIABLES
  files,     \* what the file system holds
  before,    \* what it held in the beginning
  command,   \* the command line of each run
  at,        \* where in main() each run is
  code,      \* what each run has read
  ended      \* how each run ended, "" before

driver_vars == <<files, before, command, at, code, ended>>

DriverTypeOK ==
  /\ files \in [FileNames -> Texts \cup {Missing}]
  /\ before \in [FileNames -> Texts \cup {Missing}]
  /\ command \in [Runs -> Commands]
  /\ at \in [Runs -> {"options", "read", "compile", "open", "print", "broken", "end"}]
  /\ code \in [Runs -> Texts]
  /\ ended \in [Runs -> {"", "success", "exception", "crash", "fatal error"}]

DriverInit ==
  /\ files \in Disks
  /\ before = files
  /\ command \in [Runs -> Commands]
  /\ at = [p \in Runs |-> "options"]
  /\ code = [p \in Runs |-> Nothing]
  /\ ended = [p \in Runs |-> ""]

----------------------------------------------------------------------------
Go(p, place) ==
  at' = [at EXCEPT ![p] = place] /\ UNCHANGED <<before, command, ended>>

End(p, how) ==
  /\ at' = [at EXCEPT ![p] = "end"]
  /\ ended' = [ended EXCEPT ![p] = how]
  /\ UNCHANGED <<before, command>>

(* Options are stored: one that is unknown and one that is repeated are     *)
(* exceptions nobody catches.  Without an input file there is nothing to do.*)
StoreOptions(p) ==
  /\ at[p] = "options"
  /\ LET c == command[p]
     IN  IF c.unknown \/ Len(c.inputs) > 1 \/ Len(c.outputs) > 1 THEN End(p, "exception")
         ELSE IF c.inputs = <<>> THEN End(p, "success")
         ELSE Go(p, "read")
  /\ UNCHANGED <<files, code>>

(* Mutant: the text of a file that cannot be opened is not set. *)
ReadInputUnchecked(p) ==
  /\ at[p] = "read"
  /\ code' = [code EXCEPT ![p] = files[InputOf(command[p])]]
  /\ Go(p, "compile")
  /\ UNCHANGED files

(* A file that cannot be opened reads as empty. *)
ReadInput(p) ==
  /\ at[p] = "read"
  /\ LET text == files[InputOf(command[p])]
     IN  code' = [code EXCEPT ![p] = IF text = Missing THEN Nothing ELSE text]
  /\ Go(p, "compile")
  /\ UNCHANGED files

(* Mutant: the output is opened before the source is known to be good. *)
CompileOpened(p) ==
  /\ at[p] = "compile"
  /\ files' = [files EXCEPT ![OutputOf(command[p])] = Nothing]
  /\ \/ code[p].is # "source" /\ End(p, "exception")
     \/ /\ code[p].is = "source"
        /\ \E outcome \in Outcomes(code[p].unit) :
             \/ outcome = "rejected" /\ End(p, "exception")
             \/ outcome = "crashed" /\ End(p, "crash")
             \/ outcome = "module" /\ Go(p, "open")
  /\ UNCHANGED code

(* Parser, analysis and generator: anything but a module ends the process.  *)
CompileText(p) ==
  /\ at[p] = "compile"
  /\ \/ code[p].is # "source" /\ End(p, "exception")
     \/ /\ code[p].is = "source"
        /\ \E outcome \in Outcomes(code[p].unit) :
             \/ outcome = "rejected" /\ End(p, "exception")
             \/ outcome = "crashed" /\ End(p, "crash")
             \/ outcome = "module" /\ Go(p, "open")
  /\ UNCHANGED <<files, code>>

(* Mutant: an output that cannot be opened is no output. *)
OpenOutputOrEnd(p) ==
  /\ at[p] = "open"
  /\ \/ files' = [files EXCEPT ![OutputOf(command[p])] = Nothing] /\ Go(p, "print")
     \/ UNCHANGED files /\ End(p, "success")
  /\ UNCHANGED code

(* Mutant: an output that cannot be opened is tried again from the start. *)
OpenOutputAgain(p) ==
  /\ at[p] = "open"
  /\ \/ files' = [files EXCEPT ![OutputOf(command[p])] = Nothing] /\ Go(p, "print")
     \/ UNCHANGED files /\ Go(p, "compile")
  /\ UNCHANGED code

(* The output is opened, which empties it; an error is not looked at.       *)
OpenOutput(p) ==
  /\ at[p] = "open"
  /\ \/ files' = [files EXCEPT ![OutputOf(command[p])] = Nothing] /\ Go(p, "print")
     \/ UNCHANGED files /\ Go(p, "broken")
  /\ UNCHANGED code

(* What a file holds once a text is written from its beginning on. *)
Written(old, new) == IF old = Nothing THEN {new} ELSE {new, Other}

(* The module is printed and the stream closed. *)
PrintModule(p) ==
  /\ at[p] = "print"
  /\ LET out == OutputOf(command[p])
     IN  \E text \in Written(files[out], Module(code[p].unit)) : files' = [files EXCEPT ![out] = text]
  /\ End(p, "success")
  /\ UNCHANGED code

(* A part of it is, and the disk is full. *)
PrintPart(p) ==
  /\ at[p] = "print"
  /\ \E text \in {Nothing, Other} : files' = [files EXCEPT ![OutputOf(command[p])] = text]
  /\ End(p, "fatal error")
  /\ UNCHANGED code

(* A stream that was never open fails when it is written to, and says so    *)
(* when it is destroyed.                                                    *)
PrintNothing(p) ==
  /\ at[p] = "broken"
  /\ End(p, "fatal error")
  /\ UNCHANGED <<files, code>>

Main(p) ==
  \/ StoreOptions(p)
  \/ ReadInput(p)
  \/ CompileText(p)
  \/ OpenOutput(p)
  \/ PrintModule(p)
  \/ PrintPart(p)
  \/ PrintNothing(p)

AllEnded == (\A p \in Runs : at[p] = "end") /\ UNCHANGED driver_vars

DriverNext == (\E p \in Runs : Main(p)) \/ AllEnded

(* A run waits for no other, and the system schedules each. *)
DriverSpec ==
  DriverInit /\ [][DriverNext]_driver_vars /\ \A p \in Runs : WF_driver_vars(Main(p))

----------------------------------------------------------------------------
(* Run p names f as its output, no run does, and no run but p does. *)
Targets(p, f)  == command[p].inputs # <<>> /\ f = OutputOf(command[p])
Untouched(f)   == \A q \in Runs : ~Targets(q, f)
AtMostBy(p, f) == \A q \in Runs \ {p} : ~Targets(q, f)

(* The order main() goes through decides what a failure leaves behind: only *)
(* a run whose source passed the analysis ever touches its output.  Text    *)
(* that is no program, or a badly named one, costs nobody a file, though a  *)
(* missing source is compiled as if it were empty.                          *)
ErrorsKeepOutputs ==
  \A f \in FileNames : files[f] # before[f] =>
    \E p \in Runs : Targets(p, f) /\ code[p].is = "source" /\ WellNamed(code[p].unit)

(* A build can rely on the exit code: after a success, and as long as no    *)
(* run writes to the input and none but this one to the output, the output  *)
(* is the module of what the input holds, although errors of opening and    *)
(* writing are not looked at.                                               *)
SuccessMeansModule ==
  \A p \in Runs : ended[p] = "success" /\ command[p].inputs # <<>> =>
    LET in  == InputOf(command[p])
        out == OutputOf(command[p])
    IN  Untouched(in) /\ AtMostBy(p, out) =>
          files[in].is = "source" /\ files[out] = Module(files[in].unit)

(* Whatever the input is called, a run that is not told its output does not *)
(* write over its source.                                                   *)
SourcesKept ==
  \A p \in Runs : command[p].inputs # <<>> =>
    LET in == InputOf(command[p])
    IN  command[p].outputs = <<>> /\ AtMostBy(p, in) => files[in] = before[in]

----------------------------------------------------------------------------
(* The inductive invariant: what a run knows between two steps. *)

(* What it has read decides how far it gets. *)
Progress(p) ==
  /\ at[p] \in {"read", "compile", "open", "print", "broken"} => command[p].inputs # <<>>
  /\ at[p] \in {"options", "read"} => code[p] = Nothing
  /\ at[p] # "end" => ended[p] = ""
  /\ at[p] \in {"open", "print", "broken"} \/ (ended[p] = "success" /\ command[p].inputs # <<>>)
       => code[p].is = "source" /\ WellNamed(code[p].unit)

(* What it has read and written is still there, if no other run writes to it. *)
Kept(p) ==
  command[p].inputs # <<>> =>
    LET in  == InputOf(command[p])
        out == OutputOf(command[p])
    IN  /\ code[p].is = "source" /\ Untouched(in) => files[in] = code[p]
        /\ at[p] = "print" /\ AtMostBy(p, out) => files[out] = Nothing
        /\ ended[p] = "success" /\ AtMostBy(p, out) => files[out] = Module(code[p].unit)

DriverInv ==
  /\ DriverTypeOK
  /\ ErrorsKeepOutputs
  /\ \A p \in Runs : Progress(p) /\ Kept(p)

----------------------------------------------------------------------------
(* Every run ends, whatever the others do to its files. *)
RunsEnd == \A p \in Runs : <>(at[p] = "end")

============================================================================
