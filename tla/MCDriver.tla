------------------------------ MODULE MCDriver ------------------------------
(***************************************************************************)
(* Two runs over the files of a small build: a source that is well named   *)
(* and supported, one that is well named and not supported, one that is    *)
(* not; inputs with and without a suffix, whose outputs may collide, be    *)
(* inputs of the other run, or be the input itself.                        *)
(***************************************************************************)
EXTENDS Driver

CONSTANTS p, q   \* the runs

MCFuncNames == {"f", "g"}
MCVarNames  == {"x"}

Returning(expr) ==
  [decls |-> <<>>,
   defs |-> << [name |-> "f", params |-> <<>>, vars |-> <<>>,
                body |-> <<[kind |-> "jump_statement"]>> \o expr] >>]

Good     == Returning(<<[kind |-> "number_literal", value |-> 0]>>)
Unnamed  == Returning(<<[kind |-> "identifier", name |-> "x"]>>)
Endless  == [Good EXCEPT !.defs[1].body = <<>>]

MCPrograms == {Good, Unnamed, Endless}
MCStems    == {"a"}

Line(inputs, outputs) ==
  [inputs |-> inputs, outputs |-> outputs, unknown |-> FALSE]

Dc    == <<"a", "dc">>
Plain == <<"a">>
Deep  == <<"d/a", "dc">>

MCCommands ==
  {Line(<<Dc>>, <<>>), Line(<<Plain>>, <<>>), Line(<<Deep>>, <<>>),
   Line(<<Plain>>, <<Dc>>), Line(<<Dc>>, <<Dc>>), Line(<<Dc>>, <<Deep>>),
   Line(<<Dc, Deep>>, <<>>), Line(<<Dc>>, <<Plain, Deep>>),
   Line(<<>>, <<>>), [Line(<<Dc>>, <<>>) EXCEPT !.unknown = TRUE]}

(* The two names without an output's suffix hold anything a build may find. *)
MCDisks ==
  {[f \in FileNames |-> CASE f = Dc -> s [] f = Plain -> t [] f = Deep -> u [] OTHER -> Other] :
     s \in {Missing, Other} \cup {Source(k) : k \in MCPrograms},
     t \in {Missing, Nothing} \cup {Source(k) : k \in MCPrograms},
     u \in {Missing, Source(Good)}}

============================================================================
