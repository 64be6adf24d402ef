------------------------------ MODULE MCConversion ------------------------------
(***************************************************************************)
(* Two input files.  The first has one or two messages of one to three     *)
(* fields; the second a message with one field, or it is gone.             *)
(***************************************************************************)
EXTENDS Conversion

CONSTANTS u, v

MCNames == {u, v}

(* What may become of a field.                                             *)
Fates == {<<"write", TRUE>>, <<"write", FALSE>>, <<"ignore", TRUE>>, <<"error", TRUE>>}

Fields(names, grids, bitmaps, fates) ==
  {[name |-> w[1], grid |-> w[2], bitmap |-> w[3], rule |-> w[4][1], good |-> w[4][2]] :
     w \in names \X grids \X bitmaps \X fates}

Whole(fields) == [readable |-> TRUE, fields |-> fields]

FirstField  == Fields(MCNames, {TRUE}, BOOLEAN, Fates)
PlainField  == [name |-> u, grid |-> TRUE, bitmap |-> TRUE, rule |-> "write", good |-> TRUE]
Borrower    == [PlainField EXCEPT !.bitmap = FALSE]   \* a bitmap defined before
SecondField == Fields(MCNames, BOOLEAN, BOOLEAN, Fates)
SimpleField == Fields(MCNames, {FALSE}, BOOLEAN, {<<"write", TRUE>>})
ThirdField  == Fields({u}, BOOLEAN, {FALSE}, {<<"write", TRUE>>})

MCMessages ==
  {[readable |-> FALSE, fields |-> <<PlainField>>]}
    \cup {Whole(<<f>>) : f \in FirstField}
    \cup {Whole(<<PlainField, f>>) : f \in SecondField}
    \cup {Whole(<<Borrower, f>>) : f \in SimpleField}
    \cup {Whole(<<PlainField, f, g>>) : f \in {x \in SecondField : x.rule = "write"}, g \in ThirdField}

(* The second message of a file meets what the first one has left.         *)
Later ==
  {[readable |-> FALSE, fields |-> <<PlainField>>]}
    \cup {Whole(<<[PlainField EXCEPT !.name = x]>>) : x \in MCNames}
    \cup {Whole(<<PlainField, f>>) : f \in {x \in SecondField : x.rule # "ignore" /\ x.good}}
    \cup {Whole(<<Borrower, f>>) : f \in SimpleField}

There(messages) == [there |-> TRUE, messages |-> messages]

FirstFile  == {There(<<x>>) : x \in MCMessages} \cup {There(<<x, y>>) : x \in MCMessages, y \in Later}
SecondFile == {[there |-> FALSE, messages |-> <<>>], There(<<Whole(<<PlainField>>)>>)}

MCInputs == {<<x, y>> : x \in FirstFile, y \in SecondFile}
===============================================================================
