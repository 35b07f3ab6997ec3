--------------------------- MODULE MCRequestReply ---------------------------
(***************************************************************************)
(* RequestReply, the four pairs, with ints of two bytes that hold          *)
(* -128 .. 127.  An op_client reads three characters: all results but      *)
(* "-103" fit, as all but those of eleven characters fit into the ten of   *)
(* the code.  One request has no numbers, one an operator there is not,    *)
(* one overflows.  A line is empty or has two characters.                  *)
(***************************************************************************)
EXTENDS RequestReply

R(params, op) == [params |-> params, op |-> op]

Entered == {R(<<>>, "+"), R(<<5>>, "/"), R(<<100, 50>>, "+"),
            R(<<-100, 3>>, "-"), R(<<2, -7, 3>>, "*")}

TextLines == {R(<<>>, "newline"), R(<<1, 2>>, "newline")}

GarbledResults == {Err, -128}
=============================================================================
