-------------------------------- MODULE Ast --------------------------------
(***************************************************************************)
(* Expression trees (core/types.rs, AstNode).                              *)
(*                                                                         *)
(* Every node is a record of one shape, so that nodes can be compared:     *)
(* its kind, the operator or name it carries, its number and its children. *)
(* A Matrix has one child of kind "row" per row.  An f64 is modelled by    *)
(* the rational <<n, d>>: arithmetic is exact, and the only rounding kept  *)
(* is the one a BigNumber suffers on its way into an f64 (Rounded).        *)
(***************************************************************************)
EXTENDS RustNumbers, FiniteSets

Node(kind, head, num, kids) == [kind |-> kind, head |-> head, num |-> num, kids |-> kids]

Number(q)        == Node("number", "", q, <<>>)
Num(i)           == Number(<<i, 1>>)
BigNumber(i)     == Node("bignumber", "", <<i, 1>>, <<>>)
Variable(x)      == Node("variable", x, Zero, <<>>)
BinaryOp(op, l, r) == Node("binary", op, Zero, <<l, r>>)
Neg(e)           == Node("neg", "-", Zero, <<e>>)
Call(name, args) == Node("call", name, Zero, args)
Str(s)           == Node("str", s, Zero, <<>>)
List(elems)      == Node("list", "list", Zero, elems)
Complex(re, im)  == Node("complex", "complex", Zero, <<Number(re), Number(im)>>)
Row(elems)       == Node("row", "", Zero, elems)
Matrix(rows)     == Node("matrix", "matrix", Zero, [i \in DOMAIN rows |-> Row(rows[i])])

BinaryOps == {"+", "-", "*", "/", "^", "mod"}
IsNumber(e) == e.kind = "number"
IsList(e)   == e.kind = "list"

\* The nodes of e a recursive search visits when it does not look inside
\* nodes of the kinds in opaque.
RECURSIVE NodesOutside(_, _)
NodesOutside(e, opaque) ==
    {e} \cup (IF e.kind \in opaque THEN {}
              ELSE UNION {NodesOutside(e.kids[i], opaque) : i \in DOMAIN e.kids})

\* collect_function_names: does not descend into lists and matrices.
FunctionsOf(e, opaque) == {n.head : n \in {m \in NodesOutside(e, opaque) : m.kind = "call"}}

\* FunctionCall("mod" / "abs") is how the parser writes a % b and abs(x).
ModCall(a, b) == Call("mod", <<a, b>>)
AbsCall(a)    == Call("abs", <<a>>)
=============================================================================
