------------------------------ MODULE Topology ------------------------------
(***************************************************************************)
(* The parser of topology files (src/orchestrator/topology.py): indented   *)
(* lines of a subset of YAML, to mappings, lists and scalars.              *)
(*                                                                         *)
(* A line is [ind, dash, key, rest]: its indentation; whether it begins    *)
(* with "- "; what is before the first colon, or NoKey; and the scalar     *)
(* after it, or NoRest.  Comments, blank lines and the types of scalars    *)
(* are left out.  A value is tagged: a scalar, a mapping or a list.        *)
(***************************************************************************)
EXTENDS Naturals, Sequences, TLC
LOCAL INSTANCE FiniteSetsExt

NoKey  == "no key"
NoRest == <<"none">>
Null   == <<"scalar", "null">>
Plain  == <<"scalar", "v">>
Url    == <<"scalar", "http://v">>     \* a scalar with a colon in it

Line(ind, dash, key, rest) == [ind |-> ind, dash |-> dash, key |-> key, rest |-> rest]

-----------------------------------------------------------------------------
(* Rendering, as the documentation describes the subset. *)

RECURSIVE RenderMap(_, _), RenderList(_, _)

Render(v, ind) == IF v[1] = "map" THEN RenderMap(v[2], ind) ELSE RenderList(v[2], ind)

\* key: value, or key: and an indented block.
Pair(dash, ind, k, v, deeper) ==
    IF v[1] = "scalar" THEN <<Line(ind, dash, k, v)>>
    ELSE <<Line(ind, dash, k, NoRest)>> \o Render(v, deeper)

Without(f, k) == [x \in DOMAIN f \ {k} |-> f[x]]

RenderMap(f, ind) ==
    IF DOMAIN f = {} THEN <<>>
    ELSE LET k == CHOOSE x \in DOMAIN f : TRUE
         IN  Pair(FALSE, ind, k[2], f[k], ind + 2) \o RenderMap(Without(f, k), ind)

\* - value, or - key: value with the other keys below the first.
Item(v, ind) ==
    IF v[1] = "scalar" THEN <<Line(ind, TRUE, NoKey, v)>>
    ELSE LET k == CHOOSE x \in DOMAIN v[2] : TRUE
         IN  Pair(TRUE, ind, k[2], v[2][k], ind + 4) \o RenderMap(Without(v[2], k), ind + 2)

RenderList(s, ind) ==
    IF s = <<>> THEN <<>> ELSE Item(Head(s), ind) \o RenderList(Tail(s), ind)

-----------------------------------------------------------------------------
(* The parser. *)

\* What a function of the parser returns: a value and the next line, or the
\* exception that it raises.
Parsed(v, i) == [val |-> v, at |-> i]
Raised       == Parsed(<<"error">>, 0)
Fails(r)     == r.at = 0

\* The first colon of a line ends a key, wherever it stands.
Colon(l) == IF l.key = NoKey /\ l.rest = Url THEN [l EXCEPT !.key = "http", !.rest = Plain] ELSE l

Deeper(i, ind) == i > ind

\* Mutant: the other keys of an item are below its dash.
BelowDash(ind) == ind

child_indent(ind) == ind + 2

\* Mutant: a block ends at every other indentation.
EndsAtOther(ls, i, ind) == i > Len(ls) \/ ls[i].ind # ind

\* A block ends at a line that is less indented.
Ends(ls, i, ind) == i > Len(ls) \/ ls[i].ind < ind

\* The functions of the parser call one another.
RECURSIVE _parse_block(_, _, _), _parse_map(_, _, _, _), _parse_list(_, _, _, _),
          Children(_, _, _, _)

_parse_block(ls, i, ind) ==
    IF ls[i].dash THEN _parse_list(ls, i, ind, <<>>) ELSE _parse_map(ls, i, ind, <<>>)

\* The value of the key on line i: the scalar, the block below, or null.
Value(ls, i, ind, rest) ==
    IF rest # NoRest THEN Parsed(rest, i + 1)
    ELSE IF i < Len(ls) /\ Deeper(ls[i + 1].ind, ind)
      THEN _parse_block(ls, i + 1, ls[i + 1].ind)
      ELSE Parsed(Null, i + 1)

\* A dash in a mapping is part of the key.
Key(l) == IF l.dash THEN <<"-", l.key>> ELSE <<"", l.key>>

_parse_map(ls, i, ind, d) ==
    IF Ends(ls, i, ind) THEN Parsed(<<"map", d>>, i)
    ELSE IF ls[i].ind > ind \/ Colon(ls[i]).key = NoKey THEN Raised
    ELSE LET v == Value(ls, i, ind, Colon(ls[i]).rest)
         IN  IF Fails(v) THEN Raised
             ELSE _parse_map(ls, v.at, ind, (Key(Colon(ls[i])) :> v.val) @@ d)

\* A line without a colon is a key as well, below the dash of a list item.
BareKey(ls, i) ==
    LET l == Colon(ls[i])
    IN  IF l.key = NoKey THEN [key |-> <<"bare", i>>, rest |-> NoRest]
        ELSE [key |-> Key(l), rest |-> l.rest]

\* The other keys of a list item.
Children(ls, i, ind, d) ==
    IF i > Len(ls) \/ ls[i].ind # ind \/ ls[i].dash THEN Parsed(d, i)
    ELSE LET k == BareKey(ls, i)
             v == Value(ls, i, ind, k.rest)
         IN  IF Fails(v) THEN Raised
             ELSE Children(ls, v.at, ind, (k.key :> v.val) @@ d)

_parse_list(ls, i, ind, items) ==
    IF Ends(ls, i, ind) THEN Parsed(<<"list", items>>, i)
    ELSE IF ls[i].ind > ind THEN Raised
    ELSE IF ~ls[i].dash THEN Parsed(<<"list", items>>, i)
    ELSE IF Colon(ls[i]).key = NoKey
      THEN _parse_list(ls, i + 1, ind, Append(items, ls[i].rest))
      ELSE LET v == Value(ls, i, ind, Colon(ls[i]).rest)
               d == Children(ls, v.at, child_indent(ind), <<"", Colon(ls[i]).key>> :> v.val)
           IN  IF Fails(v) \/ Fails(d) THEN Raised
               ELSE _parse_list(ls, d.at, ind, Append(items, <<"map", d.val>>))

\* What is after the block of the first line is not looked at.
parse_yaml_subset(ls) == _parse_block(ls, 1, ls[1].ind).val

-----------------------------------------------------------------------------
\* The lines of a document that its value accounts for.
RECURSIVE Size(_)
Size(v) ==
    CASE v[1] = "scalar" -> 1
      [] v[1] = "map"    -> MapThenSumSet(LAMBDA k : IF v[2][k][1] = "scalar" THEN 1
                                                     ELSE 1 + Size(v[2][k]), DOMAIN v[2])
      [] v[1] = "list"   -> MapThenSumSet(LAMBDA i : Size(v[2][i]), DOMAIN v[2])
=============================================================================
