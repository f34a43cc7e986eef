---------------------------- MODULE MCAlgorithms ----------------------------
(* The pure algorithms, for TLC: select_with_retry_plan for four workers,   *)
(* from idle to saturated on every metric, and ties; the topology parser on *)
(* documents that are rendered from a tree or typed line by line, up to the *)
(* nesting of a topology file, mappings in lists in mappings.  A behaviour  *)
(* is about one of the two, and the other rests.                            *)
EXTENDS RetryPlan, Topology

CONSTANTS
    w1, w2, w3, w4,
    Trees,        \* the values that documents are rendered from
    Indents,      \* of typed lines
    FirstIndent,  \* of the first of them
    MaxLines,     \* the length of a typed document
    Typed         \* no tree

VARIABLES tree, lines, result

-----------------------------------------------------------------------------
(* Retry plans. *)

Report(ttft, vram, queue, price) ==
    [ttft |-> ttft, vram |-> vram, queue |-> queue, price |-> price]

MCMetrics == {Report(5, 30, 0, 20), Report(40, 90, 50, 20), Report(400, 100, 300, 120)}

Symmetry == Permutations(Worker)

Planned ==
    /\ seenAge = [w \in Worker |-> Fresh + 1]
    /\ cool = [w \in Worker |-> 0]
    /\ load = [w \in Worker |-> Report(5, 30, 0, 20)]
    /\ plan = <<>> /\ picking = FALSE

-----------------------------------------------------------------------------
(* Documents. *)

\* The mappings of one or two keys to values of V, and the lists of one or two.
Keys     == {<<"", "a">>, <<"", "b">>}
Maps(V)  == {<<"map", f>> : f \in UNION {[K -> V] : K \in SUBSET Keys \ {{}}}}
Lists(V) == {<<"list", s>> : s \in [1 .. 1 -> V] \cup [1 .. 2 -> V]}

Flat(S)   == Maps(S) \cup Lists(S \cup Maps(S))
Nested(S) == Maps(S \cup Flat(S))
PlainTrees ==
    Nested({Plain}) \cup {<<"map", <<"", "a">> :> l>> : l \in Lists(Maps({Plain} \cup Lists({Plain})))}
                    \cup {<<"map", <<"", "a">> :> <<"list", <<m>>>>>> : m \in Nested({Plain})}

NoTrees  == {}
UrlTrees == Maps({Url} \cup Lists({Url}))

Unread == <<"unread">>

Document ==
    /\ tree \in Trees \cup {Typed}
    /\ lines = IF tree = Typed THEN <<>> ELSE Render(tree, 0)
    /\ result = Unread

NoDocument == tree = Typed /\ lines = <<>> /\ result = Null

\* The keys of a typed document are all different.
Type ==
    /\ tree = Typed /\ result = Unread /\ Len(lines) < MaxLines
    /\ \E ind \in IF lines = <<>> THEN {FirstIndent} ELSE Indents :
       \E dash \in BOOLEAN, key \in {NoKey, ToString(Len(lines))}, rest \in {NoRest, Plain} :
         /\ key = NoKey => rest = Plain
         /\ lines' = Append(lines, Line(ind, dash, key, rest))
    /\ UNCHANGED <<tree, result>>

Load ==
    /\ result = Unread /\ lines # <<>>
    /\ result' = parse_yaml_subset(lines)
    /\ UNCHANGED <<tree, lines>>

-----------------------------------------------------------------------------
MCInit == (Init /\ NoDocument) \/ (Planned /\ Document)

MCNext ==
    \/ Next /\ UNCHANGED <<tree, lines, result>>
    \/ (Type \/ Load) /\ UNCHANGED vars

MCSpec == MCInit /\ [][MCNext]_<<vars, tree, lines, result>>

\* What the documentation calls the subset is read as it was meant, however
\* mappings and lists are nested.
RoundTrip == tree # Typed /\ result # Unread => result = tree

\* A document that begins at the margin, is read as a mapping and not rejected
\* has every one of its lines in the result.
EveryLineCounts ==
    tree = Typed /\ result[1] = "map" => Size(result) = Len(lines)
=============================================================================
