----------------------------- MODULE MCLibrary -----------------------------
(* Instances of Library for TLC. *)
EXTENDS Library

El(type, policy, mark, path, pages, sizes) ==
    [type |-> type, policy |-> policy, mark |-> mark, path |-> path, pages |-> pages, sizes |-> sizes]

\* What may stand at place n of a paper: short and long prose, prose under a
\* heading and across a page break, a table with a row too long for a pack.
Kit(n) ==
    {El("prose", "embed", "body", 0, {n}, <<1>>),
     El("prose", "embed", "body", 0, {n, n + 1}, <<2>>),
     El("prose", "embed", "authorish", 1, {n}, <<3, 4, 4>>),
     El("prose", "embed", "body", 1, {n}, <<6, 1>>),
     El("heading", "embed", "section", 1, {n}, <<1>>),
     El("table", "embed", "body", 0, {n}, <<1, 1, 2>>),
     El("table", "embed", "body", 1, {n}, <<3, 1>>),
     El("figure", "embed", "body", 0, {n}, <<1>>),
     El("prose", "drop", "body", 0, {n}, <<1>>),
     El("table", "skip", "body", 0, {n}, <<1>>)}

Long == {<<a, b, c>> : a \in Kit(1), b \in Kit(2), c \in Kit(3)}

\* Small papers to be searched: prose with a table beside it, a table in two
\* packs, two tables that are the first element of their document.
Text == <<El("prose", "embed", "body", 0, {1}, <<1>>)>>
Grid(rows) == <<El("table", "embed", "body", 0, {1}, rows)>>

MCScore == {-10, 42, 50}

MCLibraries ==
    {<<paper, Text>> : paper \in Long \cup {Text \o Grid(<<1>>), Grid(<<3, 3>>)}}
    \cup {<<Grid(<<1>>), Grid(<<1>>)>>}

=============================================================================
