---------------------------- MODULE MCPathMount ----------------------------
(***************************************************************************)
(* Up to three entries: paths that extend, equal and cross each other, one *)
(* over the limit, one with an empty segment, the empty key, and entries   *)
(* with a flaw inside and outside the prefix.  The value of an entry is    *)
(* its position, so that no two are equal.                                 *)
(***************************************************************************)
EXTENDS PathMount

CONSTANT MaxEntries

MCPaths == {<<0>>, <<1>>, <<2>>, <<1, 1>>, <<1, 2>>, <<1, 1, 1>>, <<1, 0>>,
            <<1, 1, 1, 1>>}
MCValues == 1..MaxEntries

Kind(own, flaw, path) == [own |-> own, flaw |-> flaw, path |-> path]
Sound == {Kind(TRUE, "none", p) : p \in MCPaths}
Kinds(a) ==
    CASE a = "properties" -> Sound \cup {Kind(TRUE, f, <<1>>) : f \in {"line", "entry"}}
      [] a = "env" -> Sound \cup {Kind(TRUE, "entry", <<1>>), Kind(FALSE, "none", <<1, 1>>),
                                  Kind(FALSE, "entry", <<2>>), Kind(FALSE, "none", <<1, 0>>)}
      [] a = "dotenv" -> Sound \cup {Kind(TRUE, "entry", <<1>>), Kind(FALSE, "none", <<1, 1>>),
                                     Kind(FALSE, "entry", <<2>>), Kind(FALSE, "line", <<2>>)}

Numbered(s) == [i \in DOMAIN s |->
    [own |-> s[i].own, flaw |-> s[i].flaw, path |-> s[i].path, value |-> i]]
MCInputs ==
    UNION {{<<a, Numbered(s)>> : s \in UNION {[1..n -> Kinds(a)] : n \in 0..MaxEntries}}
           : a \in Adapters}
=============================================================================
