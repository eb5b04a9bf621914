--------------------------- MODULE MCIncludeLoader ---------------------------
(***************************************************************************)
(* Two directories with files a.conf, a.json and a.properties in each.     *)
(* The text is parsed in /d, where ("e", "a.conf") is a package, so that   *)
(* /d/e/a.conf can be reached as a path and as a package.                  *)
(***************************************************************************)
EXTENDS IncludeMeaning

File(dir, ext) == dir \o "/a" \o ext
Nowhere == "/nowhere.conf"
MCDirs == {"/d", "/d/e"}
MCFiles == {File(dir, Extensions[i]) : dir \in MCDirs, i \in 1..3} \cup {Nowhere}
MCBare == {"/d/a", "/d/e/a"}
MCPaths == {"a", "a.conf", "e/a.conf", "../a.conf"}
MCJoined == [dir \in MCDirs |-> [path \in MCPaths |->
    CASE path = "a" -> dir \o "/a"
      [] path = "a.conf" -> dir \o "/a.conf"
      [] dir = "/d" /\ path = "e/a.conf" -> "/d/e/a.conf"
      [] dir = "/d/e" /\ path = "../a.conf" -> "/d/a.conf"
      [] OTHER -> Nowhere]]
MCWithExtension == [abs \in MCBare |-> [ext \in {Extensions[i] : i \in 1..3} |-> abs \o ext]]
MCDirOf == [f \in MCFiles |->
    IF f \in {File("/d", Extensions[i]) : i \in 1..3} THEN "/d" ELSE "/d/e"]
MCPackages == {"package e a.conf"}
MCPackageFile == [base \in MCDirs |-> [p \in MCPackages |->
    IF base = "/d" THEN "/d/e/a.conf" ELSE Nowhere]]
MCPropertiesFiles == {File(dir, ".properties") : dir \in MCDirs}
MCResolveFrom == <<"/d/e", "/d">>

Set(k) == [how |-> "set", at |-> <<>>, target |-> k, required |-> FALSE]
Inc(path) == [how |-> "relative", at |-> <<>>, target |-> path, required |-> FALSE]
FileInc(path) == [Inc(path) EXCEPT !.how = "file"]
PackageInc == [Inc("package e a.conf") EXCEPT !.how = "package"]
Required(s) == [s EXCEPT !.required = TRUE]
Within(k, s) == [s EXCEPT !.at = <<k>>]

Document(items) == [kind |-> "object", items |-> items]
Other(kind) == [kind |-> kind, items |-> <<>>]
Missing == Other("missing")

MCTexts == {
    <<Inc("a")>>, <<Set("x"), Within("y", Inc("a")), Set("x")>>, <<Required(Inc("e/a.conf")), Inc("a.conf")>>,
    <<PackageInc, Inc("e/a.conf"), Required(FileInc("a"))>>, <<Required(FileInc("../a.conf"))>>}

AConf == {Missing, Other("unreadable"), Other("rejected")} \cup {Document(items) : items \in {
    <<Set("x")>>, <<Inc("e/a.conf"), Set("x")>>, <<Set("x"), Within("z", Inc("e/a.conf")), PackageInc>>,
    <<Required(Inc("../a.conf"))>>, <<Inc("a")>>}}
AJson == {Missing, Document(<<Set("x")>>), Document(<<Set("x"), Within("y", FileInc("e/a.conf"))>>)}
EConf == {Missing, Other("unreadable")} \cup {Document(items) : items \in {
    <<Set("x")>>, <<Inc("a.conf")>>, <<Within("w", Inc("../a.conf")), Set("x")>>, <<FileInc("a"), Set("x")>>,
    <<PackageInc>>, <<Required(Inc("a"))>>}}
EJson == {Missing, Document(<<Inc("../a.conf"), Set("x")>>)}
MCDisks ==
    {[f \in MCFiles |->
        CASE f = "/d/a.conf" -> c [] f = "/d/a.json" -> j [] f = "/d/a.properties" -> p
          [] f = "/d/e/a.conf" -> ec [] f = "/d/e/a.json" -> ej [] OTHER -> Missing] :
     c \in AConf, j \in AJson, p \in {Missing, Document(<<Set("x"), Within("y", Set("x"))>>)},
     ec \in EConf, ej \in EJson}
=============================================================================
