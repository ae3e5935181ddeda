------------------------- MODULE MCRequestLifecycle -------------------------
(* Instances of RequestLifecycle for TLC: commits, one of them a merge of       *)
(* three, two branches and an annotated tag; at the paths a text file, a binary *)
(* file, a directory and a submodule, whose commit is not in the repository.    *)
EXTENDS RequestLifecycle, TLC

CONSTANTS c1, c2, c3, merge, t1, text, binary, dir, sub, master, topic, v1,
          TextPath, BinaryPath, DirPath, SubPath

MCObject == {c1, c2, c3, merge, t1, text, binary, dir, sub}
MCBranch == {master, topic}
MCTag == {v1}
MCPath == {TextPath, BinaryPath, DirPath, SubPath}
MCKind == (c1 :> "commit") @@ (c2 :> "commit") @@ (c3 :> "commit")
          @@ (merge :> "commit") @@ (sub :> "commit") @@ (t1 :> "tag")
          @@ (text :> "blob") @@ (binary :> "blob") @@ (dir :> "tree")
MCTagged == t1 :> c1
MCParents == (c1 :> <<>>) @@ (c2 :> <<c1>>) @@ (c3 :> <<c1>>)
             @@ (merge :> <<c1, c2, c3>>) @@ (sub :> <<>>)
MCEntry ==
    [c \in {c1, c3, merge} |-> [p \in MCPath |-> IF p = BinaryPath THEN binary ELSE None]]
    @@ (sub :> [p \in MCPath |-> None])
    @@ (c2 :> ((TextPath :> text) @@ (BinaryPath :> binary) @@ (DirPath :> dir)
               @@ (SubPath :> sub)))
MCReach ==
    LET old == {c1, binary}
        new == old \cup {c2, text, dir}
    IN  [o \in MCObject |-> CASE o = c1 -> old
                              [] o = c2 -> new
                              [] o = merge -> new \cup {c3, merge}
                              [] o = t1 -> old \cup {t1}
                              [] OTHER  -> {o}]
MCTarget == (master :> {c1, c2}) @@ (topic :> {c1, merge}) @@ (v1 :> {t1})
MCStarts ==
    {(master :> c2) @@ (topic :> c1) @@ (v1 :> t1),
     (master :> c1) @@ (topic :> None) @@ (v1 :> None),
     (master :> None) @@ (topic :> None) @@ (v1 :> None)}
MCTtl == [c \in TtlClass |-> CASE c = "static" -> "never"
                               [] c = "snapshot" -> "zero"
                               [] OTHER -> "minutes"]

-----------------------------------------------------------------------------
(* The queries *)

Site(page) == [page |-> page, repo |-> FALSE, head |-> None, id |-> None,
               id2 |-> None, path |-> None, statonly |-> FALSE]
About(page) == [Site(page) EXCEPT !.repo = TRUE]
Of(page, id) == [About(page) EXCEPT !.id = id]
Between(page, id, id2) == [Of(page, id) EXCEPT !.id2 = id2]
At(page, path) == [About(page) EXCEPT !.path = path]

SiteQueries == {Site(p) : p \in {"", "login", "ls_cache", "about", "log"}}
RepoQueries ==
    {About(p) : p \in {"", "about", "log", "refs", "search", "atom", "stats",
                       "info", "unknown"}} \cup {At("about", BinaryPath)}
CommitQueries ==
    {About("commit"), [About("commit") EXCEPT !.head = topic], Of("commit", master),
     Of("commit", c2), Of("commit", merge), Of("commit", v1), Between("patch", c2, None),
     Of("log", c2), Of("log", merge), Of("atom", c2),
     About("diff"), [Of("diff", c2) EXCEPT !.statonly = TRUE],
     Between("diff", master, topic), Of("rawdiff", c2), Of("tag", v1),
     Between("compare", c1, c2), Between("compare", topic, master)}
PathQueries ==
    {At("tree", TextPath), At("tree", SubPath), At("tree", None),
     At("plain", TextPath), At("plain", DirPath), At("blame", TextPath),
     At("blame", BinaryPath), At("blob", TextPath), Of("blob", text),
     [Of("tree", c2) EXCEPT !.path = TextPath], [Of("blame", c2) EXCEPT !.path = TextPath],
     At("snapshot", TextPath), [Of("snapshot", c2) EXCEPT !.path = TextPath]}

MCQueries == SiteQueries \cup RepoQueries \cup CommitQueries \cup PathQueries

\* A page that is named by a ref
NamedQueries == {Of("commit", master)}
=============================================================================
