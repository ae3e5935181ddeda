------------------------------ MODULE Snapshot ------------------------------
(***************************************************************************)
(* The links to snapshots and what they are answered with                  *)
(* (ui-shared-snapshot.c, ui-snapshot.c).  A file name is made of the      *)
(* repository's name and a ref, shortened if it is a version, and the next *)
(* request has to find the ref by the name alone.                          *)
(*                                                                         *)
(* A name is a sequence of tokens: "-", "_", "v", "V", the tokens of       *)
(* Digits, which begin with a digit, and others.                           *)
(***************************************************************************)
EXTENDS Integers, Sequences, FiniteSets, SequencesExt, NoValue

CONSTANT Digits

\* cgit_snapshot_formats, in order
Formats == <<"tar", "tar.gz", "zip">>

\* prefix: cgit_snapshot_prefix.  tags, heads: from names to objects; full, described,
\* short: from what git takes for the id of an object, as a whole, at the end of what git
\* describe says, or abbreviated, to the object.  commits: the objects that lead to a
\* commit.  snapshots: the formats that are on.  sigs: the signed archives,
\* <<format, object>>.
Repo(prefix, tags, heads, ids, commits, snapshots, sigs) ==
    [prefix |-> prefix, tags |-> tags, heads |-> heads, full |-> ids.full,
     described |-> ids.described, short |-> ids.short, commits |-> commits,
     snapshots |-> snapshots, sigs |-> sigs]

\* repo_get_oid: a whole id goes before a ref, a tag before a branch, and a ref before
\* the other ids
GetOid(repo, name) ==
    IF name \in DOMAIN repo.full THEN repo.full[name]
    ELSE IF name \in DOMAIN repo.tags THEN repo.tags[name]
    ELSE IF name \in DOMAIN repo.heads THEN repo.heads[name]
    ELSE IF name \in DOMAIN repo.described THEN repo.described[name]
    ELSE IF name \in DOMAIN repo.short THEN repo.short[name] ELSE None

\* Mutant of ComposePrefix: the "v" goes whatever the other tags are
ComposePrefixAlways(repo, ref) ==
    LET strips == ref \in DOMAIN repo.tags /\ Len(ref) > 1 /\ ref[1] \in {"v", "V"}
                      /\ ref[2] \in Digits
    IN  repo.prefix \o <<"-">> \o IF strips THEN Tail(ref) ELSE ref

\* cgit_compose_snapshot_prefix.  With refs/tags/ before it a name is no id, but it still
\* is what git describe says.
ComposePrefix(repo, ref) ==
    LET isTag(name) == name \in DOMAIN repo.tags \/ name \in DOMAIN repo.described
        strips == /\ isTag(ref) /\ Len(ref) > 1 /\ ref[1] \in {"v", "V"} /\ ref[2] \in Digits
                  /\ Cardinality({name \in {Tail(ref), <<"v">> \o Tail(ref), <<"V">> \o Tail(ref)} :
                                     isTag(name)}) = 1
    IN  repo.prefix \o <<"-">> \o IF strips THEN Tail(ref) ELSE ref

\* cgit_snapshot_get_sig
HasSig(repo, ref, format) == <<format, GetOid(repo, ref)>> \in repo.sigs

\* cgit_print_snapshot_links: the archives, each with the signature of its own or of
\* the tar in it
Links(repo, ref) ==
    LET name == IF IsPrefix(repo.prefix, ref) THEN ref ELSE ComposePrefix(repo, ref)
        file(f, sig) == [name |-> name, format |-> f, asc |-> sig]
        sigOf(f) == IF HasSig(repo, ref, f) THEN {file(f, TRUE)}
                    ELSE IF f # "zip" /\ HasSig(repo, ref, "tar") THEN {file("tar", TRUE)}
                    ELSE {}
    IN  UNION {{file(f, FALSE)} \cup sigOf(f) : f \in repo.snapshots}

-----------------------------------------------------------------------------
(* cgit_print_snapshot *)

\* What is left after the separators
StripSeparators(name) ==
    LET first == SelectInSeq(name, LAMBDA token : token \notin {"-", "_"})
    IN  IF first = 0 THEN <<>> ELSE SubSeq(name, first, Len(name))

\* get_ref_from_filename
RefFromFilename(repo, name) ==
    LET rest == IF IsPrefix(repo.prefix, name)
                THEN StripSeparators(SubSeq(name, Len(repo.prefix) + 1, Len(name))) ELSE name
        names == <<name, rest, <<"v">> \o rest, <<"V">> \o rest>>
        found == {i \in 1 .. 4 : GetOid(repo, names[i]) # None}
    IN  IF found = {} THEN None ELSE names[CHOOSE i \in found : \A j \in found : i <= j]

Error(status) == [status |-> status, commit |-> None, dir |-> None]

\* make_snapshot and write_sig, for a revision
MakeSnapshot(repo, hex, dir) ==
    IF GetOid(repo, hex) = None THEN Error(404)
    ELSE IF GetOid(repo, hex) \notin repo.commits THEN Error(400)
    ELSE [status |-> 200, commit |-> GetOid(repo, hex), dir |-> dir]

WriteSig(repo, hex, format) ==
    IF ~HasSig(repo, hex, format) THEN Error(404)
    ELSE [status |-> 200, commit |-> GetOid(repo, hex), dir |-> None]

\* head: the branch of the request, oid: its "id", dwim: it had no "h"
PrintSnapshot(repo, head, oid, file, dwim) ==
    LET guessed == oid = None /\ dwim
        hex == IF guessed THEN RefFromFilename(repo, file.name)
               ELSE IF oid # None THEN oid ELSE head
        dir == IF guessed THEN file.name ELSE repo.prefix
    IN  IF ~file.asc /\ file.format \notin repo.snapshots THEN Error(400)
        ELSE IF hex = None THEN Error(404)
        ELSE IF file.asc THEN WriteSig(repo, hex, file.format)
        ELSE MakeSnapshot(repo, hex, dir)

-----------------------------------------------------------------------------

\* The refs whose file name stands for something else: a ref or an id of the whole name;
\* a branch that is called like a tag without its letter or with the other one, or an
\* object whose id begins like that, as only tags are looked at when the letter goes; and
\* what is left when a ref begins like a separator
Taken(repo, ref) ==
    LET name == ComposePrefix(repo, ref)
        rest == SubSeq(name, Len(repo.prefix) + 2, Len(name))
    IN  /\ ~IsPrefix(repo.prefix, ref)
        /\ \/ GetOid(repo, name) # None
           \/ /\ rest # ref
              /\ \E other \in {rest, <<"v">> \o rest} \ {ref} :
                     other \in DOMAIN repo.heads \cup DOMAIN repo.full \cup DOMAIN repo.short
           \/ Head(rest) \in {"-", "_"}

(***************************************************************************)
(* A link to a snapshot of a revision is answered with an archive of that  *)
(* very commit or its signature, though the file's name is shorter than    *)
(* the tag's.  The archive of a tag that leads to no commit is refused.    *)
(***************************************************************************)
FileFindsCommit(repo, head, ref) ==
    (GetOid(repo, ref) # None /\ ~Taken(repo, ref)) =>
        \A file \in Links(repo, ref) :
            LET answer == PrintSnapshot(repo, head, None, file, TRUE)
            IN  IF file.asc \/ GetOid(repo, ref) \in repo.commits
                THEN /\ answer.status = 200
                     /\ answer.commit = GetOid(repo, ref)
                     /\ answer.dir \in {None, file.name}
                ELSE answer.status = 400
=============================================================================
