------------------------------ MODULE MCViews ------------------------------
(***************************************************************************)
(* What is put together step by step: the rows of a diff, the pages of a   *)
(* log, a page written through filters, the secret of the authentication   *)
(* filters.  An initial state begins one of them, and the variables of the *)
(* others keep one value.  MCSite adds what is not done in steps and has   *)
(* the configuration of the run.                                           *)
(***************************************************************************)
EXTENDS SSDiff, Log, Filters, AuthSecret

VARIABLE topic

\* No process of the authentication filter is told from another
Symmetry == Permutations(Procs)

-----------------------------------------------------------------------------
(* Edit scripts of up to five lines; git shows the deleted lines of a change first *)

Scripts(n) == UNION {[1 .. k -> {"=", "-", "+"}] : k \in 0 .. n}
Normal(s) == \A i \in 1 .. Len(s) - 1 : ~(s[i] = "+" /\ s[i + 1] = "-")
PairOf(k, s, in) == [kind |-> k, script |-> s, inside |-> in]

Small ==
    {PairOf("text", s, in) : s \in {t \in Scripts(2) : Normal(t)} \ {<<>>}, in \in BOOLEAN}
    \cup {PairOf(k, <<"-", "+">>, TRUE) : k \in {"binary", "unmerged", "gitlink"}}
    \cup {PairOf("gitlink", s, TRUE) : s \in {<<"-">>, <<"+">>}}

SmallDiffs ==
    {<<PairOf("text", s, TRUE)>> : s \in {t \in Scripts(5) : Normal(t)}}
        \cup {<<p, q>> : p \in Small, q \in Small}

(* Histories of up to three commits, and of four that a log about a file shows *)

Found(kinds) == [kind : kinds, match : {TRUE}]
NotFound(kinds) == [kind : kinds, match : {FALSE}]

ShortHistories ==
    UNION {[1 .. n -> Found({"modify", "rename", "other", "merge"})
                          \cup NotFound({"modify", "rename"})] : n \in 1 .. 3}
    \cup [1 .. 4 -> Found({"modify", "rename", "other"}) \cup NotFound({"rename"})]

(* Pages of up to three segments, each with one of the filters or none *)

Segments ==
    {[prefix |-> p, texts |-> 2] : p \in {None, "exec", "lua"}}
        \cup {[prefix |-> "", texts |-> 1], [prefix |-> "c", texts |-> 3]}
ShortPages == UNION {[1 .. n -> Segments] : n \in 1 .. 3}

FewContexts == {0, 1}
FewOffsets == {-1, 0, 1}

-----------------------------------------------------------------------------

NoDiff ==
    /\ pairs = None /\ context = None /\ difftype = None /\ comma = None /\ diff_pc = None
    /\ at = None /\ todo = None /\ current_old_line = None /\ current_new_line = None
    /\ deferred_old = None /\ deferred_new = None /\ items = None /\ rows = <<>>

NoLog ==
    /\ history = None /\ qry = None /\ log_pc = None /\ vpath = None /\ pathspec = None
    /\ left = None /\ count = None /\ counted = None /\ lines_counted = None
    /\ shown = <<>> /\ links = None /\ seen = None /\ strayed = None

NoFilters ==
    /\ segments = None /\ filter_pc = None /\ segment = None /\ written = None /\ fds = None
    /\ current_write_filter = None /\ pipe = None /\ child = None /\ child_fds = None
    /\ collects = None /\ held = None /\ failed = None /\ page = <<>>

NoAuth == AuthInit

InitView ==
    \/ topic = "diff" /\ DiffInit /\ NoLog /\ NoFilters /\ NoAuth
    \/ topic = "log" /\ LogInit /\ NoDiff /\ NoFilters /\ NoAuth
    \/ topic = "filters" /\ FilterInit /\ NoDiff /\ NoLog /\ NoAuth
    \/ topic = "secret" /\ AuthInit /\ NoDiff /\ NoLog /\ NoFilters

\* One step of it; the actions are listed one by one so that each is counted
OnlyDiff == topic = "diff" /\ UNCHANGED <<topic, logvars, filtervars, authvars>>
OnlyLog == topic = "log" /\ UNCHANGED <<topic, diffvars, filtervars, authvars>>
OnlyFilters == topic = "filters" /\ UNCHANGED <<topic, diffvars, logvars, authvars>>
OnlySecret == topic = "secret" /\ UNCHANGED <<topic, diffvars, logvars, filtervars>>

NextView ==
    \/ OnlyDiff /\ Inspect
    \/ OnlyDiff /\ StatDone
    \/ OnlyDiff /\ BeginPair
    \/ OnlyDiff /\ UnifiedLine
    \/ OnlyDiff /\ SsHunk
    \/ OnlyDiff /\ SsContext
    \/ OnlyDiff /\ SsDeleted
    \/ OnlyDiff /\ SsAdded
    \/ OnlyDiff /\ EndPair
    \/ OnlyDiff /\ Finish
    \/ OnlyLog /\ Skip
    \/ OnlyLog /\ SkipDone
    \/ OnlyLog /\ Show
    \/ OnlyLog /\ EndPage
    \/ OnlyLog /\ GoNext
    \/ OnlyLog /\ GoElsewhere
    \/ OnlyFilters /\ OpenNone
    \/ OnlyFilters /\ OpenExec
    \/ OnlyFilters /\ OpenLua
    \/ OnlyFilters /\ Write
    \/ OnlyFilters /\ LuaFails
    \/ OnlyFilters /\ CloseNone
    \/ OnlyFilters /\ CloseLua
    \/ OnlyFilters /\ CloseExec
    \/ OnlyFilters /\ Wait
    \/ OnlyFilters /\ Done
    \/ OnlyFilters /\ StartFilter
    \/ OnlyFilters /\ FilterReads
    \/ OnlyFilters /\ FilterEnds
    \/ OnlyFilters /\ FilterFails
    \/ OnlySecret /\ \E p \in Procs : Begin(p)
    \/ OnlySecret /\ \E p \in Procs : InMemory(p)
    \/ OnlySecret /\ \E p \in Procs : Open(p)
    \/ OnlySecret /\ \E p \in Procs : WriteSecret(p)
    \/ OnlySecret /\ \E p \in Procs : Link(p)
    \/ OnlySecret /\ \E p \in Procs : Unlink(p)
    \/ OnlySecret /\ \E p \in Procs : Reopen(p)
    \/ OnlySecret /\ \E p \in Procs : Read(p)
    \/ OnlySecret /\ \E p \in Procs : Exit(p)
    \/ OnlySecret /\ \E p \in Procs : Accepts(p)
    \/ OnlySecret /\ \E p \in Procs : Refuses(p)
    \/ OnlySecret /\ \E p \in Procs : Sign(p)
    \/ OnlySecret /\ \E p \in Procs : Crash(p)
=============================================================================
