------------------------------ MODULE Filters ------------------------------
(***************************************************************************)
(* A page written through filters (filter.c, filter-exec.c, filter-lua.c). *)
(* Between cgit_open_filter and cgit_close_filter the text of the page     *)
(* goes to the filter: to a process of its own through a pipe that has     *)
(* taken the place of stdout, or to a Lua script in the place of write().  *)
(* The filter writes to the page itself, at its own pace.                  *)
(*                                                                         *)
(* A page is a sequence of segments, each with its filter and the number   *)
(* of texts that the code writes while it is open.                         *)
(***************************************************************************)
EXTENDS NoValue, Integers, Sequences

CONSTANTS
    FilteredPages,  \* the pages, sequences of segments
    PipeSize        \* texts that a pipe holds

Segment == [prefix : {None, "", "c", "exec", "lua"}, texts : Nat]

ASSUME FilterNoneAssumption == None \notin {"", "c", "exec", "lua", "page", "pipe"} \cup Nat
ASSUME FilteredPagesAssumption == FilteredPages \subseteq Seq(Segment)
ASSUME PipeSizeAssumption == PipeSize \in Nat \ {0}

VARIABLES
    segments,
    filter_pc,      \* "open", "write", "close", "wait", "done", "dead"
    segment,        \* the number of the current one
    written,        \* its texts that have been written
    fds,            \* cgit's descriptors: stdout, old_stdout, pipe_fh[0] and [1]
    current_write_filter,   \* the Lua filter's, or None
    pipe,           \* what the filter process has not read yet
    child,          \* the filter process: "none", "running", "exited", "killed"
    child_fds,      \* its descriptors of the pipe: stdin, and its copy of pipe_fh[1]
    collects,       \* the filter writes nothing before it has read everything
    held,           \* what it has read by then
    failed,         \* the segments whose filter has ended early
    page            \* what is in the page: texts and by what they were filtered

filtervars == <<segments, filter_pc, segment, written, fds, current_write_filter, pipe,
                child, child_fds, collects, held, failed, page>>

NoFds == [stdout |-> "page", old_stdout |-> None, read |-> None, write |-> None]
Forked == [stdin |-> None, write |-> "pipe"]
Started == [stdin |-> "pipe", write |-> None]

\* cgit_new_filter: no prefix and a drive letter mean exec; with another prefix
\* cgit ends while it reads its configuration
NewFilter(prefix) ==
    IF prefix = None THEN None ELSE IF prefix = "lua" THEN "lua" ELSE "exec"

Filter == NewFilter(segments[segment].prefix)

FilterInit ==
    /\ segments \in FilteredPages
    /\ filter_pc = "open" /\ segment = 1 /\ written = 0
    /\ fds = NoFds /\ current_write_filter = None
    /\ pipe = <<>> /\ child = "none" /\ child_fds = [Forked EXCEPT !.write = None]
    /\ collects \in BOOLEAN /\ held = <<>>
    /\ failed = {} /\ page = <<>>

-----------------------------------------------------------------------------
(* cgit *)

OpenNone ==
    /\ filter_pc = "open" /\ segment <= Len(segments) /\ Filter = None
    /\ filter_pc' = "write"
    /\ UNCHANGED <<segments, segment, written, fds, current_write_filter, pipe, child,
                   child_fds, collects, held, failed, page>>

\* open_exec_filter; the new process has the page as its stdout, and both ends of the
\* pipe
OpenExec ==
    /\ filter_pc = "open" /\ segment <= Len(segments) /\ Filter = "exec"
    /\ fds' = [stdout |-> "pipe", old_stdout |-> fds.stdout, read |-> None,
               write |-> None]
    /\ child' = "running" /\ child_fds' = Forked /\ pipe' = <<>> /\ held' = <<>>
    /\ collects' \in BOOLEAN
    /\ filter_pc' = "write"
    /\ UNCHANGED <<segments, segment, written, current_write_filter, failed, page>>

\* open_lua_filter: hook_write asserts that no filter is open
OpenLua ==
    /\ filter_pc = "open" /\ segment <= Len(segments) /\ Filter = "lua"
    /\ IF current_write_filter = None
       THEN current_write_filter' = segment /\ filter_pc' = "write"
       ELSE filter_pc' = "dead" /\ UNCHANGED current_write_filter
    /\ held' = <<>>
    /\ collects' \in BOOLEAN
    /\ UNCHANGED <<segments, segment, written, fds, pipe, child, child_fds, failed,
                   page>>

Text == [seg |-> segment, n |-> written + 1, by |-> None]

\* write of libc: a pipe that is full has to wait, one that nobody reads ends cgit
WriteOut ==
    \/ /\ fds.stdout = "page"
       /\ page' = Append(page, Text)
       /\ UNCHANGED <<pipe, filter_pc>>
    \/ /\ fds.stdout = "pipe" /\ child = "running" /\ Len(pipe) < PipeSize
       /\ pipe' = Append(pipe, Text)
       /\ UNCHANGED <<page, filter_pc>>
    \/ /\ fds.stdout = "pipe" /\ child # "running"
       /\ filter_pc' = "dead"
       /\ UNCHANGED <<page, pipe>>

\* write: html() called by the script itself finds the hook taken out
Write ==
    /\ filter_pc = "write" /\ written < segments[segment].texts
    /\ written' = written + 1
    /\ IF current_write_filter = None THEN WriteOut /\ UNCHANGED held
       ELSE LET out == [Text EXCEPT !.by = "lua"] IN
            /\ held' = IF collects THEN Append(held, out) ELSE held
            /\ page' = IF collects THEN page ELSE Append(page, out)
            /\ UNCHANGED <<pipe, filter_pc>>
    /\ UNCHANGED <<segments, segment, fds, current_write_filter, child, child_fds,
                   collects, failed>>

\* error_lua_filter
LuaFails ==
    /\ filter_pc = "write" /\ current_write_filter # None
    /\ filter_pc' = "dead"
    /\ UNCHANGED <<segments, segment, written, fds, current_write_filter, pipe, child,
                   child_fds, collects, held, failed, page>>

NextSegment == filter_pc' = "open" /\ segment' = segment + 1 /\ written' = 0

Written == filter_pc = "write" /\ written = segments[segment].texts

CloseNone ==
    /\ Written /\ Filter = None
    /\ NextSegment
    /\ UNCHANGED <<segments, fds, current_write_filter, pipe, child, child_fds,
                   collects, held, failed, page>>

\* close_lua_filter: filter_close may still write, then write is libc's again
CloseLua ==
    /\ Written /\ Filter = "lua"
    /\ page' = page \o held
    /\ held' = <<>>
    /\ current_write_filter' = None
    /\ NextSegment
    /\ UNCHANGED <<segments, fds, pipe, child, child_fds, collects, failed>>

\* close_exec_filter: the end of the pipe is the end of the filter's input ...
CloseExec ==
    /\ Written /\ Filter = "exec"
    /\ fds' = [fds EXCEPT !.stdout = fds.old_stdout, !.old_stdout = None]
    /\ filter_pc' = "wait"
    /\ UNCHANGED <<segments, segment, written, current_write_filter, pipe, child,
                   child_fds, collects, held, failed, page>>

\* Mutant of Wait: the filter is left to itself
WaitNot ==
    /\ filter_pc = "wait"
    /\ NextSegment
    /\ UNCHANGED <<segments, fds, current_write_filter, pipe, child, child_fds,
                   collects, held, failed, page>>

\* ... whose exit status the pages do not look at, unless there is none
Wait ==
    /\ filter_pc = "wait" /\ child # "running"
    /\ IF child = "exited" THEN NextSegment
       ELSE filter_pc' = "dead" /\ UNCHANGED <<segment, written>>
    /\ UNCHANGED <<segments, fds, current_write_filter, pipe, child, child_fds,
                   collects, held, failed, page>>

Done ==
    /\ filter_pc = "open" /\ segment > Len(segments)
    /\ filter_pc' = "done"
    /\ UNCHANGED <<segments, segment, written, fds, current_write_filter, pipe, child,
                   child_fds, collects, held, failed, page>>

-----------------------------------------------------------------------------
(* The filter process *)

\* Mutant of StartFilter: the process keeps its copy of the end that is written to
StartFilterKeepsPipe ==
    /\ child = "running" /\ child_fds.stdin = None
    /\ child_fds' = [child_fds EXCEPT !.stdin = "pipe"]
    /\ UNCHANGED <<segments, filter_pc, segment, written, fds, current_write_filter,
                   pipe, child, collects, held, failed, page>>

\* The new process from its fork to execvp, while cgit goes on
StartFilter ==
    /\ child = "running" /\ child_fds.stdin = None
    /\ child_fds' = Started
    /\ UNCHANGED <<segments, filter_pc, segment, written, fds, current_write_filter,
                   pipe, child, collects, held, failed, page>>

FilterReads ==
    /\ child = "running" /\ child_fds.stdin = "pipe" /\ pipe # <<>>
    /\ LET out == [Head(pipe) EXCEPT !.by = "exec"] IN
       /\ held' = IF collects THEN Append(held, out) ELSE held
       /\ page' = IF collects THEN page ELSE Append(page, out)
    /\ pipe' = Tail(pipe)
    /\ UNCHANGED <<segments, filter_pc, segment, written, fds, current_write_filter,
                   child, child_fds, collects, failed>>

\* With some descriptor, cgit's or the filter's own, the pipe can still be written to
PipeOpen ==
    \/ filter_pc # "dead" /\ \E d \in DOMAIN fds : fds[d] = "pipe"
    \/ child = "running" /\ child_fds.write = "pipe"

FilterEnds ==
    /\ child = "running" /\ pipe = <<>> /\ ~PipeOpen
    /\ page' = page \o held
    /\ held' = <<>>
    /\ child' = "exited"
    /\ UNCHANGED <<segments, filter_pc, segment, written, fds, current_write_filter, pipe,
                   child_fds, collects, failed>>

\* It cannot be started, has read enough, or is killed
FilterFails ==
    /\ child = "running"
    /\ child' \in {"exited", "killed"}
    /\ failed' = failed \cup {segment}
    /\ UNCHANGED <<segments, filter_pc, segment, written, fds, current_write_filter, pipe,
                   child_fds, collects, held, page>>

FilterNext ==
    \/ OpenNone \/ OpenExec \/ OpenLua \/ Write \/ LuaFails
    \/ CloseNone \/ CloseLua \/ CloseExec \/ Wait \/ Done
    \/ StartFilter \/ FilterReads \/ FilterEnds \/ FilterFails

FilterSpec == FilterInit /\ [][FilterNext]_filtervars

-----------------------------------------------------------------------------
(* Properties *)

Before(a, b) == a.seg < b.seg \/ (a.seg = b.seg /\ a.n < b.n)

\* Whatever the pace of the filters, the page holds every text once, in the order
\* in which it was written, and through its own filter and no other; only of the
\* input of a filter that has failed may something be missing.
FilteredInPlace ==
    /\ \A i, j \in DOMAIN page : i < j => Before(page[i], page[j])
    /\ \A i \in DOMAIN page : page[i].by = NewFilter(segments[page[i].seg].prefix)
    /\ filter_pc = "done" =>
        \A s \in DOMAIN segments \ failed : \A n \in 1 .. segments[s].texts :
            \E i \in DOMAIN page : page[i].seg = s /\ page[i].n = n

\* While cgit waits for a filter, the filter can come to the end of its input: no
\* descriptor that cgit or the filter itself keeps holds the pipe open.
WaitedFilterCanEnd ==
    filter_pc = "wait" /\ child = "running" /\ child_fds.stdin = "pipe" => ~PipeOpen
=============================================================================
