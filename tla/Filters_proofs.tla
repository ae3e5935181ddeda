--------------------------- MODULE Filters_proofs ---------------------------
(***************************************************************************)
(* Proofs about the filters, for all pages and every size of the pipe:     *)
(* nothing is lost, doubled or moved, and cgit never waits for a filter    *)
(* that waits for cgit.                                                    *)
(***************************************************************************)
EXTENDS Filters, SequenceTheorems, TLAPS

Texts == [seg : Nat, n : Nat, by : {None, "exec", "lua"}]

\* The texts of the segment that cgit has written and the page does not hold yet:
\* they are in the pipe, or the filter keeps them until it has read everything
Waiting ==
    IF child = "running" THEN Len(held) + Len(pipe)
    ELSE IF current_write_filter # None THEN Len(held) ELSE 0

Through == written - Waiting

Typed ==
    /\ segments \in Seq(Segment)
    /\ filter_pc \in {"open", "write", "close", "wait", "done", "dead"}
    /\ segment \in 1 .. Len(segments) + 1
    /\ written \in Nat /\ Through \in Nat
    /\ pipe \in Seq(Texts) /\ held \in Seq(Texts) /\ page \in Seq(Texts)
    /\ child \in {"none", "running", "exited", "killed"}
    /\ current_write_filter \in Nat \cup {None}
    /\ collects \in BOOLEAN

Redirected == [stdout |-> "pipe", old_stdout |-> "page", read |-> None, write |-> None]

\* Which filter there is, and where stdout goes, at each place of the code
Places ==
    /\ filter_pc \in {"write", "wait"} => segment \in DOMAIN segments
    /\ filter_pc = "open" => written = 0
    /\ filter_pc = "wait" => written = segments[segment].texts /\ Filter = "exec"
    /\ filter_pc = "done" => segment > Len(segments)
    /\ child = "running" => filter_pc \in {"write", "wait"} /\ Filter = "exec"
    /\ child = "running" => child_fds \in {Forked, Started}
    /\ filter_pc = "write" /\ Filter = "exec" /\ segment \notin failed => child = "running"
    /\ current_write_filter # None => filter_pc \in {"write", "dead"} /\ Filter = "lua"
    /\ filter_pc = "write" /\ Filter = "lua" => current_write_filter # None
    /\ filter_pc # "dead" =>
          fds = IF filter_pc = "write" /\ Filter = "exec" THEN Redirected ELSE NoFds

\* What is under way continues what the page holds, without a gap
Underway ==
    /\ child = "running" =>
          \A i \in DOMAIN pipe :
              pipe[i] = [seg |-> segment, n |-> written - Len(pipe) + i, by |-> None]
    /\ child = "running" \/ current_write_filter # None =>
          /\ \A i \in DOMAIN held :
                held[i] = [seg |-> segment, n |-> Through + i, by |-> Filter]
          /\ ~collects => held = <<>>

Sorted(pg) == \A i, j \in DOMAIN pg : i < j => Before(pg[i], pg[j])

\* Nothing in pg comes after the mth text of segment s
UpTo(pg, s, m) ==
    \A i \in DOMAIN pg : pg[i].seg < s \/ (pg[i].seg = s /\ pg[i].n <= m)

\* The first m texts of segment s are in pg
Holds(pg, s, m) == \A n \in 1 .. m : \E i \in DOMAIN pg : pg[i].seg = s /\ pg[i].n = n

OwnFilters(pg) ==
    \A i \in DOMAIN pg : pg[i].by = NewFilter(segments[pg[i].seg].prefix)

Complete ==
    /\ \A s \in 1 .. segment - 1 : s \notin failed => Holds(page, s, segments[s].texts)
    /\ segment \notin failed => Holds(page, segment, Through)

PageInv ==
    /\ Sorted(page)
    /\ UpTo(page, segment, Through)
    /\ OwnFilters(page)
    /\ Complete

FilterInv == Typed /\ Places /\ Underway /\ PageInv

-----------------------------------------------------------------------------
(* The page *)

\* Texts that continue pg keep it sorted, and pg holds them too.
LEMMA Continues ==
    ASSUME NEW pg \in Seq(Texts), NEW h \in Seq(Texts), NEW s \in Nat, NEW m \in Nat,
           Sorted(pg), UpTo(pg, s, m),
           \A i \in DOMAIN h : h[i].seg = s /\ h[i].n = m + i
    PROVE  /\ pg \o h \in Seq(Texts)
           /\ Sorted(pg \o h)
           /\ UpTo(pg \o h, s, m + Len(h))
           /\ Holds(pg, s, m) => Holds(pg \o h, s, m + Len(h))
           /\ \A t \in Nat, k \in Nat : Holds(pg, t, k) => Holds(pg \o h, t, k)
           /\ OwnFilters(pg) /\ OwnFilters(h) => OwnFilters(pg \o h)
<1> DEFINE new == pg \o h
<1>1. /\ new \in Seq(Texts) /\ Len(new) = Len(pg) + Len(h)
      /\ Len(pg) \in Nat /\ Len(h) \in Nat
      /\ DOMAIN pg = 1 .. Len(pg) /\ DOMAIN h = 1 .. Len(h) /\ DOMAIN new = 1 .. Len(new)
  OBVIOUS
<1>2. \A i \in 1 .. Len(pg) : new[i] = pg[i] /\ pg[i] \in Texts
  OBVIOUS
<1>3. ASSUME NEW i \in DOMAIN new, i > Len(pg)
      PROVE  /\ i - Len(pg) \in DOMAIN h /\ new[i] = h[i - Len(pg)]
             /\ new[i].seg = s /\ new[i].n = m + (i - Len(pg))
  BY <1>3, <1>1
<1>4. \A i \in DOMAIN new : i \in 1 .. Len(pg) \/ i > Len(pg)
  BY <1>1
<1>5. \A i \in 1 .. Len(pg) : pg[i].seg \in Nat /\ pg[i].n \in Nat
  BY <1>2 DEF Texts
<1> HIDE DEF new
<1>6. Sorted(new)
  <2> SUFFICES ASSUME NEW i \in DOMAIN new, NEW j \in DOMAIN new, i < j
               PROVE  Before(new[i], new[j])
    BY DEF Sorted
  <2>1. CASE j \in 1 .. Len(pg)
    <3>1. i \in 1 .. Len(pg)
      BY <1>1, <2>1
    <3> QED BY <1>1, <1>2, <2>1, <3>1 DEF Sorted
  <2>2. CASE i \in 1 .. Len(pg) /\ j > Len(pg)
    <3>1. pg[i].seg < s \/ (pg[i].seg = s /\ pg[i].n <= m)
      BY <1>1, <2>2 DEF UpTo
    <3>2. new[i] = pg[i] /\ new[j].seg = s /\ new[j].n = m + (j - Len(pg))
      BY <1>2, <1>3, <2>2
    <3>3. j \in Nat /\ m < m + (j - Len(pg))
      BY <1>1, <2>2
    <3> QED BY <1>1, <1>5, <2>2, <3>1, <3>2, <3>3 DEF Before
  <2>3. CASE i > Len(pg) /\ j > Len(pg)
    <3>1. /\ new[i].seg = s /\ new[i].n = m + (i - Len(pg))
          /\ new[j].seg = s /\ new[j].n = m + (j - Len(pg))
      BY <1>3, <2>3
    <3>2. i \in Nat /\ j \in Nat
      BY <1>1
    <3> QED BY <1>1, <3>1, <3>2 DEF Before
  <2> QED BY <1>1, <2>1, <2>2, <2>3
<1>7. UpTo(new, s, m + Len(h))
  <2> SUFFICES ASSUME NEW i \in DOMAIN new
               PROVE  new[i].seg < s \/ (new[i].seg = s /\ new[i].n <= m + Len(h))
    BY DEF UpTo
  <2>1. CASE i \in 1 .. Len(pg)
    <3>1. pg[i].seg < s \/ (pg[i].seg = s /\ pg[i].n <= m)
      BY <1>1, <2>1 DEF UpTo
    <3> QED BY <1>1, <1>2, <1>5, <2>1, <3>1
  <2>2. CASE i > Len(pg)
    <3>1. new[i].seg = s /\ new[i].n = m + (i - Len(pg)) /\ i \in 1 .. Len(pg) + Len(h)
      BY <1>1, <1>3, <2>2
    <3> QED BY <1>1, <3>1
  <2> QED BY <1>4, <2>1, <2>2
<1>8. ASSUME NEW t \in Nat, NEW k \in Nat, Holds(pg, t, k)
      PROVE  Holds(new, t, k)
  <2>1. \A i \in 1 .. Len(pg) : i \in DOMAIN new
    BY <1>1
  <2> QED BY <1>1, <1>2, <1>8, <2>1 DEF Holds
<1>9. ASSUME Holds(pg, s, m)
      PROVE  Holds(new, s, m + Len(h))
  <2> SUFFICES ASSUME NEW n \in 1 .. m + Len(h)
               PROVE  \E i \in DOMAIN new : new[i].seg = s /\ new[i].n = n
    BY DEF Holds
  <2>1. CASE n \in 1 .. m
    BY <1>8, <1>9, <2>1 DEF Holds
  <2>2. CASE n > m
    <3> DEFINE i == Len(pg) + (n - m)
    <3>1. i \in DOMAIN new /\ i > Len(pg) /\ m + (i - Len(pg)) = n
      BY <1>1, <2>2
    <3> QED BY <1>3, <3>1
  <2> QED BY <2>1, <2>2
<1>10. ASSUME OwnFilters(pg), OwnFilters(h)
       PROVE  OwnFilters(new)
  <2> SUFFICES ASSUME NEW i \in DOMAIN new
               PROVE  new[i].by = NewFilter(segments[new[i].seg].prefix)
    BY DEF OwnFilters
  <2>1. CASE i \in 1 .. Len(pg)
    BY <1>1, <1>2, <1>10, <2>1 DEF OwnFilters
  <2>2. CASE i > Len(pg)
    BY <1>3, <1>10, <2>2 DEF OwnFilters
  <2> QED BY <1>4, <2>1, <2>2
<1> QED BY <1>1, <1>6, <1>7, <1>8, <1>9, <1>10 DEF new

\* So does the next text alone.
LEMMA ContinuesByOne ==
    ASSUME NEW pg \in Seq(Texts), NEW x \in Texts, NEW s \in Nat, NEW m \in Nat,
           Sorted(pg), UpTo(pg, s, m), x.seg = s, x.n = m + 1
    PROVE  /\ Append(pg, x) \in Seq(Texts)
           /\ Sorted(Append(pg, x))
           /\ UpTo(Append(pg, x), s, m + 1)
           /\ Holds(pg, s, m) => Holds(Append(pg, x), s, m + 1)
           /\ \A t \in Nat, k \in Nat : Holds(pg, t, k) => Holds(Append(pg, x), t, k)
           /\ OwnFilters(pg) /\ x.by = NewFilter(segments[s].prefix) =>
                 OwnFilters(Append(pg, x))
<1> DEFINE h == <<x>>
<1>1. Append(pg, x) = pg \o h
  BY AppendIsConcat
<1>2. /\ h \in Seq(Texts) /\ Len(h) = 1
      /\ \A i \in DOMAIN h : h[i].seg = s /\ h[i].n = m + i
  OBVIOUS
<1>3. x.by = NewFilter(segments[s].prefix) => OwnFilters(h)
  BY DEF OwnFilters
<1> HIDE DEF h
<1> QED BY <1>1, <1>2, <1>3, Continues

-----------------------------------------------------------------------------
(* The steps *)

\* None is nothing else.
LEMMA NoneIs ==
    /\ None # "exec" /\ None # "lua" /\ None # "page" /\ None # "pipe"
    /\ \A n \in Nat : n # None
BY FilterNoneAssumption, Zenon

\* What the lemmas below need of numbers and lengths.
LEMMA Numbers ==
    ASSUME Typed
    PROVE  /\ Len(segments) \in Nat /\ segment \in Nat /\ DOMAIN segments = 1 .. Len(segments)
           /\ \A s \in DOMAIN segments : segments[s].texts \in Nat
           /\ Len(pipe) \in Nat /\ Len(held) \in Nat
           /\ DOMAIN pipe = 1 .. Len(pipe) /\ DOMAIN held = 1 .. Len(held)
<1>1. Len(segments) \in Nat /\ DOMAIN segments = 1 .. Len(segments)
  BY DEF Typed
<1>2. \A s \in DOMAIN segments : segments[s] \in Segment
  BY DEF Typed
<1>3. \A s \in DOMAIN segments : segments[s].texts \in Nat
  BY <1>2, Zenon DEF Segment
<1>4. /\ Len(pipe) \in Nat /\ Len(held) \in Nat /\ segment \in Nat
      /\ DOMAIN pipe = 1 .. Len(pipe) /\ DOMAIN held = 1 .. Len(held)
  BY <1>1 DEF Typed
<1> QED BY <1>1, <1>3, <1>4

\* A step that neither adds to the page nor goes on to another segment.
LEMMA QuietPage ==
    ASSUME PageInv, UNCHANGED <<segments, page, segment, failed>>, Through' = Through
    PROVE  PageInv'
BY DEF PageInv, Sorted, UpTo, OwnFilters, Complete, Holds

\* A filter lets a text through.
LEMMA GrownPage ==
    ASSUME Typed, PageInv, UNCHANGED <<segments, segment, failed>>,
           Through' = Through + 1, NEW x \in Texts, page' = Append(page, x),
           x.seg = segment, x.n = Through + 1, x.by = Filter
    PROVE  PageInv' /\ page' \in Seq(Texts)
<1>1. /\ page \in Seq(Texts) /\ segment \in Nat /\ Through \in Nat
      /\ Sorted(page) /\ UpTo(page, segment, Through)
  BY Numbers DEF Typed, PageInv
<1>2. /\ page' \in Seq(Texts)
      /\ Sorted(page')
      /\ UpTo(page', segment, Through + 1)
      /\ Holds(page, segment, Through) => Holds(page', segment, Through + 1)
      /\ \A t \in Nat, k \in Nat : Holds(page, t, k) => Holds(page', t, k)
      /\ OwnFilters(page) /\ x.by = NewFilter(segments[segment].prefix) => OwnFilters(page')
  BY <1>1, ContinuesByOne
<1>3. OwnFilters(page')
  BY <1>2 DEF PageInv, Filter
<1>4. \A s \in 1 .. segment - 1 : s \in Nat /\ segments[s].texts \in Nat
  BY Numbers DEF Typed
<1>5. /\ \A s \in 1 .. segment - 1 : s \notin failed => Holds(page', s, segments[s].texts)
      /\ segment \notin failed => Holds(page', segment, Through + 1)
  BY <1>2, <1>4 DEF PageInv, Complete
<1>6. Sorted(page)' /\ UpTo(page, segment, Through)'
  BY <1>2 DEF Sorted, UpTo
<1>7. OwnFilters(page)'
  BY <1>3 DEF OwnFilters
<1>8. Complete'
  BY <1>5 DEF Complete, Holds
<1> QED BY <1>2, <1>6, <1>7, <1>8 DEF PageInv

\* The next segment begins, after all of the last one is in the page or its filter
\* has failed.
LEMMA NextPage ==
    ASSUME Typed, segment \in DOMAIN segments, UNCHANGED <<segments, failed>>,
           segment' = segment + 1, Through' = 0, page' \in Seq(Texts),
           Sorted(page'), UpTo(page', segment, segments[segment].texts), OwnFilters(page'),
           \A s \in 1 .. segment - 1 : s \notin failed => Holds(page', s, segments[s].texts),
           segment \notin failed => Holds(page', segment, segments[segment].texts)
    PROVE  PageInv'
<1>1. segment \in Nat
  BY Numbers
<1>2. Sorted(page)' /\ OwnFilters(page)'
  BY DEF Sorted, OwnFilters
<1>3. UpTo(page, segment, Through)'
  <2> SUFFICES ASSUME NEW i \in DOMAIN page'
               PROVE  page'[i].seg < segment + 1
    BY DEF UpTo
  <2>1. page'[i] \in Texts
    OBVIOUS
  <2>2. page'[i].seg \in Nat
    BY <2>1 DEF Texts
  <2> QED BY <1>1, <2>2 DEF UpTo
<1>4. Complete'
  <2>1. \A s \in 1 .. segment : s \in 1 .. segment - 1 \/ s = segment
    BY <1>1
  <2>2. \A s \in 1 .. segment : s \notin failed => Holds(page', s, segments[s].texts)
    BY <2>1
  <2>3. Holds(page', segment + 1, 0)
    BY DEF Holds
  <2>4. (segment + 1) - 1 = segment
    BY <1>1
  <2> QED BY <2>2, <2>3, <2>4 DEF Complete, Holds
<1> QED BY <1>2, <1>3, <1>4 DEF PageInv

-----------------------------------------------------------------------------
(* cgit *)

LEMMA StepOpenNone ==
    ASSUME FilterInv, OpenNone
    PROVE  FilterInv'
<1> USE DEF FilterInv, OpenNone
<1>1. Through' = Through /\ Filter' = Filter
  BY DEF Through, Waiting, Filter
<1>2. Typed'
  BY <1>1 DEF Typed
<1>3. Places'
  BY <1>1, Numbers, NoneIs DEF Typed, Places, NoFds, Redirected
<1>4. Underway'
  BY <1>1 DEF Underway, Places
<1>5. PageInv'
  BY <1>1, QuietPage
<1> QED BY <1>2, <1>3, <1>4, <1>5

LEMMA StepOpenExec ==
    ASSUME FilterInv, OpenExec
    PROVE  FilterInv'
<1> USE DEF FilterInv, OpenExec
<1>1. Through = 0 /\ Through' = 0 /\ Filter' = Filter
  BY NoneIs DEF Through, Waiting, Filter, Places, Typed
<1>2. Typed'
  BY <1>1 DEF Typed
<1>3. Places'
  BY <1>1, Numbers, NoneIs DEF Typed, Places, NoFds, Redirected
<1>4. Underway'
  BY <1>1, NoneIs DEF Underway, Places
<1>5. PageInv'
  BY <1>1, QuietPage
<1> QED BY <1>2, <1>3, <1>4, <1>5

LEMMA StepOpenLua ==
    ASSUME FilterInv, OpenLua
    PROVE  FilterInv'
<1> USE DEF FilterInv, OpenLua
<1>1. /\ Through = 0 /\ Through' = 0 /\ Filter' = Filter
      /\ current_write_filter = None /\ current_write_filter' = segment /\ filter_pc' = "write"
  BY Numbers, NoneIs DEF Through, Waiting, Filter, Places, Typed
<1>2. Typed'
  BY <1>1, Numbers DEF Typed
<1>3. Places'
  BY <1>1, Numbers, NoneIs DEF Typed, Places, NoFds, Redirected
<1>4. Underway'
  BY <1>1, NoneIs DEF Underway, Places
<1>5. PageInv'
  BY <1>1, QuietPage
<1> QED BY <1>2, <1>3, <1>4, <1>5

LEMMA StepLuaFails ==
    ASSUME FilterInv, LuaFails
    PROVE  FilterInv'
<1> USE DEF FilterInv, LuaFails
<1>1. Through' = Through /\ Filter' = Filter
  BY DEF Through, Waiting, Filter
<1>2. Typed'
  BY <1>1 DEF Typed
<1>3. Places'
  BY <1>1, NoneIs DEF Typed, Places, NoFds, Redirected
<1>4. Underway'
  BY <1>1 DEF Underway
<1>5. PageInv'
  BY <1>1, QuietPage
<1> QED BY <1>2, <1>3, <1>4, <1>5

LEMMA StepDone ==
    ASSUME FilterInv, Done
    PROVE  FilterInv'
<1> USE DEF FilterInv, Done
<1>1. Through' = Through /\ Filter' = Filter
  BY DEF Through, Waiting, Filter
<1>2. Typed'
  BY <1>1 DEF Typed
<1>3. Places'
  BY <1>1, NoneIs DEF Typed, Places, NoFds, Redirected
<1>4. Underway'
  BY <1>1 DEF Underway
<1>5. PageInv'
  BY <1>1, QuietPage
<1> QED BY <1>2, <1>3, <1>4, <1>5

LEMMA StepCloseExec ==
    ASSUME FilterInv, CloseExec
    PROVE  FilterInv'
<1> USE DEF FilterInv, CloseExec, Written
<1>1. Through' = Through /\ Filter' = Filter
  BY DEF Through, Waiting, Filter
<1>2. Typed'
  BY <1>1 DEF Typed
<1>3. Places'
  <2>1. fds = Redirected
    BY DEF Places
  <2>2. fds' = NoFds
    BY <2>1 DEF NoFds, Redirected
  <2> QED BY <1>1, <2>2, NoneIs DEF Typed, Places
<1>4. Underway'
  BY <1>1 DEF Underway
<1>5. PageInv'
  BY <1>1, QuietPage
<1> QED BY <1>2, <1>3, <1>4, <1>5

LEMMA StepFilterFails ==
    ASSUME FilterInv, FilterFails
    PROVE  FilterInv'
<1> USE DEF FilterInv, FilterFails
<1>1. Filter' = Filter /\ current_write_filter = None
  BY NoneIs DEF Filter, Places
<1>2. Through' = written /\ Through <= written
  BY <1>1, Numbers DEF Through, Waiting, Typed
<1>3. Typed'
  BY <1>1, <1>2 DEF Typed
<1>4. Places'
  BY <1>1, NoneIs DEF Typed, Places, NoFds, Redirected
<1>5. Underway'
  BY <1>1 DEF Underway
<1>6. PageInv'
  <2>1. UpTo(page, segment, Through)'
    <3> SUFFICES ASSUME NEW i \in DOMAIN page
                 PROVE  page[i].seg < segment \/ (page[i].seg = segment /\ page[i].n <= written)
      BY <1>2 DEF UpTo
    <3>1. page[i] \in Texts
      BY DEF Typed
    <3>2. page[i].n \in Nat
      BY <3>1 DEF Texts
    <3> QED BY <1>2, <3>2 DEF PageInv, UpTo, Typed
  <2> QED BY <2>1 DEF PageInv, Sorted, OwnFilters, Complete, Holds
<1> QED BY <1>3, <1>4, <1>5, <1>6

\* The next text: into the page, the pipe, or the script.
LEMMA StepWrite ==
    ASSUME FilterInv, Write
    PROVE  FilterInv'
<1> USE DEF FilterInv, Write
<1>1. /\ segment \in DOMAIN segments /\ segment \in Nat /\ filter_pc = "write"
      /\ segments[segment].texts \in Nat /\ written \in Nat /\ written' = written + 1
      /\ Text \in Texts /\ Text.seg = segment /\ Text.n = written + 1 /\ Text.by = None
  BY Numbers DEF Typed, Places, Text, Texts
<1>2. Filter' = Filter
  BY DEF Filter
<1>3. CASE current_write_filter # None
  <2> DEFINE x == [Text EXCEPT !.by = "lua"]
  <2>1. /\ Filter = "lua" /\ child # "running" /\ filter_pc' = filter_pc /\ pipe' = pipe
        /\ Through = written - Len(held) /\ Through' = written + 1 - Len(held')
        /\ collects' = collects /\ child' = child
    BY <1>1, <1>3, NoneIs DEF Places, Through, Waiting
  <2>2. x \in Texts /\ x = [seg |-> segment, n |-> written + 1, by |-> Filter]
    BY <1>1, <2>1 DEF Text, Texts
  <2>3. CASE collects
    <3>1. held' = Append(held, x) /\ page' = page
      BY <1>3, <2>3
    <3>2. held' \in Seq(Texts) /\ Len(held') = Len(held) + 1 /\ Len(held) \in Nat
      BY <2>2, <3>1 DEF Typed
    <3>3. Through' = Through
      BY <1>1, <2>1, <3>2
    <3>4. Typed'
      BY <1>1, <2>1, <3>1, <3>2, <3>3 DEF Typed
    <3>5. Places'
      BY <1>1, <1>2, <1>3, <2>1, NoneIs DEF Places
    <3>6. ASSUME NEW i \in DOMAIN held'
          PROVE  held'[i] = [seg |-> segment, n |-> Through + i, by |-> Filter]
      <4>1. i \in 1 .. Len(held) \/ i = Len(held) + 1
        BY <3>2
      <4>2. CASE i \in 1 .. Len(held)
        BY <1>3, <3>1, <4>2 DEF Underway, Typed
      <4>3. CASE i = Len(held) + 1
        <5>1. held'[i] = x /\ Through + i = written + 1
          BY <1>1, <2>1, <3>1, <3>2, <4>3 DEF Typed
        <5> QED BY <2>2, <5>1
      <4> QED BY <4>1, <4>2, <4>3
    <3>7. Underway'
      BY <1>2, <2>1, <2>3, <3>3, <3>6 DEF Underway
    <3>8. PageInv'
      BY <3>1, <3>3, QuietPage
    <3> QED BY <3>4, <3>5, <3>7, <3>8
  <2>4. CASE ~collects
    <3>1. held' = held /\ page' = Append(page, x) /\ held = <<>>
      BY <1>3, <2>4 DEF Underway
    <3>2. Through = written /\ Through' = Through + 1
      BY <1>1, <2>1, <3>1
    <3>3. PageInv' /\ page' \in Seq(Texts)
      <4>1. x.seg = segment /\ x.n = Through + 1 /\ x.by = Filter
        BY <2>2, <3>2
      <4> HIDE DEF x
      <4> QED BY <2>2, <3>1, <3>2, <4>1, GrownPage
    <3>4. Typed'
      BY <1>1, <2>1, <3>1, <3>2, <3>3 DEF Typed
    <3>5. Places'
      BY <1>1, <1>2, <1>3, <2>1, NoneIs DEF Places
    <3>6. Underway'
      BY <1>2, <2>1, <3>1 DEF Underway
    <3> QED BY <3>3, <3>4, <3>5, <3>6
  <2> QED BY <2>3, <2>4 DEF Typed
<1>4. CASE current_write_filter = None /\ fds.stdout = "page"
  <2>1. page' = Append(page, Text) /\ filter_pc' = filter_pc /\ pipe' = pipe /\ held' = held
    BY <1>4 DEF WriteOut
  <2>2. Filter # "exec" /\ Filter # "lua" /\ Filter = None /\ child # "running"
    BY <1>1, <1>4 DEF Places, Redirected, Filter, NewFilter
  <2>3. Through = written /\ Through' = Through + 1
    BY <1>1, <1>4, <2>2 DEF Through, Waiting
  <2>4. PageInv' /\ page' \in Seq(Texts)
    BY <1>1, <2>1, <2>2, <2>3, GrownPage
  <2>5. Typed'
    BY <1>1, <2>1, <2>3, <2>4 DEF Typed
  <2>6. Places'
    BY <1>1, <1>2, <1>4, <2>1, <2>2, NoneIs DEF Places
  <2>7. Underway'
    BY <1>4, <2>1, <2>2 DEF Underway
  <2> QED BY <2>4, <2>5, <2>6, <2>7
<1>5. CASE current_write_filter = None /\ fds.stdout # "page"
  <2>1. Filter = "exec" /\ fds.stdout = "pipe"
    BY <1>1, <1>5 DEF Places, Redirected, NoFds
  <2>2. CASE child = "running"
    <3>1. /\ pipe' = Append(pipe, Text) /\ page' = page
          /\ filter_pc' = filter_pc /\ held' = held
          /\ collects' = collects /\ child' = child
      BY <1>5, <2>2 DEF WriteOut
    <3>2. pipe' \in Seq(Texts) /\ Len(pipe') = Len(pipe) + 1 /\ Len(pipe) \in Nat
          /\ Len(held) \in Nat
      BY <1>1, <3>1 DEF Typed
    <3>3. Through' = Through
      BY <1>1, <2>2, <3>1, <3>2 DEF Through, Waiting
    <3>4. Typed'
      BY <1>1, <3>1, <3>2, <3>3 DEF Typed
    <3>5. Places'
      BY <1>1, <1>2, <1>5, <2>1, <3>1, NoneIs DEF Places
    <3>6. ASSUME NEW i \in DOMAIN pipe'
          PROVE  pipe'[i] = [seg |-> segment, n |-> written + 1 - Len(pipe') + i,
                             by |-> None]
      <4>1. i \in 1 .. Len(pipe) \/ i = Len(pipe) + 1
        BY <3>2
      <4>2. CASE i \in 1 .. Len(pipe)
        <5>1. pipe'[i] = pipe[i] /\ written + 1 - Len(pipe') + i = written - Len(pipe) + i
          BY <1>1, <3>1, <3>2, <4>2 DEF Typed
        <5>2. pipe[i] = [seg |-> segment, n |-> written - Len(pipe) + i, by |-> None]
          BY <2>2, <4>2 DEF Underway, Typed
        <5> QED BY <5>1, <5>2
      <4>3. CASE i = Len(pipe) + 1
        <5>1. pipe'[i] = Text /\ written + 1 - Len(pipe') + i = written + 1
          BY <1>1, <3>1, <3>2, <4>3 DEF Typed
        <5> QED BY <5>1 DEF Text
      <4> QED BY <4>1, <4>2, <4>3
    <3>7. Underway'
      <4>1. \A i \in DOMAIN pipe' :
                pipe'[i] = [seg |-> segment', n |-> written' - Len(pipe') + i, by |-> None]
        BY <1>1, <3>6
      <4>2. /\ \A i \in DOMAIN held' :
                  held'[i] = [seg |-> segment', n |-> Through' + i, by |-> Filter']
            /\ ~collects' => held' = <<>>
        BY <1>2, <2>2, <3>1, <3>3 DEF Underway
      <4> QED BY <4>1, <4>2 DEF Underway
    <3>8. PageInv'
      BY <3>1, <3>3, QuietPage
    <3> QED BY <3>4, <3>5, <3>7, <3>8
  <2>3. CASE child # "running"
    <3>1. filter_pc' = "dead" /\ page' = page /\ pipe' = pipe /\ held' = held
      BY <1>5, <2>1, <2>3 DEF WriteOut
    <3>2. Through = written /\ Through' = written + 1 /\ segment \in failed
      BY <1>1, <1>5, <2>1, <2>3 DEF Through, Waiting, Places
    <3>3. Typed'
      BY <1>1, <3>1, <3>2 DEF Typed
    <3>4. Places'
      BY <1>1, <1>2, <1>5, <2>1, <2>3, <3>1 DEF Places
    <3>5. Underway'
      BY <1>5, <2>3, <3>1 DEF Underway
    <3>6. PageInv'
      <4>1. ASSUME NEW i \in DOMAIN page
            PROVE  page[i].seg < segment \/ (page[i].seg = segment /\ page[i].n <= written + 1)
        <5>1. page[i] \in Texts
          BY DEF Typed
        <5>2. page[i].n \in Nat
          BY <5>1 DEF Texts
        <5> QED BY <1>1, <3>2, <5>2 DEF PageInv, UpTo
      <4>2. UpTo(page, segment, Through)'
        BY <3>1, <3>2, <4>1 DEF UpTo
      <4> QED BY <3>1, <3>2, <4>2 DEF PageInv, Sorted, OwnFilters, Complete, Holds
    <3> QED BY <3>3, <3>4, <3>5, <3>6
  <2> QED BY <2>2, <2>3
<1> QED BY <1>3, <1>4, <1>5

\* A step to the next segment: no filter is left open behind it.
LEMMA NextTyped ==
    ASSUME FilterInv, UNCHANGED <<segments, collects, child>>, NextSegment,
           segment \in DOMAIN segments, child # "running",
           current_write_filter' = None, fds' = NoFds,
           pipe' \in Seq(Texts), held' \in Seq(Texts), page' \in Seq(Texts)
    PROVE  Typed' /\ Places' /\ Underway' /\ Through' = 0
<1> USE DEF FilterInv, NextSegment
<1>0. Waiting' = 0 /\ written' = 0
  BY DEF Waiting
<1>1. Through' = 0
  BY <1>0 DEF Through
<1>2. segment' \in 1 .. Len(segments) + 1
  BY Numbers
<1>3. Typed'
  BY <1>1, <1>2 DEF Typed
<1>4. Places'
  BY DEF Places
<1>5. Underway'
  BY DEF Underway
<1> QED BY <1>1, <1>3, <1>4, <1>5

LEMMA StepCloseNone ==
    ASSUME FilterInv, CloseNone
    PROVE  FilterInv'
<1> USE DEF FilterInv, CloseNone, Written, NextSegment
<1>1. /\ segment \in DOMAIN segments /\ child # "running" /\ current_write_filter = None
      /\ fds = NoFds /\ Through = segments[segment].texts
  BY Numbers, NoneIs DEF Places, Through, Waiting, Typed
<1>2. Typed' /\ Places' /\ Underway' /\ Through' = 0
  BY <1>1, NextTyped DEF Typed
<1>3. PageInv'
  <2>1. /\ Sorted(page) /\ UpTo(page, segment, segments[segment].texts) /\ OwnFilters(page)
        /\ \A s \in 1 .. segment - 1 : s \notin failed => Holds(page, s, segments[s].texts)
        /\ segment \notin failed => Holds(page, segment, segments[segment].texts)
    BY <1>1 DEF PageInv, Complete
  <2>2. page' = page /\ page \in Seq(Texts)
    BY DEF Typed
  <2> QED BY <1>1, <1>2, <2>1, <2>2, NextPage
<1> QED BY <1>2, <1>3

LEMMA StepWait ==
    ASSUME FilterInv, Wait
    PROVE  FilterInv'
<1> USE DEF FilterInv, Wait
<1>1. /\ segment \in DOMAIN segments /\ child # "running" /\ current_write_filter = None
      /\ fds = NoFds /\ Through = segments[segment].texts
  BY Numbers, NoneIs DEF Places, Through, Waiting, Typed
<1>2. CASE child = "exited"
  <2>1. Typed' /\ Places' /\ Underway' /\ Through' = 0
    BY <1>1, <1>2, NextTyped DEF Typed
  <2>2. /\ Sorted(page) /\ UpTo(page, segment, segments[segment].texts) /\ OwnFilters(page)
        /\ \A s \in 1 .. segment - 1 : s \notin failed => Holds(page, s, segments[s].texts)
        /\ segment \notin failed => Holds(page, segment, segments[segment].texts)
    BY <1>1 DEF PageInv, Complete
  <2>3. page' = page /\ page \in Seq(Texts) /\ segment' = segment + 1
    BY <1>2 DEF Typed, NextSegment
  <2>4. PageInv'
    BY <1>1, <2>1, <2>2, <2>3, NextPage
  <2> QED BY <2>1, <2>4
<1>3. CASE child # "exited"
  <2>1. filter_pc' = "dead" /\ Through' = Through /\ Filter' = Filter
    BY <1>3 DEF Through, Waiting, Filter
  <2>2. Typed'
    BY <1>3, <2>1 DEF Typed
  <2>3. Places'
    BY <1>1, <1>3, <2>1 DEF Places
  <2>4. Underway'
    BY <1>1, <1>3, <2>1 DEF Underway
  <2>5. PageInv'
    BY <1>3, <2>1, QuietPage
  <2> QED BY <2>2, <2>3, <2>4, <2>5
<1> QED BY <1>2, <1>3

\* What the filter has kept goes into the page when it has read everything.
LEMMA HeldContinues ==
    ASSUME Typed, Places, Underway, PageInv, segment \in DOMAIN segments,
           child = "running" \/ current_write_filter # None
    PROVE  /\ page \o held \in Seq(Texts)
           /\ Sorted(page \o held)
           /\ UpTo(page \o held, segment, Through + Len(held))
           /\ OwnFilters(page \o held)
           /\ \A s \in 1 .. segment - 1 :
                 s \notin failed => Holds(page \o held, s, segments[s].texts)
           /\ segment \notin failed => Holds(page \o held, segment, Through + Len(held))
<1>1. /\ page \in Seq(Texts) /\ held \in Seq(Texts) /\ segment \in Nat /\ Through \in Nat
      /\ Sorted(page) /\ UpTo(page, segment, Through) /\ OwnFilters(page)
  BY Numbers DEF Typed, PageInv
<1>2. /\ \A i \in DOMAIN held : held[i].seg = segment /\ held[i].n = Through + i
      /\ OwnFilters(held)
  BY DEF Underway, OwnFilters, Filter
<1>3. /\ page \o held \in Seq(Texts)
      /\ Sorted(page \o held)
      /\ UpTo(page \o held, segment, Through + Len(held))
      /\ Holds(page, segment, Through) => Holds(page \o held, segment, Through + Len(held))
      /\ \A t \in Nat, k \in Nat : Holds(page, t, k) => Holds(page \o held, t, k)
      /\ OwnFilters(page \o held)
  BY <1>1, <1>2, Continues
<1>4. \A s \in 1 .. segment - 1 : s \in Nat /\ segments[s].texts \in Nat
  BY Numbers DEF Typed
<1> QED BY <1>3, <1>4 DEF PageInv, Complete

LEMMA StepCloseLua ==
    ASSUME FilterInv, CloseLua
    PROVE  FilterInv'
<1> USE DEF FilterInv, CloseLua, Written, NextSegment
<1>1. /\ segment \in DOMAIN segments /\ child # "running" /\ current_write_filter # None
      /\ fds = NoFds
  BY NoneIs DEF Places
<1>2. Through + Len(held) = segments[segment].texts
  BY <1>1, Numbers DEF Through, Waiting
<1>3. /\ page' \in Seq(Texts) /\ Sorted(page')
      /\ UpTo(page', segment, segments[segment].texts) /\ OwnFilters(page')
      /\ \A s \in 1 .. segment - 1 : s \notin failed => Holds(page', s, segments[s].texts)
      /\ segment \notin failed => Holds(page', segment, segments[segment].texts)
  BY <1>1, <1>2, HeldContinues
<1>4. Typed' /\ Places' /\ Underway' /\ Through' = 0
  BY <1>1, <1>3, NextTyped DEF Typed
<1>5. PageInv'
  BY <1>1, <1>3, <1>4, NextPage
<1> QED BY <1>4, <1>5

-----------------------------------------------------------------------------
(* The filter process *)

LEMMA StepStartFilter ==
    ASSUME FilterInv, StartFilter
    PROVE  FilterInv'
<1> USE DEF FilterInv, StartFilter
<1>1. Through' = Through /\ Filter' = Filter
  BY DEF Through, Waiting, Filter
<1>2. Typed'
  BY <1>1 DEF Typed
<1>3. Places'
  BY <1>1 DEF Places
<1>4. Underway'
  BY <1>1 DEF Underway
<1>5. PageInv'
  BY <1>1, QuietPage
<1> QED BY <1>2, <1>3, <1>4, <1>5

LEMMA StepFilterReads ==
    ASSUME FilterInv, FilterReads
    PROVE  FilterInv'
<1> USE DEF FilterInv, FilterReads
<1> DEFINE x == [Head(pipe) EXCEPT !.by = "exec"]
<1>1. /\ segment \in DOMAIN segments /\ segment \in Nat /\ Filter = "exec"
      /\ Filter' = Filter /\ current_write_filter = None /\ written \in Nat
      /\ child = "running" /\ child' = child /\ written' = written /\ collects' = collects
      /\ segment' = segment /\ Through = written - (Len(held) + Len(pipe))
  BY Numbers, NoneIs DEF Typed, Places, Filter, Through, Waiting
<1>2. /\ pipe' \in Seq(Texts) /\ Len(pipe) \in Nat \ {0} /\ Len(pipe') = Len(pipe) - 1
      /\ Len(held) \in Nat
      /\ \A i \in DOMAIN pipe' : i + 1 \in DOMAIN pipe /\ pipe'[i] = pipe[i + 1]
  BY DEF Typed
<1>3. x = [seg |-> segment, n |-> written - Len(pipe) + 1, by |-> Filter] /\ x \in Texts
  <2>1. 1 \in DOMAIN pipe /\ Head(pipe) = pipe[1] /\ pipe[1] \in Texts
    BY <1>2 DEF Typed
  <2>2. pipe[1] = [seg |-> segment, n |-> written - Len(pipe) + 1, by |-> None]
    BY <1>1, <2>1 DEF Underway
  <2>3. x = [seg |-> segment, n |-> written - Len(pipe) + 1, by |-> "exec"]
    BY <2>1, <2>2
  <2>4. written - Len(pipe) + 1 \in Nat
    BY <2>1, <2>2 DEF Texts
  <2> QED BY <1>1, <2>3, <2>4 DEF Texts
<1>4. \A i \in DOMAIN pipe' :
          pipe'[i] = [seg |-> segment, n |-> written - Len(pipe') + i, by |-> None]
  <2> SUFFICES ASSUME NEW i \in DOMAIN pipe'
               PROVE  pipe'[i] = [seg |-> segment, n |-> written - Len(pipe') + i,
                                  by |-> None]
    OBVIOUS
  <2>1. /\ pipe'[i] = [seg |-> segment, n |-> written - Len(pipe) + (i + 1), by |-> None]
        /\ i \in Nat
    BY <1>1, <1>2 DEF Underway
  <2>2. written - Len(pipe) + (i + 1) = written - Len(pipe') + i
    BY <1>1, <1>2, <2>1
  <2> QED BY <2>1, <2>2
<1>5. CASE collects
  <2>1. held' = Append(held, x) /\ page' = page
    BY <1>5
  <2>2. held' \in Seq(Texts) /\ Len(held') = Len(held) + 1
    BY <1>3, <2>1 DEF Typed
  <2>3. Through' = Through
    <3>1. Waiting' = Len(held') + Len(pipe')
      BY <1>1, NoneIs DEF Waiting, Filter
    <3>2. Through' = written - (Len(held') + Len(pipe'))
      BY <1>1, <3>1 DEF Through
    <3> QED BY <1>1, <1>2, <2>2, <3>2
  <2>4. Typed'
    BY <1>1, <1>2, <2>1, <2>2, <2>3 DEF Typed
  <2>5. Places'
    BY <1>1 DEF Places
  <2>6. ASSUME NEW i \in DOMAIN held'
        PROVE  held'[i] = [seg |-> segment, n |-> Through + i, by |-> Filter]
    <3>1. i \in 1 .. Len(held) \/ i = Len(held) + 1
      BY <1>2, <2>2
    <3>2. CASE i \in 1 .. Len(held)
      BY <1>1, <2>1, <3>2 DEF Underway, Typed
    <3>3. CASE i = Len(held) + 1
      <4>1. held'[i] = x /\ Through + i = written - Len(pipe) + 1
        <5>1. Through + (Len(held) + 1) = written - Len(pipe) + 1
          BY <1>1, <1>2
        <5>2. held \in Seq(Texts)
          BY DEF Typed
        <5> HIDE DEF x
        <5>3. held'[i] = x
          BY <2>1, <3>3, <5>2
        <5> QED BY <3>3, <5>1, <5>3
      <4> QED BY <1>3, <4>1
    <3> QED BY <3>1, <3>2, <3>3
  <2>7. Underway'
    BY <1>1, <1>4, <1>5, <2>3, <2>6 DEF Underway
  <2>8. PageInv'
    BY <2>1, <2>3, QuietPage
  <2> QED BY <2>4, <2>5, <2>7, <2>8
<1>6. CASE ~collects
  <2>1. held' = held /\ page' = Append(page, x) /\ held = <<>>
    BY <1>1, <1>6 DEF Underway
  <2>2. Through' = Through + 1 /\ Through = written - Len(pipe)
    BY <1>1, <1>2, <2>1 DEF Through, Waiting
  <2>3. PageInv' /\ page' \in Seq(Texts)
    <3>1. x.seg = segment /\ x.n = Through + 1 /\ x.by = Filter
      BY <1>3, <2>2
    <3> HIDE DEF x
    <3> QED BY <1>3, <2>1, <2>2, <3>1, GrownPage
  <2>4. Typed'
    BY <1>1, <1>2, <2>1, <2>2, <2>3 DEF Typed
  <2>5. Places'
    BY <1>1 DEF Places
  <2>6. Underway'
    BY <1>1, <1>4, <2>1 DEF Underway
  <2> QED BY <2>3, <2>4, <2>5, <2>6
<1> QED BY <1>5, <1>6 DEF Typed

\* The filter comes to its end when cgit has closed the pipe, and cgit waits for it.
LEMMA StepFilterEnds ==
    ASSUME FilterInv, FilterEnds
    PROVE  FilterInv'
<1> USE DEF FilterInv, FilterEnds
<1>1. filter_pc = "wait" /\ segment \in DOMAIN segments /\ Filter = "exec" /\ Filter' = Filter
  <2>1. child = "running" /\ filter_pc \in {"write", "wait"} /\ Filter = "exec"
    BY DEF Places
  <2>2. filter_pc # "write"
    <3> SUFFICES ASSUME filter_pc = "write" PROVE FALSE
      OBVIOUS
    <3>1. fds = Redirected
      BY <2>1 DEF Places
    <3>2. "stdout" \in DOMAIN fds /\ fds["stdout"] = "pipe"
      BY <3>1 DEF Redirected
    <3> QED BY <3>2 DEF PipeOpen
  <2> QED BY <2>1, <2>2 DEF Places, Filter
<1>2. current_write_filter = None /\ Len(pipe) = 0 /\ Len(held) \in Nat /\ written \in Nat
  BY <1>1, Numbers DEF Places, Typed
<1>3. Through + Len(held) = written /\ Through' = written
  BY <1>2 DEF Through, Waiting
<1>4. /\ page' \in Seq(Texts) /\ Sorted(page') /\ UpTo(page', segment, written)
      /\ OwnFilters(page')
      /\ \A s \in 1 .. segment - 1 : s \notin failed => Holds(page', s, segments[s].texts)
      /\ segment \notin failed => Holds(page', segment, written)
  BY <1>1, <1>3, HeldContinues
<1>5. Typed'
  BY <1>2, <1>3, <1>4 DEF Typed
<1>6. Places'
  BY <1>1, <1>2 DEF Places
<1>7. Underway'
  BY <1>2 DEF Underway
<1>8. PageInv'
  BY <1>3, <1>4 DEF PageInv, Sorted, UpTo, OwnFilters, Complete, Holds
<1> QED BY <1>5, <1>6, <1>7, <1>8

-----------------------------------------------------------------------------
(* The theorems *)

LEMMA InitialFilters ==
    ASSUME FilterInit
    PROVE  FilterInv
<1>1. segments \in Seq(Segment)
  BY FilteredPagesAssumption DEF FilterInit
<1>2. Through = 0
  BY DEF FilterInit, Through, Waiting
<1>3. Typed
  BY <1>1, <1>2 DEF FilterInit, Typed
<1>4. Places /\ Underway
  BY DEF FilterInit, Places, Underway
<1>5. PageInv
  BY <1>2 DEF FilterInit, PageInv, Sorted, UpTo, OwnFilters, Complete, Holds
<1> QED BY <1>3, <1>4, <1>5 DEF FilterInv

THEOREM FilterInvariance == FilterSpec => []FilterInv
<1>1. FilterInv /\ UNCHANGED filtervars => FilterInv'
  BY DEF filtervars, FilterInv, Typed, Places, Underway, PageInv, Sorted, UpTo, OwnFilters,
     Complete, Holds, Through, Waiting, Filter
<1>2. FilterInv /\ [FilterNext]_filtervars => FilterInv'
  BY <1>1, StepOpenNone, StepOpenExec, StepOpenLua, StepWrite, StepLuaFails, StepCloseNone,
     StepCloseLua, StepCloseExec, StepWait, StepDone, StepStartFilter, StepFilterReads,
     StepFilterEnds, StepFilterFails DEF FilterNext
<1>3. FilterInit => FilterInv
  BY InitialFilters
<1> QED BY <1>2, <1>3, PTL DEF FilterSpec

\* For every page and every pipe, at whatever pace the filters read and write: every
\* text is in the page once, in its place, and through its own filter.
THEOREM InPlace == FilterSpec => []FilteredInPlace
<1>1. FilterInv => FilteredInPlace
  <2> SUFFICES ASSUME FilterInv PROVE FilteredInPlace
    OBVIOUS
  <2>1. /\ \A i, j \in DOMAIN page : i < j => Before(page[i], page[j])
        /\ \A i \in DOMAIN page : page[i].by = NewFilter(segments[page[i].seg].prefix)
    BY DEF FilterInv, PageInv, Sorted, OwnFilters
  <2>2. ASSUME filter_pc = "done", NEW s \in DOMAIN segments \ failed
        PROVE  \A n \in 1 .. segments[s].texts :
                   \E i \in DOMAIN page : page[i].seg = s /\ page[i].n = n
    <3>1. s \in 1 .. segment - 1
      BY <2>2, Numbers DEF FilterInv, Places
    <3> QED BY <2>2, <3>1 DEF FilterInv, PageInv, Complete, Holds
  <2> QED BY <2>1, <2>2 DEF FilteredInPlace
<1> QED BY <1>1, FilterInvariance, PTL

\* Whatever has been written before: when cgit waits for a filter that has started,
\* neither of the two can still write to the pipe between them.
THEOREM NobodyKeepsPipe == FilterSpec => []WaitedFilterCanEnd
<1>1. FilterInv => WaitedFilterCanEnd
  <2> SUFFICES ASSUME FilterInv, filter_pc = "wait", child = "running",
                      child_fds.stdin = "pipe"
               PROVE  ~PipeOpen
    BY DEF WaitedFilterCanEnd
  <2>1. fds = NoFds
    BY DEF FilterInv, Places
  <2>2. \A d \in DOMAIN fds : fds[d] # "pipe"
    BY <2>1, NoneIs DEF NoFds
  <2>3. child_fds = Started
    BY NoneIs DEF FilterInv, Places, Forked
  <2> QED BY <2>2, <2>3, NoneIs DEF PipeOpen, Started
<1> QED BY <1>1, FilterInvariance, PTL
=============================================================================
