------------------------ MODULE RequestLifecycle_proofs ------------------------
(***************************************************************************)
(* Proofs about what a request is answered with, for every query,          *)
(* repository, ttl and number of changes: a visitor who is not let in sees *)
(* nothing but the login page; a HEAD request gets no body and leaves      *)
(* nothing in the cache, where only whole pages go; and the two halves of  *)
(* a page are about one commit unless the ref that both look up has moved. *)
(* For every repository that is complete when nothing has been lost: what  *)
(* a page for full SHA1s shows of objects stays what a request would get,  *)
(* whatever is pushed or deleted meanwhile; and a response has one header  *)
(* and one layout, although the repository changes under it.               *)
(***************************************************************************)
EXTENDS RequestLifecycle, FiniteSetTheorems, TLAPS

Harmless(s) == TokensOf(s, TokenName \ {"header", "open", "login", "close"}) = {}

\* Why it is so: nothing is printed before process_request, the cache is for those
\* who are let in, and so are the steps that run a command.
LoginInv ==
    /\ authenticated \in BOOLEAN
    /\ caching => authenticated
    /\ pc \in {"command", "below"} => authenticated
    /\ pc \in {"idle", "arrived", "authorised"} => ~caching
    /\ pc \in {"idle", "arrived", "authorised", "process"} => out = <<>>
    /\ ~authenticated => Harmless(out)
    /\ AnonymousSeesLogin

-----------------------------------------------------------------------------
(* What the login page consists of *)

\* Nothing is harmless.
LEMMA HarmlessEmpty == Harmless(<<>>)
  BY DEF Harmless, TokensOf

\* The login page consists of the layout and what the filter prints.
LoginTokens == {Tok("header"), Tok("open"), Tok("login"), Tok("close")}

LEMMA LoginLayout == Layout(<<Tok("login")>>) \in Seq(LoginTokens)
<1>1. /\ <<Tok("header"), Tok("open")>> \in Seq(LoginTokens)
      /\ <<Tok("login")>> \in Seq(LoginTokens)
      /\ <<Tok("close")>> \in Seq(LoginTokens)
  BY DEF LoginTokens
<1> QED
  BY <1>1 DEF Layout

\* What Prints prints of a sequence of harmless tokens is harmless.
LEMMA PrintsHarmless ==
    ASSUME NEW T, NEW s \in Seq(T), NEW next,
           \A x \in T : x.t \in {"header", "open", "login", "close"},
           out = <<>>, Prints(s, next)
    PROVE  Harmless(out')
<1>1. \A i \in DOMAIN s : s[i].t \in {"header", "open", "login", "close"}
  OBVIOUS
<1>2. CASE out' = out \o s
  <2>1. out' = s
    BY <1>2
  <2> QED
    BY <1>1, <2>1 DEF Harmless, TokensOf
<1>3. ASSUME NEW i \in ExitsAt(s), out' = out \o SubSeq(s, 1, i)
      PROVE  Harmless(out')
  <2>1. i \in 1 .. Len(s)
    BY <1>3 DEF ExitsAt
  <2>2. out' = SubSeq(s, 1, i)
    BY <1>3, <2>1
  <2>3. /\ DOMAIN out' = 1 .. i
        /\ \A j \in 1 .. i : out'[j] = s[j]
    BY <2>1, <2>2
  <2> QED
    BY <1>1, <2>1, <2>3 DEF Harmless, TokensOf
<1> QED
  BY <1>2, <1>3 DEF Prints

-----------------------------------------------------------------------------
THEOREM LoginInit == Init => LoginInv
  BY HarmlessEmpty DEF Init, LoginInv, AnonymousSeesLogin

\* The process ends with a harmless answer, or for somebody who was let in.
LEMMA ReplyStep ==
    ASSUME LoginInv, NEW s, NEW old, NEW m, NEW g, Reply(s, old, m, g),
           authenticated \/ Harmless(s)
    PROVE  LoginInv'
<1>1. authenticated' = FALSE /\ caching' = FALSE /\ out' = <<>> /\ pc' = "idle"
  BY DEF Reply, NoRequest
<1>2. answer'.out = s /\ answer'.authenticated = authenticated
  BY DEF Reply
<1>3. AnonymousSeesLogin'
  BY <1>2 DEF AnonymousSeesLogin, Harmless, LoginInv
<1> QED
  BY <1>1, <1>3, HarmlessEmpty DEF LoginInv

THEOREM LoginStep == LoginInv /\ [Next]_vars => LoginInv'
<1> SUFFICES ASSUME LoginInv, [Next]_vars
             PROVE  LoginInv'
  OBVIOUS
<1>1. CASE Environment
  <2>1. UNCHANGED <<pc, authenticated, caching, out, answer>>
    BY <1>1 DEF Environment, DeleteRef, Push, Lose, Expire, Change, request
  <2> QED
    BY <2>1 DEF LoginInv, AnonymousSeesLogin, Harmless
<1>2. ASSUME NEW m \in Method, Receive(m)
      PROVE  LoginInv'
  BY <1>2 DEF Receive, LoginInv, AnonymousSeesLogin, Harmless
<1>3. CASE LoginPost
  <2>1. Harmless(<<Tok("header"), Tok("login")>>)
    BY DEF Harmless, TokensOf, Tok
  <2> QED
    BY <1>3, <2>1, ReplyStep DEF LoginPost
<1>4. CASE Authenticate
  <2>1. authenticated' \in BOOLEAN
    BY <1>4 DEF Authenticate
  <2>2. pc = "arrived" /\ pc' = "authorised" /\ UNCHANGED <<caching, out, answer>>
    BY <1>4 DEF Authenticate
  <2>3. ~caching
    BY <2>2 DEF LoginInv
  <2> QED
    BY <2>1, <2>2, <2>3, HarmlessEmpty DEF LoginInv, AnonymousSeesLogin, Harmless
<1>5. CASE Hit
  BY <1>5, ReplyStep DEF Hit, CachedPage, Cacheable
<1>6. CASE Miss
  BY <1>6 DEF Miss, Cacheable, LoginInv, AnonymousSeesLogin, Harmless
<1>7. CASE LoginPage
  <2>1. Harmless(out')
    <3>1. \A x \in LoginTokens : x.t \in {"header", "open", "login", "close"}
      BY DEF LoginTokens, Tok
    <3> QED
      BY <1>7, <3>1, LoginLayout, PrintsHarmless DEF LoginPage, LoginInv
  <2>2. pc' \in {"finish", "exited"}
    BY <1>7 DEF LoginPage, Prints
  <2> QED
    BY <1>7, <2>1, <2>2 DEF LoginPage, LoginInv, AnonymousSeesLogin, Harmless
<1>8. CASE RefuseRequest \/ RunCommand \/ PrintDiffBelow
  <2>1. authenticated /\ UNCHANGED <<authenticated, caching, answer>>
    BY <1>8 DEF RefuseRequest, RunCommand, PrintDiffBelow, LoginInv
  <2>2. pc' \in {"finish", "below", "exited"}
    BY <1>8 DEF RefuseRequest, RunCommand, PrintDiffBelow, Prints
  <2> QED
    BY <2>1, <2>2 DEF LoginInv, AnonymousSeesLogin
<1>9. CASE PrepareCommand
  BY <1>9 DEF PrepareCommand, LoginInv, AnonymousSeesLogin, Harmless
<1>10. CASE Finish
  BY <1>10, ReplyStep DEF Finish, LoginInv
<1>11. CASE Exit
  BY <1>11, ReplyStep, HarmlessEmpty DEF Exit, LoginInv
<1>12. CASE UNCHANGED vars
  BY <1>12 DEF vars, request, LoginInv, AnonymousSeesLogin, Harmless
<1> QED
  BY <1>1, <1>2, <1>3, <1>4, <1>5, <1>6, <1>7, <1>8, <1>9, <1>10, <1>11, <1>12
     DEF Next, Process

\* AnonymousSeesLogin holds in every state: process_request (cgit.c) prints the
\* login page before it looks at the command, and cache-size is 0 by then.
THEOREM OnlyLogin == Spec => []AnonymousSeesLogin
<1>1. LoginInv => AnonymousSeesLogin
  BY DEF LoginInv
<1> QED
  BY LoginInit, LoginStep, <1>1, PTL DEF Spec
-----------------------------------------------------------------------------
(* What the responses look like *)

\* The objects a page may show, and the tokens that are not the filter's, before it
\* is filled in where the refs point
Shown == Object \cup {None}
PageToken == {x \in [t : TokenName \ {"login"}, of : Shown] : x.t \in RefsShown => x.of = None}

\* What the first half of a page shows of a commit, and what the second does
First == {"commit", "stat"}
Second == {"diff", "log"}

NoDiff == {x \in PageToken : x.t \notin Second}
NoCommit == {x \in PageToken : x.t \notin First}
Neither == NoDiff \cap NoCommit

\* A page of tokens in T is a header and something after it.
Page(s, T) == s \in Seq(T) /\ Len(s) > 1 /\ s[1] = Tok("header")
Response(s, T) == Page(s, T) \/ s = <<Tok("redirect")>> \/ s = <<Tok("die")>>

\* The tokens without an object are tokens.
LEMMA TokType ==
    \A t \in TokenName \ ({"login"} \cup First \cup Second) : Tok(t) \in Neither
  BY DEF Tok, Neither, NoDiff, NoCommit, PageToken, Shown, TokenName

LEMMA ShowsType ==
    /\ \A o \in Shown : {Shows("tag", o), Shows("tree", o), Shows("blob", o)} \subseteq Neither
    /\ \A o \in Shown : \A k \in First : Shows(k, o) \in NoDiff
    /\ \A o \in Shown : \A k \in Second : Shows(k, o) \in NoCommit
  BY DEF Shows, Neither, NoDiff, NoCommit, First, Second, PageToken, TokenName, RefsShown

\* A page that goes on is a page, and every page is one of more tokens.
LEMMA PageGoesOn ==
    ASSUME NEW T, NEW s, NEW u \in Seq(T), Page(s, T)
    PROVE  Page(s \o u, T)
  BY DEF Page

LEMMA PageOfMore ==
    ASSUME NEW T, NEW U, T \subseteq U, NEW s
    PROVE  (Page(s, T) => Page(s, U)) /\ (s \in Seq(T) => s \in Seq(U))
  BY DEF Page

LEMMA LayoutIsPage ==
    ASSUME NEW T, Neither \subseteq T, NEW body \in Seq(T)
    PROVE  Page(Layout(body), T)
<1>1. {Tok("header"), Tok("open"), Tok("close")} \subseteq T
  BY TokType DEF TokenName, First, Second
<1>2. <<Tok("header"), Tok("open")>> \in Seq(T) /\ <<Tok("close")>> \in Seq(T)
  BY <1>1
<1>3. Page(<<Tok("header"), Tok("open")>>, T)
  BY <1>2 DEF Page
<1> QED
  BY <1>2, <1>3, PageGoesOn DEF Layout

LEMMA RawIsPage ==
    ASSUME NEW T, Neither \subseteq T, NEW body \in Seq(T), body # <<>>
    PROVE  Page(Raw(body), T)
<1>1. Tok("header") \in T
  BY TokType DEF TokenName, First, Second
<1> QED
  BY <1>1 DEF Page, Raw

LEMMA ErrorIsPage ==
    Page(ErrorPage, Neither) /\ Page(ErrorPage, NoDiff) /\ Page(ErrorPage, NoCommit)
<1>1. <<Tok("error")>> \in Seq(Neither)
  BY TokType DEF TokenName, First, Second
<1>2. Page(ErrorPage, Neither)
  BY <1>1, LayoutIsPage DEF ErrorPage
<1> QED
  BY <1>2, PageOfMore DEF Neither
\* An object that git can read may be shown.
LEMMA HaveIsShown ==
    ASSUME NEW r, r.have \subseteq Object
    PROVE  /\ r.have \subseteq Shown
           /\ \A o : CommitAt(r, o) \in r.have \cup {None}
           /\ \A o, p : CommitAt(r, o) # None /\ p \in Path =>
                         Entry[CommitAt(r, o)][p] \in Shown
<1>1. \A o : CommitAt(r, o) # None => CommitAt(r, o) \in Commit
  BY DEF CommitAt, Commit
<1> QED
  BY <1>1, ObjectAssumption DEF Shown, CommitAt

\* A diff is an error page, a page without commits, or the diff alone where it is
\* part of another page.
LEMMA DiffPages ==
    ASSUME NEW r, r.have \subseteq Object, NEW new, NEW old, NEW ctrls \in BOOLEAN,
           NEW raw \in BOOLEAN, NEW statonly
    PROVE  LET d == Diff(r, new, old, ctrls, raw, statonly)
               c == CommitAt(r, Resolve(r, new))
           IN  \/ d = ErrorPage
               \/ ctrls /\ Page(d, NoCommit)
               \/ ~ctrls /\ raw /\ Page(d, NoCommit)
               \/ ~ctrls /\ ~raw /\ c \in Shown \ {None} /\ d = <<Shows("diff", c)>>
<1> DEFINE c == CommitAt(r, Resolve(r, new))
           d == Diff(r, new, old, ctrls, raw, statonly)
<1>1. c \in Shown
  BY HaveIsShown DEF Shown
<1>2. <<Shows("diff", c)>> \in Seq(NoCommit) /\ Neither \subseteq NoCommit
  BY <1>1, ShowsType DEF Neither, Second
<1>3. Page(Raw(<<Shows("diff", c)>>), NoCommit)
  BY <1>2, RawIsPage
<1>4. Page(Layout(<<Shows("diff", c)>>), NoCommit)
  BY <1>2, LayoutIsPage
<1>5. Page(<<Tok("header"), Tok("open"), Shows("diff", c)>>, NoCommit)
  BY <1>1, <1>2, TokType, ShowsType DEF Page, TokenName, First, Second
<1>6. \/ d = ErrorPage
      \/ c # None /\ raw /\ d = Raw(<<Shows("diff", c)>>)
      \/ c # None /\ ~raw /\ ~ctrls /\ d = <<Shows("diff", c)>>
      \/ ctrls /\ d = <<Tok("header"), Tok("open"), Shows("diff", c)>>
      \/ ctrls /\ d = Layout(<<Shows("diff", c)>>)
  BY DEF Diff
<1> HIDE DEF c, d
<1>7. \/ d = ErrorPage
      \/ ctrls /\ Page(d, NoCommit)
      \/ ~ctrls /\ raw /\ Page(d, NoCommit)
      \/ ~ctrls /\ ~raw /\ c \in Shown \ {None} /\ d = <<Shows("diff", c)>>
  BY <1>1, <1>3, <1>4, <1>5, <1>6
<1> QED
  BY <1>7 DEF c, d

\* The parents of a commit are finitely many.
LEMMA ParentsCounted ==
    ASSUME NEW r, NEW o, CommitAt(r, o) # None, r.have \subseteq Object
    PROVE  Cardinality(ReadParents(r, CommitAt(r, o))) \in Nat
<1> DEFINE c == CommitAt(r, o)
<1>1. c \in Commit
  BY DEF CommitAt, Commit
<1>2. Parents[c] \in Seq(Commit)
  BY <1>1, ObjectAssumption
<1>3. Len(Parents[c]) \in Nat /\ DOMAIN Parents[c] = 1 .. Len(Parents[c])
  BY <1>2
<1> HIDE DEF c
<1>4. IsFiniteSet(1 .. Len(Parents[c]))
  BY <1>3, FS_Interval
<1>5. IsFiniteSet(ReadParents(r, c))
  BY <1>3, <1>4, FS_Subset DEF ReadParents
<1> QED
  BY <1>5, FS_CardinalityType DEF c

\* The start of a commit page shows the commit that its id, or the branch, leads to.
LEMMA CommitPages ==
    ASSUME NEW r, r.have \subseteq Object, NEW q, NEW h
    PROVE  LET c == CommitAt(r, Resolve(r, Rev(q, h)))
           IN  /\ Page(CommitStart(r, q, h), NoDiff)
               /\ c # None /\ ~(Cardinality(ReadParents(r, c)) > 2) =>
                      CommitStart(r, q, h) =
                          <<Tok("header"), Tok("open"), Shows("commit", c), Tok("refs")>>
<1> DEFINE c == CommitAt(r, Resolve(r, Rev(q, h)))
<1>1. c \in Shown
  BY HaveIsShown DEF Shown
<1>2. Shows("commit", c) \in NoDiff /\ Neither \subseteq NoDiff
  BY <1>1, ShowsType DEF Neither, First
<1>4. {Tok("header"), Tok("open"), Tok("refs")} \subseteq NoDiff
  BY <1>2, TokType DEF TokenName, First, Second
<1>5. Page(<<Tok("header"), Tok("open"), Shows("commit", c), Tok("refs")>>, NoDiff)
  BY <1>2, <1>4 DEF Page
<1>3. Page(Layout(<<Shows("commit", c), Tok("refs")>>), NoDiff)
  <2>1. <<Shows("commit", c), Tok("refs")>> \in Seq(NoDiff)
    BY <1>2, <1>4
  <2> QED
    BY <1>2, <2>1, LayoutIsPage
<1> QED
  BY <1>5, <1>3, ErrorIsPage DEF CommitStart

\* The start of a comparison shows the statistics of the commit id2 leads to.
LEMMA ComparePages ==
    ASSUME NEW r, r.have \subseteq Object, NEW q
    PROVE  /\ Page(CompareStart(r, q), NoDiff)
           /\ Comparable(r, q) =>
                  CompareStart(r, q) = <<Tok("header"), Tok("open"), Tok("refs"),
                                         Shows("stat", CommitOf(r, q.id2))>>
<1> DEFINE c == CommitOf(r, q.id2)
<1>1. c \in Shown
  BY HaveIsShown DEF Shown, CommitOf
<1>2. Shows("stat", c) \in NoDiff /\ Neither \subseteq NoDiff
  BY <1>1, ShowsType DEF Neither, First
<1>3. {Tok("header"), Tok("open"), Tok("refs"), Tok("error")} \subseteq NoDiff
  BY <1>2, TokType DEF TokenName, First, Second
<1>4. Page(<<Tok("header"), Tok("open"), Tok("refs"), Shows("stat", c)>>, NoDiff)
  BY <1>2, <1>3 DEF Page
<1>5. <<Tok("refs")>> \in Seq(NoDiff) /\ <<Tok("refs"), Tok("error")>> \in Seq(NoDiff)
  BY <1>3
<1>6. Page(Layout(<<Tok("refs")>>), NoDiff) /\ Page(Layout(<<Tok("refs"), Tok("error")>>), NoDiff)
  BY <1>2, <1>5, LayoutIsPage
<1>7. {q.id, q.id2} = {None} => ~Comparable(r, q)
  BY DEF Comparable
<1> QED
  BY <1>4, <1>6, <1>7 DEF CompareStart

LEMMA PatchPages ==
    ASSUME NEW r, r.have \subseteq Object, NEW q, NEW h
    PROVE  Page(Patch(r, q, h), NoDiff)
<1> DEFINE c == CommitAt(r, Resolve(r, Rev(q, h)))
<1>1. <<Shows("commit", c)>> \in Seq(NoDiff) /\ Neither \subseteq NoDiff
  BY HaveIsShown, ShowsType DEF Shown, Neither, First
<1>2. Page(Raw(<<Shows("commit", c)>>), NoDiff)
  BY <1>1, RawIsPage
<1>3. Page(<<Tok("header"), Tok("die")>>, NoDiff)
  BY TokType DEF Page, TokenName, Neither, First, Second
<1> QED
  BY <1>2, <1>3, ErrorIsPage DEF Patch

\* A page that shows one object in the layout, or as it is
LEMMA OneObject ==
    ASSUME NEW o \in Shown, NEW k \in {"tag", "tree", "blob"}
    PROVE  /\ Page(Layout(<<Shows(k, o)>>), Neither)
           /\ Page(Raw(<<Shows(k, o)>>), Neither)
           /\ Page(<<Tok("header"), Tok("open"), Shows(k, o)>>, Neither)
<1>1. Shows(k, o) \in Neither
  BY ShowsType
<1>2. Page(<<Tok("header"), Tok("open"), Shows(k, o)>>, Neither)
  BY <1>1, TokType DEF Page, TokenName, First, Second
<1>3. <<Shows(k, o)>> \in Seq(Neither)
  BY <1>1
<1> QED
  BY <1>2, <1>3, LayoutIsPage, RawIsPage

\* A page that shows no object
LEMMA NoObject ==
    ASSUME NEW k \in {"body", "error", "refs"}
    PROVE  Page(Layout(<<Tok(k)>>), Neither) /\ Page(Raw(<<Tok(k)>>), Neither)
<1>1. <<Tok(k)>> \in Seq(Neither)
  BY TokType DEF TokenName, First, Second
<1> QED
  BY <1>1, LayoutIsPage, RawIsPage

LEMMA TagPages ==
    ASSUME NEW r, r.have \subseteq Object, NEW q, NEW h
    PROVE  Page(TagPage(r, q, h), Neither)
<1> DEFINE o == IF Rev(q, h) \in Tag THEN r.refs[Rev(q, h)] ELSE None
<1>1. o \in r.have => Page(Layout(<<Shows("tag", o)>>), Neither)
  BY HaveIsShown, OneObject
<1> HIDE DEF o
<1>2. TagPage(r, q, h) = IF o = None \/ o \notin r.have THEN ErrorPage
                         ELSE Layout(<<Shows("tag", o)>>)
  BY DEF TagPage, o
<1> QED
  BY <1>1, <1>2, ErrorIsPage

\* The pages about a path: of the tree, ...
LEMMA TreePages ==
    ASSUME NEW r, r.have \subseteq Object, NEW q, q.path \in Path \cup {None}, NEW h
    PROVE  Page(TreePage(r, q, h), Neither)
<1> DEFINE c == CommitAt(r, Resolve(r, Rev(q, h)))
           o == IF q.path = None THEN None ELSE Entry[c][q.path]
<1>1. c = None \/ (c \in Shown /\ o \in Shown)
  BY HaveIsShown DEF Shown
<1>2. Page(TreeObject(r, o), Neither)
  BY ErrorIsPage, OneObject, HaveIsShown DEF TreeObject
<1>3. <<Tok("close")>> \in Seq(Neither)
  BY TokType DEF TokenName, First, Second
<1>4. Page(TreeObject(r, o) \o <<Tok("close")>>, Neither)
  BY <1>2, <1>3, PageGoesOn
<1>5. \/ TreePage(r, q, h) = ErrorPage
      \/ c # None /\ TreePage(r, q, h) = Layout(<<Shows("tree", c)>>)
      \/ c # None /\ TreePage(r, q, h) = Layout(<<Shows("tree", o)>>)
      \/ TreePage(r, q, h) = TreeObject(r, o) \o <<Tok("close")>>
  BY DEF TreePage
<1> HIDE DEF c, o
<1> QED
  BY <1>1, <1>4, <1>5, ErrorIsPage, OneObject

\* ... as it is, ...
LEMMA PlainPages ==
    ASSUME NEW r, r.have \subseteq Object, NEW q, q.path \in Path \cup {None}, NEW h
    PROVE  Page(PlainPage(r, q, h), Neither)
<1> DEFINE c == CommitAt(r, Resolve(r, Rev(q, h)))
           o == IF q.path = None THEN None ELSE Entry[c][q.path]
           found == PlainObject(r, o)
           rest == IF found.match THEN <<>> ELSE ErrorPage
<1>1. c = None \/ (c \in Shown /\ o \in Shown)
  BY HaveIsShown DEF Shown
<1>2. Page(found.printed, Neither)
  BY ErrorIsPage, OneObject, HaveIsShown DEF PlainObject
<1>3. rest \in Seq(Neither)
  BY ErrorIsPage DEF Page
<1>4. Page(found.printed \o rest, Neither)
  BY <1>2, <1>3, PageGoesOn
<1>5. \/ PlainPage(r, q, h) = ErrorPage
      \/ c # None /\ PlainPage(r, q, h) = Raw(<<Shows("tree", c)>>)
      \/ c # None /\ PlainPage(r, q, h) = Raw(<<Shows("tree", o)>>)
      \/ PlainPage(r, q, h) = found.printed \o rest
  BY DEF PlainPage
<1> HIDE DEF c, o, found, rest
<1> QED
  BY <1>1, <1>4, <1>5, ErrorIsPage, OneObject

\* ... with its blame, ...
LEMMA BlamePages ==
    ASSUME NEW r, r.have \subseteq Object, NEW q, q.path \in Path \cup {None}, NEW h
    PROVE  Page(BlamePage(r, q, h), Neither)
<1>1. ASSUME NEW o
      PROVE  Page(BlameObject(r, o), Neither)
  <2>1. Page(<<Tok("header"), Tok("open"), Tok("error")>>, Neither)
    BY TokType DEF Page, TokenName, First, Second
  <2>2. o \in r.have => o \in Shown
    BY HaveIsShown
  <2> QED
    BY <2>1, <2>2, ErrorIsPage, OneObject DEF BlameObject
<1> QED
  BY <1>1, ErrorIsPage DEF BlamePage

\* ... and the blob alone.
LEMMA BlobPages ==
    ASSUME NEW r, r.have \subseteq Object, NEW q, NEW h
    PROVE  Page(BlobPage(r, q, h), Neither)
  BY ErrorIsPage, OneObject, HaveIsShown DEF BlobPage

LEMMA SnapshotPages ==
    ASSUME NEW r, r.have \subseteq Object, NEW q, NEW h, NEW s \in SnapshotPage(r, q, h)
    PROVE  Page(s, NoDiff)
<1>1. ASSUME NEW c \in r.have \cup {None}
      PROVE  Page(Raw(<<Shows("commit", c)>>), NoDiff)
  <2>1. <<Shows("commit", c)>> \in Seq(NoDiff) /\ Neither \subseteq NoDiff
    BY HaveIsShown, ShowsType DEF Shown, Neither, First
  <2> QED
    BY <2>1, RawIsPage
<1>2. Page(Raw(<<Tok("body")>>), NoDiff)
  BY NoObject, PageOfMore DEF Neither
<1>3. \/ s = ErrorPage \/ s = Raw(<<Tok("body")>>)
      \/ \E c \in r.have \cup {None} : s = Raw(<<Shows("commit", c)>>)
  BY HaveIsShown DEF SnapshotPage
<1> QED
  BY <1>1, <1>2, <1>3, ErrorIsPage

\* Pages that walk the revisions are pages wherever the walk dies.
LEMMA WalkPages ==
    ASSUME NEW r, NEW T, Neither \subseteq T, NEW s, Page(s, T), NEW start,
           start \in Seq(Neither), start # <<>>, start[1] = Tok("header"),
           NEW w \in Walk(r, s, start)
    PROVE  Page(w, T)
<1>1. <<Tok("die")>> \in Seq(Neither)
  BY TokType DEF TokenName, First, Second
<1>2. Page(start \o <<Tok("die")>>, Neither)
  BY <1>1 DEF Page
<1> QED
  BY <1>2, PageOfMore DEF Walk

\* Pages that show a log: in the layout, with the refs before or after it, or as it is
LEMMA LogPages ==
    ASSUME NEW r, r.have \subseteq Object, NEW n
    PROVE  LET l == Shows("log", CommitOf(r, n))
           IN  /\ Page(Layout(<<l>>), NoCommit)
               /\ Page(Layout(<<l, Tok("refs")>>), NoCommit)
               /\ Page(Layout(<<Tok("refs"), l>>), NoCommit)
               /\ Page(Raw(<<l>>), NoCommit)
<1> DEFINE l == Shows("log", CommitOf(r, n))
<1>1. CommitOf(r, n) \in Shown
  BY HaveIsShown DEF Shown, CommitOf
<1>2. l \in NoCommit /\ Neither \subseteq NoCommit
  BY <1>1, ShowsType DEF Neither, Second
<1>3. Tok("refs") \in NoCommit
  BY <1>2, TokType DEF TokenName, First, Second
<1> HIDE DEF l
<1>4. /\ <<l>> \in Seq(NoCommit) /\ <<l, Tok("refs")>> \in Seq(NoCommit)
      /\ <<Tok("refs"), l>> \in Seq(NoCommit)
  BY <1>2, <1>3
<1>5. /\ Page(Layout(<<l>>), NoCommit) /\ Page(Layout(<<l, Tok("refs")>>), NoCommit)
      /\ Page(Layout(<<Tok("refs"), l>>), NoCommit) /\ Page(Raw(<<l>>), NoCommit)
  BY <1>2, <1>4, LayoutIsPage, RawIsPage
<1> QED
  BY <1>5 DEF l

\* ... or what a search finds
LEMMA SearchPages ==
    ASSUME NEW r, r.have \subseteq Object, NEW h, NEW s \in SearchPage(r, h)
    PROVE  Page(s, Neither)
<1> DEFINE c == CommitOf(r, h)
           x == IF c = None THEN Tok("error") ELSE Shows("tree", c)
<1>1. c \in Shown
  BY HaveIsShown DEF Shown, CommitOf
<1>2. x \in Neither /\ Tok("body") \in Neither
  BY <1>1, TokType, ShowsType DEF TokenName, First, Second
<1>3. s \in {Layout(<<Tok("body")>>), Layout(<<Tok("body"), x>>)}
  BY DEF SearchPage
<1> HIDE DEF x
<1>4. <<Tok("body"), x>> \in Seq(Neither) /\ <<Tok("body")>> \in Seq(Neither)
  BY <1>2
<1> QED
  BY <1>3, <1>4, LayoutIsPage

\* Whatever the command, its response is a page, a redirect or nothing but git's
\* death; and a page that shows a commit shows no diff of its own.
LEMMA ResponsePages ==
    ASSUME NEW r, r.have \subseteq Object, NEW q \in Query, NEW h,
           CommandOf(q) \in Command, NEW s \in Responses(r, q, h)
    PROVE  Response(s, NoDiff) \/ Response(s, NoCommit)
<1> DEFINE page == CommandOf(q)
<1> USE DEF Response
<1>1. \A u : Page(u, Neither) => Page(u, NoDiff)
  BY PageOfMore DEF Neither
<1>2. q.path \in Path \cup {None}
  BY DEF Query
<1>3. \A k \in {"body", "error", "refs"} :
          Page(Layout(<<Tok(k)>>), NoDiff) /\ Page(Raw(<<Tok(k)>>), NoDiff)
  BY <1>1, NoObject
<1>4. /\ <<Tok("header"), Tok("open")>> \in Seq(Neither)
      /\ <<Tok("header")>> \in Seq(Neither)
  BY TokType DEF TokenName, First, Second
<1>5. ASSUME NEW n, NEW p \in {Layout(<<Shows("log", CommitOf(r, n))>>),
                              Layout(<<Shows("log", CommitOf(r, n)), Tok("refs")>>),
                              Layout(<<Tok("refs"), Shows("log", CommitOf(r, n))>>),
                              Raw(<<Shows("log", CommitOf(r, n))>>)},
             NEW start \in {<<Tok("header"), Tok("open")>>, <<Tok("header")>>},
             NEW w \in Walk(r, p, start)
      PROVE  Page(w, NoCommit)
  <2>1. Page(p, NoCommit) /\ Neither \subseteq NoCommit
    BY LogPages DEF Neither
  <2> QED
    BY <1>4, <2>1, WalkPages
<1>6. CASE page = "commit"
  BY <1>6, CommitPages DEF Responses, IsClone
<1>7. CASE page = "compare"
  BY <1>7, ComparePages DEF Responses, IsClone
<1>8. CASE page \in {"diff", "rawdiff"}
  BY <1>8, DiffPages, ErrorIsPage DEF Responses, IsClone
<1>9. CASE page = "patch"
  BY <1>9, PatchPages DEF Responses, IsClone
<1>10. CASE page = "tag"
  BY <1>1, <1>10, TagPages DEF Responses, IsClone
<1>11. CASE page = "tree"
  BY <1>1, <1>2, <1>11, TreePages DEF Responses, IsClone
<1>12. CASE page = "plain"
  BY <1>1, <1>2, <1>12, PlainPages DEF Responses, IsClone
<1>13. CASE page = "blame"
  BY <1>1, <1>2, <1>13, BlamePages DEF Responses, IsClone
<1>14. CASE page = "blob"
  BY <1>1, <1>14, BlobPages DEF Responses, IsClone
<1>15. CASE page = "snapshot"
  BY <1>15, SnapshotPages DEF Responses, IsClone
<1>16. CASE page = "about"
  <2>1. s \in AboutPage(r, q, h)
    BY <1>16 DEF Responses, IsClone
  <2> QED
    BY <2>1, <1>1, <1>2, <1>3, PlainPages DEF AboutPage, ReadmePage
<1>17. CASE page \in {"repolist", "refs", "ls_cache"}
  BY <1>3, <1>17, ErrorIsPage DEF Responses, IsClone, RepolistPage, RefsPage, ErrorPage
<1>18. CASE page \in {"log", "summary", "stats"}
  <2>1. \/ s \in LogPage(r, q, h) \/ s \in SummaryPage(r, h) \/ s \in StatsPage(r, h)
    BY <1>18 DEF Responses, IsClone
  <2>2. CASE s \in LogPage(r, q, h)
    BY <1>5, <2>2 DEF LogPage
  <2>3. CASE s \in SummaryPage(r, h)
    BY <1>5, <2>3 DEF SummaryPage
  <2>4. CASE s \in StatsPage(r, h)
    BY <1>5, <2>4, ErrorIsPage DEF StatsPage
  <2> QED
    BY <2>1, <2>2, <2>3, <2>4
<1>21. CASE page = "search"
  BY <1>1, <1>21, SearchPages DEF Responses, IsClone
<1>19. CASE page = "atom"
  <2>1. s \in AtomPage(r, h)
    BY <1>19 DEF Responses, IsClone
  <2> QED
    BY <2>1, <1>5 DEF AtomPage
<1>20. CASE page \in IsClone
  BY <1>3, <1>20, ErrorIsPage DEF Responses, IsClone, ClonePage, ErrorPage
<1> QED
  BY <1>6, <1>7, <1>8, <1>9, <1>10, <1>11, <1>12, <1>13, <1>14, <1>15, <1>16, <1>17,
     <1>18, <1>19, <1>20, <1>21 DEF Command, IsClone

\* A page that goes on with a diff has shown its commit, or the statistics.
LEMMA PagesBeforeDiff ==
    ASSUME NEW r, r.have \subseteq Object, NEW q \in Query, NEW h,
           NEW s \in Responses(r, q, h), DiffBelow(r, q, h) # None
    PROVE  /\ Page(s, NoDiff)
           /\ \/ /\ q.page = "commit"
                 /\ CommitOf(r, Rev(q, h)) # None
                 /\ s = <<Tok("header"), Tok("open"), Shows("commit", CommitOf(r, Rev(q, h))),
                           Tok("refs")>>
              \/ /\ q.page = "compare"
                 /\ Comparable(r, q)
                 /\ s = <<Tok("header"), Tok("open"), Tok("refs"),
                           Shows("stat", CommitOf(r, q.id2))>>
<1>1. CASE q.page = "commit"
  <2>1. s = CommitStart(r, q, h)
    BY <1>1 DEF Responses, CommandOf, IsClone
  <2>2. /\ CommitAt(r, Resolve(r, Rev(q, h))) # None
        /\ Cardinality(ReadParents(r, CommitAt(r, Resolve(r, Rev(q, h))))) < 3
    BY <1>1 DEF DiffBelow
  <2>3. ~(Cardinality(ReadParents(r, CommitAt(r, Resolve(r, Rev(q, h))))) > 2)
    BY <2>2, ParentsCounted
  <2> QED
    BY <1>1, <2>1, <2>2, <2>3, CommitPages DEF CommitOf
<1>2. CASE q.page = "compare"
  <2>1. s = CompareStart(r, q) /\ Comparable(r, q)
    BY <1>2 DEF Responses, CommandOf, IsClone, DiffBelow
  <2> QED
    BY <1>2, <2>1, ComparePages
<1> QED
  BY <1>1, <1>2 DEF DiffBelow
-----------------------------------------------------------------------------
(* What has been printed *)

\* What is printed of two sequences is what is printed of each, ...
LEMMA TokensOfBoth ==
    ASSUME NEW T, NEW s \in Seq(T), NEW u \in Seq(T), NEW N
    PROVE  TokensOf(s \o u, N) = TokensOf(s, N) \cup TokensOf(u, N)
<1>1. \A i \in DOMAIN s : i \in DOMAIN (s \o u) /\ (s \o u)[i] = s[i]
  OBVIOUS
<1>2. \A i \in DOMAIN u : Len(s) + i \in DOMAIN (s \o u) /\ (s \o u)[Len(s) + i] = u[i]
  OBVIOUS
<1>3. ASSUME NEW k \in DOMAIN (s \o u)
      PROVE  \/ k \in DOMAIN s /\ (s \o u)[k] = s[k]
             \/ k - Len(s) \in DOMAIN u /\ (s \o u)[k] = u[k - Len(s)]
  OBVIOUS
<1>4. TokensOf(s, N) \subseteq TokensOf(s \o u, N)
  BY <1>1 DEF TokensOf
<1>5. TokensOf(u, N) \subseteq TokensOf(s \o u, N)
  <2> SUFFICES ASSUME NEW i \in DOMAIN u, u[i].t \in N
               PROVE  u[i] \in TokensOf(s \o u, N)
    BY DEF TokensOf
  <2> QED
    BY <1>2, Zenon DEF TokensOf
<1>6. TokensOf(s \o u, N) \subseteq TokensOf(s, N) \cup TokensOf(u, N)
  BY <1>3, Zenon DEF TokensOf
<1> QED
  BY <1>4, <1>5, <1>6

\* ... what is printed of a part is part of the whole, ...
LEMMA TokensOfPart ==
    ASSUME NEW T, NEW s \in Seq(T), NEW i \in DOMAIN s, NEW N
    PROVE  SubSeq(s, 1, i) \in Seq(T) /\ TokensOf(SubSeq(s, 1, i), N) \subseteq TokensOf(s, N)
<1>1. /\ SubSeq(s, 1, i) \in Seq(T) /\ DOMAIN SubSeq(s, 1, i) = 1 .. i
      /\ \A k \in 1 .. i : k \in DOMAIN s /\ SubSeq(s, 1, i)[k] = s[k]
  OBVIOUS
<1> QED
  BY <1>1, Zenon DEF TokensOf

\* ... and tokens of other names are none of these.
LEMMA TokensOfOther ==
    ASSUME NEW T, NEW s \in Seq(T), NEW N, \A x \in T : x.t \notin N
    PROVE  TokensOf(s, N) = {}
<1>1. \A i \in DOMAIN s : s[i] \in T
  OBVIOUS
<1> QED
  BY <1>1 DEF TokensOf

\* The object that another one leads to: a tag to what it is about
Peel(o) == IF Kind[o] = "tag" THEN Tagged[o] ELSE o

\* What cgit_print_commit and cgit_print_compare go on with: a list of commits, or
\* none, and a diff
Lists(r, q) == IF q.page = "compare" THEN CompareList(r, q) ELSE {<<>>}
Rest(r, q, list, d) ==
    list \o Diff(r, d.new, d.old, FALSE, FALSE, q.statonly) \o <<Tok("close")>>

LEMMA SecondHalvesAre ==
    \A d : SecondHalves(d) = {Rest(repo, query, list, d) : list \in Lists(repo, query)}
  BY DEF SecondHalves, Rest, Lists

\* The list is about the commit that the second name leads to.
LEMMA ListTokens ==
    ASSUME NEW r, r.have \subseteq Object, NEW q, NEW list \in Lists(r, q)
    PROVE  /\ list \in Seq(NoCommit)
           /\ TokensOf(list, {"diff"}) = {}
           /\ \A y \in TokensOf(list, {"log"}) :
                 q.page = "compare" /\ Comparable(r, q) /\ y.of = CommitOf(r, q.id2)
<1> DEFINE l == Shows("log", CommitOf(r, q.id2))
<1>1. l \in NoCommit /\ Neither \subseteq NoCommit
  <2>1. CommitOf(r, q.id2) \in Shown
    BY HaveIsShown DEF Shown, CommitOf
  <2> QED
    BY <2>1, ShowsType DEF Neither, Second
<1>2. {Tok("refs"), Tok("error"), Tok("die")} \subseteq NoCommit
  BY <1>1, TokType DEF TokenName, First, Second
<1>3. \/ list = <<l, Tok("refs")>> /\ q.page = "compare" /\ Comparable(r, q)
      \/ list = <<>> \/ list = <<Tok("error")>> \/ list = <<Tok("die")>>
  BY DEF Lists, CompareList
<1>4. l.t = "log" /\ l.of = CommitOf(r, q.id2)
  BY DEF Shows
<1> HIDE DEF l
<1>5. CASE list = <<l, Tok("refs")>> /\ q.page = "compare" /\ Comparable(r, q)
  <2>1. list \in Seq(NoCommit)
    BY <1>1, <1>2, <1>5
  <2>2. \A i \in DOMAIN list : list[i] \in {l, Tok("refs")}
    BY <1>5
  <2> QED
    BY <1>4, <1>5, <2>1, <2>2 DEF TokensOf, Tok
<1>6. CASE list = <<>> \/ list = <<Tok("error")>> \/ list = <<Tok("die")>>
  <2>1. list \in Seq(NoCommit)
    <3>1. <<>> \in Seq(NoCommit) /\ <<Tok("error")>> \in Seq(NoCommit)
      BY <1>2
    <3>2. <<Tok("die")>> \in Seq(NoCommit)
      BY <1>2
    <3> QED
      BY <1>6, <3>1, <3>2
  <2>2. \A i \in DOMAIN list : list[i] \in {Tok("error"), Tok("die")}
    BY <1>6
  <2> QED
    BY <2>1, <2>2 DEF TokensOf, Tok
<1> QED
  BY <1>3, <1>5, <1>6

\* The diff is the one of the commit that the revision leads to.
LEMMA DiffTokens ==
    ASSUME NEW r, r.have \subseteq Object, NEW new, NEW old, NEW statonly, NEW d,
           d = Diff(r, new, old, FALSE, FALSE, statonly)
    PROVE  /\ d \in Seq(NoCommit)
           /\ TokensOf(d, {"log"}) = {}
           /\ \A y \in TokensOf(d, {"diff"}) :
                 Resolve(r, new) # None /\ y.of = Peel(Resolve(r, new))
<1> DEFINE c == CommitAt(r, Resolve(r, new))
<1>1. d = ErrorPage \/ (c \in Shown \ {None} /\ d = <<Shows("diff", c)>>)
  BY DiffPages
<1>2. c # None => Resolve(r, new) # None /\ c = Peel(Resolve(r, new))
  BY DEF CommitAt, Peel
<1>3. c \in Shown => Shows("diff", c) \in NoCommit
  BY ShowsType DEF Second
<1>4. ErrorPage \in Seq(Neither) /\ ErrorPage \in Seq(NoCommit)
  BY ErrorIsPage DEF Page
<1>5. TokensOf(ErrorPage, {"diff"}) = {} /\ TokensOf(ErrorPage, {"log"}) = {}
  BY <1>4, TokensOfOther DEF Neither, NoDiff, Second
<1>6. Shows("diff", c).t = "diff" /\ Shows("diff", c).of = c
  BY DEF Shows
<1> DEFINE x == Shows("diff", c)
<1> HIDE DEF c
<1>7. CASE d = ErrorPage
  BY <1>4, <1>5, <1>7
<1>8. CASE c \in Shown \ {None} /\ d = <<x>>
  <2>1. x \in NoCommit /\ x.t = "diff" /\ x.of = c
    BY <1>3, <1>6, <1>8
  <2> HIDE DEF x
  <2>3. <<x>> \in Seq(NoCommit) /\ \A i \in DOMAIN <<x>> : <<x>>[i] = x
    BY <2>1
  <2>2. d \in Seq(NoCommit) /\ \A i \in DOMAIN d : d[i] = x
    BY <1>8, <2>3, Zenon
  <2> QED
    BY <1>2, <1>8, <2>1, <2>2 DEF TokensOf, c
<1> QED
  BY <1>1, <1>7, <1>8

\* Together they show no commit.
LEMMA RestTokens ==
    ASSUME NEW r, r.have \subseteq Object, NEW q, NEW list \in Lists(r, q), NEW d, NEW s,
           s = Rest(r, q, list, d)
    PROVE  /\ s \in Seq(NoCommit) /\ Len(s) > 0
           /\ \A y \in TokensOf(s, {"diff"}) :
                 Resolve(r, d.new) # None /\ y.of = Peel(Resolve(r, d.new))
           /\ \A y \in TokensOf(s, {"log"}) :
                 q.page = "compare" /\ Comparable(r, q) /\ y.of = CommitOf(r, q.id2)
<1> DEFINE e == <<Tok("close")>>
<1>0. PICK u, new, old, stat :
          /\ u = Diff(r, new, old, FALSE, FALSE, stat)
          /\ new = d.new /\ old = d.old /\ stat = q.statonly
  OBVIOUS
<1>1. /\ u \in Seq(NoCommit)
      /\ TokensOf(u, {"log"}) = {}
      /\ \A y \in TokensOf(u, {"diff"}) :
            Resolve(r, d.new) # None /\ y.of = Peel(Resolve(r, d.new))
  <2>1. u = Diff(r, new, old, FALSE, FALSE, stat)
    BY <1>0
  <2>2. /\ u \in Seq(NoCommit)
        /\ TokensOf(u, {"log"}) = {}
        /\ \A y \in TokensOf(u, {"diff"}) :
              Resolve(r, new) # None /\ y.of = Peel(Resolve(r, new))
    BY <2>1, DiffTokens
  <2> QED
    BY <1>0, <2>2
<1>2. e \in Seq(NoCommit) /\ \A N : N \in {{"diff"}, {"log"}} => TokensOf(e, N) = {}
  <2>1. Tok("close") \in NoCommit
    BY TokType DEF TokenName, Neither, First, Second
  <2>2. \A i \in DOMAIN e : e[i].t = "close"
    BY DEF Tok
  <2> QED
    BY <2>1, <2>2 DEF TokensOf
<1>3. /\ list \in Seq(NoCommit)
      /\ TokensOf(list, {"diff"}) = {}
      /\ \A y \in TokensOf(list, {"log"}) :
            q.page = "compare" /\ Comparable(r, q) /\ y.of = CommitOf(r, q.id2)
  BY ListTokens
<1>4. PICK v : v = list \o u
  OBVIOUS
<1>10. s = v \o e
  BY <1>0, <1>4 DEF Rest
<1>5. Len(e) = 1
  OBVIOUS
<1> HIDE DEF e
<1>6. v \in Seq(NoCommit)
  BY <1>1, <1>3, <1>4
<1>7. s \in Seq(NoCommit) /\ Len(s) > 0
  BY <1>2, <1>10, <1>5, <1>6
<1>8. ASSUME NEW N
      PROVE  TokensOf(s, N) = TokensOf(list, N) \cup TokensOf(u, N) \cup TokensOf(e, N)
  <2>1. TokensOf(v, N) = TokensOf(list, N) \cup TokensOf(u, N)
    BY <1>1, <1>3, <1>4, TokensOfBoth
  <2>2. TokensOf(s, N) = TokensOf(v, N) \cup TokensOf(e, N)
    BY <1>2, <1>6, <1>10, TokensOfBoth
  <2> QED
    BY <2>1, <2>2
<1>9. /\ TokensOf(s, {"diff"}) = TokensOf(u, {"diff"})
      /\ TokensOf(s, {"log"}) = TokensOf(list, {"log"})
  BY <1>1, <1>2, <1>3, <1>8
<1> QED
  BY <1>1, <1>3, <1>7, <1>9

\* Pages consist of tokens.
LEMMA PagesAreTokens ==
    /\ Neither \subseteq Token /\ NoDiff \subseteq Token /\ NoCommit \subseteq Token
    /\ \A s, T : T \subseteq Token /\ Response(s, T) => s \in Seq(Token)
<1>1. Neither \subseteq Token /\ NoDiff \subseteq Token /\ NoCommit \subseteq Token
  BY DEF Neither, NoDiff, NoCommit, PageToken, Token, Shown
<1>2. Tok("redirect") \in Token /\ Tok("die") \in Token
  BY <1>1, TokType DEF TokenName, First, Second
<1>3. <<Tok("redirect")>> \in Seq(Token) /\ <<Tok("die")>> \in Seq(Token)
  BY <1>2
<1>4. ASSUME NEW s, NEW T, T \subseteq Token, Response(s, T)
      PROVE  s \in Seq(Token)
  <2>1. CASE Page(s, T)
    BY <1>4, <2>1, PageOfMore DEF Page
  <2> QED
    BY <1>3, <1>4, <2>1 DEF Response
<1> QED
  BY <1>1, <1>4

\* Prints either prints all and goes on, and then there was nothing at which the
\* process exits, or it stops within; a HEAD request stops after the header.
LEMMA PrintsWhat ==
    ASSUME out \in Seq(Token), NEW s \in Seq(Token), NEW next, Prints(s, next)
    PROVE  /\ out' \in Seq(Token)
           /\ \A N : TokensOf(out', N) \subseteq TokensOf(out, N) \cup TokensOf(s, N)
           /\ \/ pc' = "exited"
              \/ pc' = next /\ out' = out \o s /\ TokensOf(s, {"die"}) = {}
           /\ method = "HEAD" /\ s # <<>> /\ s[1] = Tok("header") =>
                  pc' = "exited" /\ out' = out \o <<Tok("header")>>
<1>1. CASE ExitsAt(s) = {} /\ out' = out \o s /\ pc' = next
  <2>1. TokensOf(s, {"die"}) = {}
    BY <1>1 DEF ExitsAt, TokensOf
  <2>2. ~(method = "HEAD" /\ s # <<>> /\ s[1] = Tok("header"))
    <3>1. s # <<>> => 1 \in DOMAIN s
      OBVIOUS
    <3> QED
      BY <1>1, <3>1 DEF ExitsAt, Tok
  <2>3. ASSUME NEW N
        PROVE  TokensOf(out', N) \subseteq TokensOf(out, N) \cup TokensOf(s, N)
    BY <1>1, TokensOfBoth
  <2> QED
    BY <1>1, <2>1, <2>2, <2>3
<1>2. ASSUME NEW i \in ExitsAt(s), \A j \in ExitsAt(s) : i <= j,
             out' = out \o SubSeq(s, 1, i), pc' = "exited"
      PROVE  /\ out' \in Seq(Token)
             /\ \A N : TokensOf(out', N) \subseteq TokensOf(out, N) \cup TokensOf(s, N)
             /\ method = "HEAD" /\ s # <<>> /\ s[1] = Tok("header") =>
                    out' = out \o <<Tok("header")>>
  <2>1. i \in DOMAIN s
    BY <1>2 DEF ExitsAt
  <2> DEFINE u == SubSeq(s, 1, i)
  <2>2. /\ u \in Seq(Token) /\ out' = out \o u
        /\ \A N : TokensOf(u, N) \subseteq TokensOf(s, N)
    BY <1>2, <2>1, TokensOfPart
  <2> HIDE DEF u
  <2>3. ASSUME NEW N
        PROVE  TokensOf(out', N) \subseteq TokensOf(out, N) \cup TokensOf(s, N)
    <3>1. TokensOf(out \o u, N) = TokensOf(out, N) \cup TokensOf(u, N)
      BY <2>2, TokensOfBoth
    <3> QED
      BY <2>2, <3>1
  <2>5. out' \in Seq(Token)
    BY <2>2
  <2>4. ASSUME method = "HEAD", s # <<>>, s[1] = Tok("header")
        PROVE  out' = out \o <<Tok("header")>>
    <3>1. 1 \in ExitsAt(s)
      <4>1. 1 \in DOMAIN s
        BY <2>4
      <4> QED
        BY <2>4, <4>1 DEF ExitsAt, Tok
    <3>2. i = 1
      BY <1>2, <2>1, <3>1
    <3>3. Len(u) = 1 /\ u[1] = Tok("header")
      BY <2>1, <2>4, <3>2 DEF u
    <3>4. u = <<Tok("header")>>
      BY <2>2, <3>3
    <3> QED
      BY <2>2, <3>4
  <2> QED
    BY <2>3, <2>4, <2>5
<1> QED
  BY <1>1, <1>2 DEF Prints
-----------------------------------------------------------------------------
(* What is told of the refs *)

\* u is s but for that
SameButRefs(u, s) ==
    /\ u \in Seq(Token) /\ s \in Seq(Token) /\ Len(u) = Len(s)
    /\ \A i \in DOMAIN s : u[i].t = s[i].t /\ (s[i].t \notin RefsShown => u[i] = s[i])

LEMMA SameAsItself == \A s \in Seq(Token) : SameButRefs(s, s)
  BY DEF SameButRefs

LEMMA PrintedIsSame ==
    ASSUME repo.refs \in [Ref -> Object \cup {None}], NEW s \in Seq(Token)
    PROVE  SameButRefs(Printed(s), s)
<1>1. \A t \in TokenName : Shows(t, repo.refs) \in Token
  BY DEF Shows, Token
<1>2. ASSUME NEW i \in DOMAIN s
      PROVE  /\ Printed(s)[i] \in Token /\ Printed(s)[i].t = s[i].t
             /\ s[i].t \notin RefsShown => Printed(s)[i] = s[i]
  <2>1. s[i] \in Token
    OBVIOUS
  <2>3. s[i].t \in TokenName
    BY <2>1 DEF Token
  <2> QED
    BY <1>1, <2>1, <2>3 DEF Printed, Shows
<1>3. DOMAIN s = 1 .. Len(s) /\ Len(s) \in Nat /\ DOMAIN Printed(s) = DOMAIN s
  BY DEF Printed
<1>4. Printed(s) = [i \in 1 .. Len(s) |-> Printed(s)[i]]
  BY <1>3 DEF Printed
<1>5. Printed(s) \in Seq(Token) /\ Len(Printed(s)) = Len(s)
  BY <1>2, <1>3, <1>4
<1> QED
  BY <1>2, <1>5 DEF SameButRefs

\* Such sequences show the same of everything else.
LEMMA TokensOfSame ==
    ASSUME NEW u, NEW s, SameButRefs(u, s), NEW N, N \cap RefsShown = {}
    PROVE  TokensOf(u, N) = TokensOf(s, N)
<1>1. DOMAIN u = DOMAIN s
  BY DEF SameButRefs
<1>2. \A i \in DOMAIN s : u[i].t = s[i].t /\ (s[i].t \in N => u[i] = s[i])
  BY DEF SameButRefs
<1>3. \A i \in DOMAIN s : u[i].t \in N \/ s[i].t \in N => u[i] = s[i]
  BY <1>2
<1> QED
  BY <1>1, <1>3 DEF TokensOf

\* What is told of the refs can be left out before or after two parts of a page are
\* put together.
LEMMA ButRefsIs ==
    ASSUME NEW s \in Seq(Token)
    PROVE  SameButRefs(ButRefs(s), s)
<1>1. \A t \in TokenName : Tok(t) \in Token
  BY DEF Tok, Token
<1>2. ASSUME NEW i \in DOMAIN s
      PROVE  /\ ButRefs(s)[i] \in Token /\ ButRefs(s)[i].t = s[i].t
             /\ s[i].t \notin RefsShown => ButRefs(s)[i] = s[i]
  <2>1. s[i] \in Token
    OBVIOUS
  <2>3. s[i].t \in TokenName
    BY <2>1 DEF Token
  <2> QED
    BY <1>1, <2>1, <2>3 DEF ButRefs, Tok
<1>3. DOMAIN s = 1 .. Len(s) /\ Len(s) \in Nat /\ DOMAIN ButRefs(s) = DOMAIN s
  BY DEF ButRefs
<1>4. ButRefs(s) = [i \in 1 .. Len(s) |-> ButRefs(s)[i]]
  BY <1>3 DEF ButRefs
<1>5. ButRefs(s) \in Seq(Token) /\ Len(ButRefs(s)) = Len(s)
  BY <1>2, <1>3, <1>4
<1> QED
  BY <1>2, <1>5 DEF SameButRefs

LEMMA ButRefsBoth ==
    ASSUME NEW s \in Seq(Token), NEW u \in Seq(Token)
    PROVE  ButRefs(s \o u) = ButRefs(s) \o ButRefs(u)
<1>1. /\ ButRefs(s) \in Seq(Token) /\ Len(ButRefs(s)) = Len(s)
      /\ ButRefs(u) \in Seq(Token) /\ Len(ButRefs(u)) = Len(u)
      /\ ButRefs(s \o u) \in Seq(Token) /\ Len(ButRefs(s \o u)) = Len(s) + Len(u)
  <2>1. s \o u \in Seq(Token) /\ Len(s \o u) = Len(s) + Len(u)
    OBVIOUS
  <2> QED
    BY <2>1, ButRefsIs DEF SameButRefs
<1>2. ASSUME NEW i \in 1 .. Len(s) + Len(u)
      PROVE  ButRefs(s \o u)[i] = (ButRefs(s) \o ButRefs(u))[i]
  <2>1. i \in DOMAIN (s \o u)
    BY <1>2
  <2>2. CASE i \in DOMAIN s
    <3>1. (s \o u)[i] = s[i] /\ (ButRefs(s) \o ButRefs(u))[i] = ButRefs(s)[i]
      BY <1>1, <2>2
    <3> QED
      BY <2>1, <2>2, <3>1 DEF ButRefs
  <2>3. CASE i \notin DOMAIN s
    <3>1. /\ i - Len(s) \in DOMAIN u /\ (s \o u)[i] = u[i - Len(s)]
          /\ (ButRefs(s) \o ButRefs(u))[i] = ButRefs(u)[i - Len(s)]
      BY <1>1, <1>2, <2>3
    <3> QED
      BY <2>1, <3>1 DEF ButRefs
  <2> QED
    BY <2>2, <2>3
<1> DEFINE a == ButRefs(s)  b == ButRefs(u)  c == ButRefs(s \o u)
<1>3. /\ a \in Seq(Token) /\ Len(a) = Len(s) /\ b \in Seq(Token) /\ Len(b) = Len(u)
      /\ c \in Seq(Token) /\ Len(c) = Len(s) + Len(u)
      /\ \A i \in 1 .. Len(s) + Len(u) : c[i] = (a \o b)[i]
  BY <1>1, <1>2
<1> HIDE DEF a, b, c
<1>4. a \o b \in Seq(Token) /\ Len(a \o b) = Len(s) + Len(u)
  BY <1>3
<1>5. c = a \o b
  BY <1>3, <1>4
<1> QED
  BY <1>5 DEF a, b, c

\* A bare sequence that has been printed is the bare one again.
LEMMA ButRefsOfSame ==
    ASSUME NEW s \in Seq(PageToken), NEW u, SameButRefs(u, s)
    PROVE  ButRefs(u) = s
<1>1. /\ u \in Seq(Token) /\ s \in Seq(Token) /\ Len(u) = Len(s)
      /\ \A i \in DOMAIN s : u[i].t = s[i].t /\ (s[i].t \notin RefsShown => u[i] = s[i])
  BY DEF SameButRefs
<1>2. ASSUME NEW i \in 1 .. Len(s)
      PROVE  ButRefs(u)[i] = s[i]
  <2>1. /\ s[i] \in [t : TokenName \ {"login"}, of : Shown]
        /\ s[i].t \in RefsShown => s[i].of = None
    BY DEF PageToken
  <2>2. s[i].t \in RefsShown => s[i] = Tok(s[i].t)
    BY <2>1 DEF Tok
  <2> QED
    BY <1>1, <2>2 DEF ButRefs
<1>3. ButRefs(u) \in Seq(Token) /\ Len(ButRefs(u)) = Len(s)
  BY <1>1, ButRefsIs DEF SameButRefs
<1> DEFINE b == ButRefs(u)
<1>4. b \in Seq(Token) /\ Len(b) = Len(s) /\ \A i \in 1 .. Len(s) : b[i] = s[i]
  BY <1>2, <1>3
<1> HIDE DEF b
<1>5. b = s
  BY <1>1, <1>4
<1> QED
  BY <1>5 DEF b
-----------------------------------------------------------------------------
(* Pages in the cache, and HEAD requests *)

RepoType == repo \in [git : BOOLEAN, refs : [Ref -> Object \cup {None}],
                      lost : SUBSET Object, have : SUBSET Object]

CachedType == cached = None \/ cached \in [out : Seq(Token), old : BOOLEAN,
                                           moved : BOOLEAN, gone : BOOLEAN]

\* What the cache may hold, and what a HEAD request may get
WholePage(s) == TokensOf(s, {"login", "die"}) = {} /\ (Len(s) > 1 \/ s = <<Tok("redirect")>>)
OnlyHeader(s) == TokensOf(s, TokenName \ {"header", "redirect", "die"}) = {}

\* While the process goes on, what it has printed for somebody who is let in is
\* the beginning of a whole page; and the process of a HEAD request does not go
\* on after the header, nor is its stdout the lock file.
PageInv ==
    /\ RepoType
    /\ CachedType
    /\ query \in Query
    /\ moved \in BOOLEAN /\ gone \in BOOLEAN
    /\ LoginInv
    /\ out \in Seq(Token)
    /\ pc = "command" => out = <<>> /\ CommandOf(query) \in Command
    /\ pc \in {"below", "finish"} /\ authenticated => WholePage(out)
    /\ caching => method # "HEAD"
    /\ method = "HEAD" => pc # "below" /\ OnlyHeader(out)
    /\ LoginNeverCached
    /\ HeadHasNoBody

\* The repository keeps its type.
LEMMA RepoInit == Init => RepoType /\ query \in Query
<1> SUFFICES ASSUME Init PROVE RepoType /\ query \in Query
  OBVIOUS
<1>1. ASSUME NEW refs \in [Ref -> Object \cup {None}]
      PROVE  Complete(refs) \in [git : BOOLEAN, refs : [Ref -> Object \cup {None}],
                                lost : SUBSET Object, have : SUBSET Object]
  BY RepoAssumption DEF Complete
<1>2. NoRefs \in [Ref -> Object \cup {None}]
  BY DEF NoRefs
<1>3. query \in Query
  BY QueryAssumption DEF Init
<1> QED
  BY <1>1, <1>2, <1>3, RepoAssumption DEF Init, RepoType

LEMMA RepoStep ==
    ASSUME RepoType, Environment
    PROVE  RepoType'
<1> USE RepoAssumption DEF RepoType
<1>1. ASSUME NEW n \in Ref, DeleteRef(n)
      PROVE  RepoType'
  BY <1>1 DEF DeleteRef
<1>2. ASSUME NEW n \in Ref, NEW o \in Target[n], Push(n, o)
      PROVE  RepoType'
  BY <1>2 DEF Push
<1>3. ASSUME NEW o \in Fragile, Lose(o)
      PROVE  RepoType'
  BY <1>3 DEF Lose
<1>4. ASSUME Expire
      PROVE  RepoType'
  BY <1>4 DEF Expire, world
<1> QED
  BY <1>1, <1>2, <1>3, <1>4 DEF Environment

\* The environment prints nothing and answers nobody.
LEMMA EnvironmentFrame ==
    ASSUME PageInv, Environment
    PROVE  /\ UNCHANGED <<query, pc, method, authenticated, caching, head, below, out, answer>>
           /\ moved' \in BOOLEAN /\ gone' \in BOOLEAN
           /\ CachedType' /\ LoginNeverCached'
           /\ cached' # None => cached # None /\ cached'.out = cached.out
                                /\ cached'.moved = cached.moved
<1>1. ASSUME Change, cached' = cached
      PROVE  CachedType' /\ LoginNeverCached'
  BY <1>1 DEF PageInv, CachedType, LoginNeverCached
<1>2. CASE Expire
  <2>1. cached # None /\ cached' = [cached EXCEPT !.old = TRUE]
    BY <1>2 DEF Expire
  <2>2. /\ cached' \in [out : Seq(Token), old : BOOLEAN, moved : BOOLEAN, gone : BOOLEAN]
        /\ cached'.out = cached.out /\ cached'.moved = cached.moved
    BY <2>1 DEF PageInv, CachedType
  <2>3. CachedType' /\ LoginNeverCached'
    BY <2>1, <2>2 DEF PageInv, CachedType, LoginNeverCached
  <2> QED
    BY <1>2, <2>1, <2>2, <2>3 DEF Expire, world, request, PageInv
<1>3. CASE ~Expire
  BY <1>1, <1>3 DEF Environment, DeleteRef, Push, Lose, Change, PageInv
<1> QED
  BY <1>2, <1>3

\* A page that is whole is, whatever it tells of the refs.
LEMMA WholeSame ==
    ASSUME NEW s, NEW u, SameButRefs(u, s), WholePage(s)
    PROVE  WholePage(u)
<1>1. {"login", "die"} \cap RefsShown = {}
  BY DEF RefsShown
<1>2. TokensOf(u, {"login", "die"}) = {}
  BY <1>1, TokensOfSame DEF WholePage
<1>3. ASSUME s = <<Tok("redirect")>>
      PROVE  u = <<Tok("redirect")>>
  <2>1. 1 \in DOMAIN s /\ s[1] = Tok("redirect") /\ s[1].t \notin RefsShown /\ Len(s) = 1
    BY <1>3 DEF Tok, RefsShown
  <2> QED
    BY <2>1 DEF SameButRefs
<1> QED
  BY <1>2, <1>3 DEF WholePage, SameButRefs

LEMMA WholePages ==
    ASSUME NEW T, T \subseteq PageToken, NEW s, Response(s, T), TokensOf(s, {"die"}) = {}
    PROVE  WholePage(s)
<1>1. CASE Page(s, T)
  <2>1. s \in Seq(T) /\ \A x \in T : x.t \notin {"login"}
    BY <1>1 DEF Page, PageToken
  <2>2. TokensOf(s, {"login"}) = {}
    BY <2>1, TokensOfOther
  <2>3. TokensOf(s, {"login", "die"}) = {}
    BY <2>2 DEF TokensOf
  <2> QED
    BY <1>1, <2>3 DEF WholePage, Page
<1>2. CASE s = <<Tok("redirect")>>
  <2>1. TokensOf(s, {"login", "die"}) = {}
    BY <1>2 DEF TokensOf, Tok
  <2> QED
    BY <1>2, <2>1 DEF WholePage
<1>3. s # <<Tok("die")>>
  <2>1. Tok("die") \in TokensOf(<<Tok("die")>>, {"die"})
    BY DEF TokensOf, Tok
  <2> QED
    BY <2>1
<1> QED
  BY <1>1, <1>2, <1>3 DEF Response

\* A command's first output, or a whole page without a command
LEMMA FirstOutput ==
    ASSUME out = <<>>, NEW T, T \subseteq Token, NEW s, Response(s, T), NEW u, SameButRefs(u, s),
           NEW next, Prints(u, next), next \in {"finish", "below"}
    PROVE  /\ out' \in Seq(Token)
           /\ T \subseteq PageToken /\ pc' \in {"below", "finish"} => WholePage(out')
           /\ pc' \in {"exited", next}
           /\ method = "HEAD" => OnlyHeader(out') /\ (Page(s, T) => pc' = "exited")
<1>1. u \in Seq(Token) /\ out \in Seq(Token)
  BY DEF SameButRefs
<1>2. /\ out' \in Seq(Token)
      /\ \A N : TokensOf(out', N) \subseteq TokensOf(out, N) \cup TokensOf(u, N)
      /\ \/ pc' = "exited"
         \/ pc' = next /\ out' = out \o u /\ TokensOf(u, {"die"}) = {}
      /\ method = "HEAD" /\ u # <<>> /\ u[1] = Tok("header") =>
             pc' = "exited" /\ out' = out \o <<Tok("header")>>
  BY <1>1, PrintsWhat
<1>3. ASSUME T \subseteq PageToken, pc' \in {"below", "finish"}
      PROVE  WholePage(out')
  <2>1. out' = u /\ TokensOf(u, {"die"}) = {}
    BY <1>1, <1>2, <1>3
  <2>2. TokensOf(s, {"die"}) = {}
    BY <2>1, TokensOfSame DEF RefsShown
  <2> QED
    BY <1>3, <2>1, <2>2, WholePages, WholeSame
<1>4. ASSUME method = "HEAD"
      PROVE  OnlyHeader(out') /\ (Page(s, T) => pc' = "exited")
  <2>1. CASE Page(s, T)
    <3>1. 1 \in DOMAIN s /\ s[1] = Tok("header") /\ s[1].t \notin RefsShown
      BY <2>1 DEF Page, Tok, RefsShown
    <3>2. u # <<>> /\ u[1] = Tok("header")
      BY <2>1, <3>1 DEF SameButRefs, Page
    <3>4. pc' = "exited" /\ out' = out \o <<Tok("header")>>
      BY <1>2, <1>4, <3>2
    <3>5. out' = <<Tok("header")>>
      <4>1. Tok("header") \in Token
        BY DEF Tok, Token, TokenName
      <4> QED
        BY <3>4, <4>1
    <3> QED
      BY <3>4, <3>5 DEF OnlyHeader, TokensOf, Tok
  <2>2. CASE ~Page(s, T)
    <3>1. s \in {<<Tok("redirect")>>, <<Tok("die")>>}
      BY <2>2 DEF Response
    <3>5. Len(s) = 1 /\ 1 \in DOMAIN s /\ s[1].t \in {"redirect", "die"}
      BY <3>1 DEF Tok
    <3>4. DOMAIN u = {1} /\ u[1].t \in {"redirect", "die"}
      BY <3>5 DEF SameButRefs
    <3>2. TokensOf(u, TokenName \ {"header", "redirect", "die"}) = {}
      BY <3>4 DEF TokensOf
    <3>3. TokensOf(out, TokenName \ {"header", "redirect", "die"}) = {}
      BY DEF TokensOf
    <3> QED
      BY <1>2, <2>2, <3>2, <3>3 DEF OnlyHeader
  <2> QED
    BY <2>1, <2>2
<1> QED
  BY <1>2, <1>3, <1>4

\* What PrintDiffBelow prints
LEMMA SecondOutput ==
    ASSUME RepoType, PrintDiffBelow
    PROVE  \E list \in Lists(repo, query) : \E s, u :
              s = Rest(repo, query, list, below) /\ SameButRefs(u, s) /\ Prints(u, "finish")
<1>1. PICK list \in Lists(repo, query) :
          Prints(Printed(Rest(repo, query, list, below)), "finish")
  BY SecondHalvesAre DEF PrintDiffBelow
<1> DEFINE s == Rest(repo, query, list, below)
<1>2. repo.have \subseteq Object /\ repo.refs \in [Ref -> Object \cup {None}]
  BY DEF RepoType
<1>3. s \in Seq(NoCommit)
  BY <1>2, RestTokens
<1>4. s \in Seq(Token)
  BY <1>3, PagesAreTokens, PageOfMore
<1> HIDE DEF s
<1>5. SameButRefs(Printed(s), s)
  BY <1>2, <1>4, PrintedIsSame
<1> QED
  BY <1>1, <1>5 DEF s

LEMMA PageInit == Init => PageInv
<1> SUFFICES ASSUME Init PROVE PageInv
  OBVIOUS
<1>1. RepoType /\ query \in Query /\ LoginInv
  BY RepoInit, LoginInit
<1>2. OnlyHeader(<<>>)
  BY DEF OnlyHeader, TokensOf
<1>3. cached = None /\ answer = None /\ pc = "idle" /\ out = <<>> /\ out \in Seq(Token)
      /\ ~caching /\ method = "GET" /\ moved = FALSE /\ gone = FALSE
  BY DEF Init
<1> QED
  BY <1>1, <1>2, <1>3 DEF PageInv, CachedType, LoginNeverCached, HeadHasNoBody

\* A process that ends leaves nothing printed; what it answers a HEAD request is
\* the header.
LEMMA ReplyPage ==
    ASSUME PageInv, NEW s, NEW old, NEW m, NEW g, Reply(s, old, m, g), LoginInv',
           method = "HEAD" => OnlyHeader(s), CachedType', LoginNeverCached'
    PROVE  PageInv'
<1>1. /\ query' = query /\ repo' = repo /\ pc' = "idle" /\ method' = "GET"
      /\ authenticated' = FALSE /\ caching' = FALSE /\ out' = <<>>
      /\ moved' = FALSE /\ gone' = FALSE
  BY DEF Reply, NoRequest, world
<1>2. answer'.out = s /\ answer'.method = method
  BY DEF Reply
<1>3. HeadHasNoBody'
  BY <1>2 DEF HeadHasNoBody, OnlyHeader
<1>4. RepoType'
  BY <1>1 DEF RepoType, PageInv
<1>5. out' \in Seq(Token)
  BY <1>1
<1> QED
  BY <1>1, <1>3, <1>4, <1>5 DEF PageInv

THEOREM PageStep == PageInv /\ [Next]_vars => PageInv'
<1> SUFFICES ASSUME PageInv, [Next]_vars
             PROVE  PageInv'
  OBVIOUS
<1>0. LoginInv'
  BY LoginStep DEF PageInv
<1> DEFINE Frame == /\ query' = query /\ repo' = repo /\ cached' = cached
                    /\ moved' = moved /\ gone' = gone
<1>1. ASSUME Frame
      PROVE  /\ RepoType' /\ CachedType' /\ LoginNeverCached' /\ query' \in Query
             /\ moved' \in BOOLEAN /\ gone' \in BOOLEAN
  BY <1>1 DEF PageInv, RepoType, CachedType, LoginNeverCached
<1>2. CASE Environment
  <2>1. RepoType'
    BY <1>2, RepoStep DEF PageInv
  <2>2. /\ query' = query /\ pc' = pc /\ method' = method /\ caching' = caching
        /\ authenticated' = authenticated /\ out' = out /\ answer' = answer
        /\ moved' \in BOOLEAN /\ gone' \in BOOLEAN
        /\ CachedType' /\ LoginNeverCached'
    BY <1>2, EnvironmentFrame
  <2> QED
    BY <1>0, <2>1, <2>2 DEF PageInv, HeadHasNoBody
<1>3. ASSUME NEW m \in Method, Receive(m)
      PROVE  PageInv'
  <2>1. /\ pc = "idle" /\ pc' = "arrived" /\ answer' = None
        /\ UNCHANGED <<query, repo, cached, authenticated, caching, out, moved, gone>>
    BY <1>3 DEF Receive, world
  <2>2. out = <<>> /\ ~caching
    BY <2>1 DEF PageInv, LoginInv
  <2>3. OnlyHeader(<<>>)
    BY DEF OnlyHeader, TokensOf
  <2> QED
    BY <1>0, <1>1, <2>1, <2>2, <2>3 DEF PageInv, HeadHasNoBody
<1>4. CASE LoginPost
  <2>1. method # "HEAD" /\ cached' = cached
    BY <1>4 DEF LoginPost, IsLoginPost
  <2>2. CachedType' /\ LoginNeverCached'
    BY <2>1 DEF PageInv, CachedType, LoginNeverCached
  <2> QED
    BY <1>0, <1>4, <2>1, <2>2, ReplyPage DEF LoginPost
<1>5. CASE Authenticate
  <2>1. /\ pc' = "authorised"
        /\ UNCHANGED <<query, repo, cached, method, caching, out, moved, gone, answer>>
    BY <1>5 DEF Authenticate, world
  <2> QED
    BY <1>0, <1>1, <2>1 DEF PageInv, HeadHasNoBody, OnlyHeader
<1>6. CASE Hit
  <2>1. method # "HEAD" /\ cached' = cached
    BY <1>6 DEF Hit, CachedPage, Cacheable
  <2>2. CachedType' /\ LoginNeverCached'
    BY <2>1 DEF PageInv, CachedType, LoginNeverCached
  <2> QED
    BY <1>0, <1>6, <2>1, <2>2, ReplyPage DEF Hit
<1>7. CASE Miss
  <2>1. /\ pc' = "process" /\ caching' = Cacheable
        /\ UNCHANGED <<query, repo, cached, method, out, moved, gone, answer>>
    BY <1>7 DEF Miss, world
  <2>2. caching' => method # "HEAD"
    BY <2>1 DEF Cacheable
  <2> QED
    BY <1>0, <1>1, <2>1, <2>2 DEF PageInv, HeadHasNoBody, OnlyHeader
<1>8. CASE LoginPage
  <2>1. /\ pc = "process" /\ ~authenticated /\ out = <<>>
        /\ Prints(Layout(<<Tok("login")>>), "finish")
        /\ UNCHANGED <<query, repo, cached, method, authenticated, caching, moved, gone, answer>>
    BY <1>8 DEF LoginPage, PageInv, LoginInv, world
  <2>2. Neither \subseteq Token /\ <<Tok("login")>> \in Seq(Token)
    BY PagesAreTokens DEF Tok, Token, TokenName, Shown
  <2>3. Page(Layout(<<Tok("login")>>), Token)
    BY <2>2, LayoutIsPage
  <2>4. /\ out' \in Seq(Token) /\ pc' \in {"exited", "finish"}
        /\ method = "HEAD" => OnlyHeader(out')
    BY <2>1, <2>3, FirstOutput, SameAsItself DEF Response, Page
  <2> QED
    BY <1>0, <1>1, <2>1, <2>4 DEF PageInv, HeadHasNoBody
<1>9. CASE RefuseRequest
  <2>1. /\ pc = "process" /\ authenticated /\ out = <<>>
        /\ Prints(Printed(ErrorPage), "finish")
        /\ UNCHANGED <<query, repo, cached, method, authenticated, caching, moved, gone, answer>>
    BY <1>9 DEF RefuseRequest, PageInv, LoginInv, world
  <2>2. Response(ErrorPage, Neither) /\ Neither \subseteq Token /\ Neither \subseteq PageToken
    BY ErrorIsPage, PagesAreTokens DEF Response, Neither, NoDiff
  <2>4. SameButRefs(Printed(ErrorPage), ErrorPage)
    BY <2>2, PagesAreTokens, PrintedIsSame DEF PageInv, RepoType
  <2>3. /\ out' \in Seq(Token) /\ pc' \in {"exited", "finish"}
        /\ pc' = "finish" => WholePage(out')
        /\ method = "HEAD" => OnlyHeader(out')
    BY <2>1, <2>2, <2>4, FirstOutput
  <2> QED
    BY <1>0, <1>1, <2>1, <2>3 DEF PageInv, HeadHasNoBody
<1>10. CASE PrepareCommand
  <2>1. /\ pc' = "command"
        /\ UNCHANGED <<query, repo, cached, method, caching, out, moved, gone, answer>>
    BY <1>10 DEF PrepareCommand, world
  <2>2. out = <<>> /\ CommandOf(query) \in Command
    BY <1>10 DEF PrepareCommand, Refused, PageInv, LoginInv
  <2> QED
    BY <1>0, <1>1, <2>1, <2>2 DEF PageInv, HeadHasNoBody, OnlyHeader
<1>11. CASE RunCommand
  <2>1. /\ pc = "command" /\ below' = DiffBelow(repo, query, head)
        /\ UNCHANGED <<query, repo, cached, method, authenticated, caching, moved, gone, answer>>
    BY <1>11 DEF RunCommand, world
  <2>2. PICK s \in Responses(repo, query, head) :
            Prints(Printed(s), IF below' = None THEN "finish" ELSE "below")
    BY <1>11 DEF RunCommand
  <2> DEFINE next == IF below' = None THEN "finish" ELSE "below"
  <2>3. /\ out = <<>> /\ authenticated /\ query \in Query
        /\ repo.have \subseteq Object /\ repo.refs \in [Ref -> Object \cup {None}]
    BY <2>1 DEF PageInv, LoginInv, RepoType
  <2>4. Response(s, NoDiff) \/ Response(s, NoCommit)
    BY <2>1, <2>2, <2>3, ResponsePages DEF PageInv
  <2>5. next \in {"finish", "below"} /\ Prints(Printed(s), next)
    BY <2>2
  <2>9. SameButRefs(Printed(s), s)
    BY <2>3, <2>4, PagesAreTokens, PrintedIsSame
  <2> HIDE DEF next
  <2>6. /\ out' \in Seq(Token) /\ pc' \in {"exited", next}
        /\ pc' \in {"below", "finish"} => WholePage(out')
        /\ method = "HEAD" => OnlyHeader(out')
    <3>1. NoDiff \subseteq PageToken /\ NoCommit \subseteq PageToken
      BY DEF NoDiff, NoCommit
    <3> QED
      BY <2>3, <2>4, <2>5, <2>9, <3>1, FirstOutput, PagesAreTokens
  <2>7. method = "HEAD" => pc' # "below"
    <3> SUFFICES ASSUME method = "HEAD", pc' = "below"
                 PROVE  FALSE
      OBVIOUS
    <3>1. DiffBelow(repo, query, head) # None
      BY <2>1, <2>6 DEF next
    <3>2. Page(s, NoDiff)
      BY <2>2, <2>3, <3>1, PagesBeforeDiff
    <3> QED
      BY <2>3, <2>5, <2>9, <3>2, FirstOutput, PagesAreTokens DEF Response
  <2>8. pc' # "command"
    BY <2>5, <2>6
  <2> QED
    BY <1>0, <1>1, <2>1, <2>6, <2>7, <2>8 DEF PageInv, HeadHasNoBody
<1>12. CASE PrintDiffBelow
  <2>0. PICK list \in Lists(repo, query) : \E s, u :
            s = Rest(repo, query, list, below) /\ SameButRefs(u, s) /\ Prints(u, "finish")
    BY <1>12, SecondOutput DEF PageInv
  <2>7. PICK s, u : s = Rest(repo, query, list, below) /\ SameButRefs(u, s) /\ Prints(u, "finish")
    BY <2>0
  <2>1. /\ pc = "below" /\ method # "HEAD" /\ Prints(u, "finish")
        /\ UNCHANGED <<query, repo, cached, method, authenticated, caching, moved, gone, answer>>
    BY <1>12, <2>7 DEF PrintDiffBelow, world, PageInv
  <2>2. authenticated /\ WholePage(out) /\ out \in Seq(Token)
    BY <2>1 DEF PageInv, LoginInv
  <2>3. s \in Seq(NoCommit) /\ Len(s) > 0
    <3>1. repo.have \subseteq Object
      BY DEF PageInv, RepoType
    <3> QED
      BY <2>7, <3>1, RestTokens
  <2>4. u \in Seq(Token) /\ Len(u) = Len(s)
    BY <2>7 DEF SameButRefs
  <2>5. /\ out' \in Seq(Token)
        /\ pc' = "exited" \/ (pc' = "finish" /\ out' = out \o u /\ TokensOf(u, {"die"}) = {})
    BY <2>1, <2>2, <2>4, PrintsWhat
  <2>6. ASSUME pc' = "finish"
        PROVE  WholePage(out')
    <3>1. TokensOf(s, {"login"}) = {}
      BY <2>3, TokensOfOther DEF NoCommit, PageToken
    <3>5. TokensOf(u, {"login"}) = {}
      BY <2>7, <3>1, TokensOfSame DEF RefsShown
    <3>2. TokensOf(u, {"login", "die"}) = {}
      BY <2>5, <2>6, <3>5 DEF TokensOf
    <3>3. TokensOf(out \o u, {"login", "die"}) = {}
      BY <2>2, <2>4, <3>2, TokensOfBoth DEF WholePage
    <3>4. Len(out \o u) > 1
      BY <2>2, <2>3, <2>4 DEF WholePage
    <3> QED
      BY <2>5, <2>6, <3>3, <3>4 DEF WholePage
  <2> QED
    BY <1>0, <1>1, <2>1, <2>5, <2>6 DEF PageInv, HeadHasNoBody
<1>13. CASE Finish
  <2>1. authenticated /\ caching => WholePage(out)
    BY <1>13 DEF Finish, PageInv
  <2>2. cached' = IF caching THEN [out |-> out, old |-> FALSE, moved |-> moved, gone |-> gone]
                  ELSE cached
    BY <1>13 DEF Finish
  <2>3. CachedType' /\ LoginNeverCached'
    BY <2>1, <2>2 DEF PageInv, LoginInv, CachedType, LoginNeverCached, WholePage
  <2>4. method = "HEAD" => OnlyHeader(out)
    BY DEF PageInv
  <2> QED
    BY <1>0, <1>13, <2>3, <2>4, ReplyPage DEF Finish
<1>14. CASE Exit
  <2>1. cached' = cached
    BY <1>14 DEF Exit
  <2>2. CachedType' /\ LoginNeverCached'
    BY <2>1 DEF PageInv, CachedType, LoginNeverCached
  <2>3. method = "HEAD" => OnlyHeader(IF caching THEN <<>> ELSE out)
    BY DEF PageInv
  <2> QED
    BY <1>0, <1>14, <2>2, <2>3, ReplyPage DEF Exit
<1>15. CASE UNCHANGED vars
  BY <1>0, <1>1, <1>15 DEF vars, request, world, PageInv, WholePage, OnlyHeader, HeadHasNoBody
<1> QED
  BY <1>2, <1>3, <1>4, <1>5, <1>6, <1>7, <1>8, <1>9, <1>10, <1>11, <1>12, <1>13, <1>14,
     <1>15 DEF Next, Process
\* LoginNeverCached holds in every state: cache-size is 0 for whoever is not let in
\* (cgit.c), and a process that dies within a page publishes nothing.
THEOREM OnlyPagesCached == Spec => []LoginNeverCached
<1>1. PageInv => LoginNeverCached
  BY DEF PageInv
<1> QED
  BY PageInit, PageStep, <1>1, PTL DEF Spec

\* HeadHasNoBody holds in every state: cgit_print_http_headers exits after the
\* header, which is on stdout since a HEAD request is not cached.
THEOREM HeadOnly == Spec => []HeadHasNoBody
<1>1. PageInv => HeadHasNoBody
  BY DEF PageInv
<1> QED
  BY PageInit, PageStep, <1>1, PTL DEF Spec

-----------------------------------------------------------------------------
(* The commit and its diff *)

\* The diff in s is the one that the statistics are of, and the list of commits is,
\* as is the diff of a commit, but for a ref that moved
Matching(s, m) ==
    /\ \A x \in TokensOf(s, {"stat"}), y \in TokensOf(s, {"diff"}) : x.of = y.of
    /\ \A x \in TokensOf(s, {"stat"}), y \in TokensOf(s, {"log"}) : x.of = y.of \/ m
    /\ \A x \in TokensOf(s, {"commit"}), y \in TokensOf(s, {"diff"}) : x.of = y.of \/ m

\* What has been shown of object o is what the name n still leads to, or it leads to
\* nothing any more, or a ref has moved.
StillLeads(n, o) == moved \/ Resolve(repo, n) = None \/ o = Peel(Resolve(repo, n))

\* Before the diff is printed: the page shows a commit, ...
CommitAbove ==
    /\ query.page = "commit"
    /\ head \in Branch
    /\ below.new = Rev(query, head)
    /\ TokensOf(out, {"stat"}) = {}
    /\ \A x \in TokensOf(out, {"commit"}) : StillLeads(below.new, x.of)

\* ... or the statistics of a comparison, whose names are not looked up for the diff
CompareAbove ==
    /\ query.page = "compare"
    /\ query.id2 \in Name
    /\ below.new \in Object
    /\ TokensOf(out, {"commit"}) = {}
    /\ \A x \in TokensOf(out, {"stat"}) :
          x.of = Peel(below.new) /\ StillLeads(query.id2, x.of)

AboutToDiff ==
    pc = "below" =>
        /\ TokensOf(out, {"diff"}) = {} /\ TokensOf(out, {"log"}) = {}
        /\ CommitAbove \/ CompareAbove

DiffInv ==
    /\ PageInv
    /\ head \in Branch \cup {None}
    /\ pc = "command" /\ CommandOf(query) \in WantRepo => head \in Branch
    /\ AboutToDiff
    /\ Matching(out, moved)
    /\ cached # None => Matching(cached.out, cached.moved)
    /\ answer # None => Matching(answer.out, answer.moved)

LEMMA MatchingNothing == \A m : Matching(<<>>, m)
  BY DEF Matching, TokensOf

LEMMA DiffInit == Init => DiffInv
  BY PageInit, MatchingNothing DEF Init, DiffInv, AboutToDiff

\* Tokens of one kind only match, ...
LEMMA MatchingOneKind ==
    ASSUME NEW s, NEW m, TokensOf(s, First) = {} \/ TokensOf(s, Second) = {}
    PROVE  Matching(s, m)
<1>1. \A N, k : k \in N => TokensOf(s, {k}) \subseteq TokensOf(s, N)
  BY DEF TokensOf
<1> QED
  BY <1>1 DEF Matching, First, Second

LEMMA ResponseOneKind ==
    ASSUME NEW s, Response(s, NoDiff) \/ Response(s, NoCommit)
    PROVE  TokensOf(s, First) = {} \/ TokensOf(s, Second) = {}
<1>1. CASE s \in Seq(NoDiff)
  BY <1>1, TokensOfOther DEF NoDiff
<1>2. CASE s \in Seq(NoCommit)
  BY <1>2, TokensOfOther DEF NoCommit
<1>3. CASE s \in {<<Tok("redirect")>>, <<Tok("die")>>}
  BY <1>3 DEF TokensOf, Tok, First
<1> QED
  BY <1>1, <1>2, <1>3 DEF Response, Page

\* ... and what stops within a page that matches does, too.
LEMMA MatchingPart ==
    ASSUME NEW s, NEW u, NEW m, NEW n, Matching(s, m), m => n,
           \A N : TokensOf(u, N) \subseteq TokensOf(s, N)
    PROVE  Matching(u, n)
  BY DEF Matching

\* A push moves a ref, and nothing else changes what a name leads to but its
\* deletion.
LEMMA EnvironmentMoves ==
    ASSUME DiffInv, Environment, pc = "below", NEW n \in LookedUpAgain \cap Name, NEW o,
           StillLeads(n, o)
    PROVE  moved' \/ Resolve(repo', n) = None \/ o = Peel(Resolve(repo', n))
<1> USE DEF DiffInv, PageInv, RepoType, Resolve, StillLeads
<1>1. ASSUME NEW k \in Ref, DeleteRef(k)
      PROVE  moved' = moved /\ \A m \in Ref : repo'.refs[m] \in {None, repo.refs[m]}
  BY <1>1 DEF DeleteRef
<1>2. ASSUME NEW k \in Ref, NEW p \in Target[k], Push(k, p)
      PROVE  /\ moved => moved'
             /\ k = n => moved'
             /\ \A m \in Ref \ {k} : repo'.refs[m] = repo.refs[m]
  BY <1>2 DEF Push
<1>3. ASSUME NEW p \in Fragile, Lose(p)
      PROVE  moved' = moved /\ repo'.refs = repo.refs
  BY <1>3 DEF Lose
<1>4. ASSUME Expire
      PROVE  moved' = moved /\ repo' = repo
  BY <1>4 DEF Expire, world, request
<1> QED
  BY <1>1, <1>2, <1>3, <1>4 DEF Environment, Name
\* A process that ends has answered what matches.
LEMMA ReplyDiff ==
    ASSUME DiffInv, PageInv', NEW s, NEW old, NEW m, NEW g, Reply(s, old, m, g),
           Matching(s, m), cached' # None => Matching(cached'.out, cached'.moved),
           head' \in Branch \cup {None}
    PROVE  DiffInv'
<1>1. query' = query /\ pc' = "idle" /\ out' = <<>> /\ answer'.out = s /\ answer'.moved = m
  BY DEF Reply, NoRequest, world
<1>2. Matching(out', moved')
  BY <1>1, MatchingNothing
<1> QED
  BY <1>1, <1>2 DEF DiffInv, AboutToDiff, Matching

\* A step that prints leaves the pages that are in the cache and those that have
\* been answered alone.
LEMMA PrintDiff ==
    ASSUME DiffInv, PageInv', pc' \in {"finish", "below", "exited"},
           UNCHANGED <<query, cached, answer, head>>,
           AboutToDiff', Matching(out', moved')
    PROVE  DiffInv'
  BY DEF DiffInv, Matching

THEOREM DiffStep == DiffInv /\ [Next]_vars => DiffInv'
<1> SUFFICES ASSUME DiffInv, [Next]_vars
             PROVE  DiffInv'
  OBVIOUS
<1>0. PageInv'
  BY PageStep DEF DiffInv
<1>1. CASE Environment
  <2>1. /\ UNCHANGED <<query, pc, head, below, out, answer>>
        /\ cached' # None => cached # None /\ cached'.out = cached.out
                             /\ cached'.moved = cached.moved
    BY <1>1, EnvironmentFrame DEF DiffInv
  <2>2. CASE pc = "idle"
    <3>1. out = <<>>
      BY <2>2 DEF DiffInv, PageInv, LoginInv
    <3>2. Matching(out', moved')
      BY <2>1, <3>1, MatchingNothing
    <3> QED
      BY <1>0, <2>1, <2>2, <3>2 DEF DiffInv, AboutToDiff, Matching
  <2>3. CASE pc # "idle"
    <3>1. moved => moved'
      BY <1>1, <2>3 DEF Environment, DeleteRef, Push, Lose, Expire, request
    <3>2. Matching(out', moved')
      BY <2>1, <3>1 DEF DiffInv, Matching
    <3>3. AboutToDiff'
      <4> SUFFICES ASSUME pc' = "below"
                   PROVE  AboutToDiff'
        BY DEF AboutToDiff
      <4>1. AboutToDiff /\ pc = "below" /\ query \in Query
        BY <2>1 DEF DiffInv, PageInv
      <4>2. CASE CommitAbove
        <5>1. below.new \in LookedUpAgain \cap Name
          BY <4>1, <4>2 DEF CommitAbove, LookedUpAgain, Rev, Query, Name, Ref
        <5>2. \A x \in TokensOf(out, {"commit"}) : StillLeads(below.new, x.of)'
          BY <1>1, <2>1, <4>1, <4>2, <5>1, EnvironmentMoves DEF CommitAbove, StillLeads
        <5> QED
          BY <2>1, <4>1, <4>2, <5>2 DEF AboutToDiff, CommitAbove
      <4>3. CASE CompareAbove
        <5>1. query.id2 \in LookedUpAgain \cap Name
          BY <4>3 DEF CompareAbove, LookedUpAgain
        <5>2. \A x \in TokensOf(out, {"stat"}) : StillLeads(query.id2, x.of)'
          BY <1>1, <2>1, <4>1, <4>3, <5>1, EnvironmentMoves DEF CompareAbove, StillLeads
        <5> QED
          BY <2>1, <4>1, <4>3, <5>2 DEF AboutToDiff, CompareAbove
      <4> QED
        BY <4>1, <4>2, <4>3 DEF AboutToDiff
    <3> QED
      BY <1>0, <2>1, <3>2, <3>3 DEF DiffInv, Matching
  <2> QED
    BY <2>2, <2>3
<1>2. ASSUME NEW m \in Method, Receive(m)
      PROVE  DiffInv'
  <2>1. /\ pc = "idle" /\ pc' = "arrived" /\ answer' = None /\ head' = query.head
        /\ UNCHANGED <<query, cached, out, moved>>
    BY <1>2 DEF Receive, world
  <2>2. head' \in Branch \cup {None}
    BY <2>1 DEF DiffInv, PageInv, Query
  <2> QED
    BY <1>0, <2>1, <2>2 DEF DiffInv, AboutToDiff, Matching
<1>3. CASE LoginPost
  <2> DEFINE s == <<Tok("header"), Tok("login")>>
  <2>1. TokensOf(s, First) = {}
    BY DEF TokensOf, Tok, First
  <2>2. Matching(s, moved) /\ Reply(s, FALSE, moved, gone) /\ cached' = cached /\ head' = None
    BY <1>3, <2>1, MatchingOneKind DEF LoginPost, Reply, NoRequest
  <2> HIDE DEF s
  <2> QED
    BY <1>0, <2>2, ReplyDiff DEF DiffInv
<1>4. CASE Authenticate \/ Miss
  <2>1. /\ pc' \in {"authorised", "process"}
        /\ UNCHANGED <<query, cached, head, out, moved, answer>>
    BY <1>4 DEF Authenticate, Miss, world
  <2> QED
    BY <1>0, <2>1 DEF DiffInv, AboutToDiff, Matching
<1>5. CASE Hit
  <2>1. /\ cached # None /\ cached' = cached /\ head' = None
        /\ Reply(cached.out, cached.old, cached.moved, cached.gone)
    BY <1>5 DEF Hit, CachedPage, Reply, NoRequest
  <2> QED
    BY <1>0, <2>1, ReplyDiff DEF DiffInv
<1>6. CASE LoginPage \/ RefuseRequest
  <2>1. /\ pc = "process" /\ out = <<>> /\ UNCHANGED <<query, cached, head, moved, answer>>
        /\ \/ Prints(Layout(<<Tok("login")>>), "finish")
           \/ Prints(Printed(ErrorPage), "finish")
        /\ repo.refs \in [Ref -> Object \cup {None}]
    BY <1>6 DEF LoginPage, RefuseRequest, DiffInv, PageInv, RepoType, LoginInv, world
  <2>2. PICK s \in {Layout(<<Tok("login")>>), ErrorPage} :
            \E u \in {s, Printed(s)} : Prints(u, "finish")
    BY <2>1
  <2>7. PICK u \in {s, Printed(s)} : Prints(u, "finish")
    BY <2>2
  <2>3. s \in Seq(Token) /\ TokensOf(s, First) = {}
    <3> DEFINE T == {x \in Token : x.t \notin First}
    <3>1. <<Tok("login")>> \in Seq(T)
      BY DEF Tok, Token, TokenName, First
    <3>2. Neither \subseteq T /\ T \subseteq Token
      BY PagesAreTokens DEF Neither, NoCommit
    <3>3. s \in Seq(T)
      BY <2>2, <3>1, <3>2, LayoutIsPage, ErrorIsPage, PageOfMore DEF Page
    <3> QED
      BY <3>2, <3>3, PageOfMore, TokensOfOther
  <2>8. SameButRefs(u, s)
    BY <2>1, <2>3, <2>7, PrintedIsSame, SameAsItself
  <2>9. TokensOf(u, First) = {} /\ u \in Seq(Token)
    <3>1. First \cap RefsShown = {}
      BY DEF First, RefsShown
    <3> QED
      BY <2>3, <2>8, <3>1, TokensOfSame DEF SameButRefs
  <2>4. TokensOf(out, First) = {} /\ out \in Seq(Token)
    BY <2>1 DEF TokensOf
  <2>5. TokensOf(out', First) = {} /\ pc' \in {"finish", "exited"}
    BY <2>7, <2>9, <2>4, PrintsWhat
  <2>6. Matching(out', moved')
    BY <2>5, MatchingOneKind
  <2> QED
    BY <1>0, <2>1, <2>5, <2>6, PrintDiff DEF AboutToDiff
<1>7. CASE PrepareCommand
  <2>1. /\ pc' = "command" /\ ~Refused
        /\ UNCHANGED <<query, cached, out, moved, answer>>
        /\ IF query.repo THEN head' \in Heads ELSE head' = head
    BY <1>7 DEF PrepareCommand, world
  <2>2. Heads \subseteq Branch
    BY DEF Heads, DefaultBranches, DiffInv
  <2> QED
    BY <1>0, <2>1, <2>2 DEF DiffInv, AboutToDiff, Matching, Refused
<1>8. CASE RunCommand
  <2> DEFINE next == IF below' = None THEN "finish" ELSE "below"
  <2>1. /\ pc = "command" /\ below' = DiffBelow(repo, query, head)
        /\ UNCHANGED <<query, repo, cached, head, moved, answer>>
    BY <1>8 DEF RunCommand, world
  <2>2. PICK s \in Responses(repo, query, head) : Prints(Printed(s), next)
    BY <1>8 DEF RunCommand
  <2>3. /\ out = <<>> /\ query \in Query /\ CommandOf(query) \in Command
        /\ repo.have \subseteq Object /\ repo.refs \in [Ref -> Object \cup {None}]
    BY <2>1 DEF DiffInv, PageInv, RepoType
  <2>4. Response(s, NoDiff) \/ Response(s, NoCommit)
    BY <2>3, ResponsePages
  <2>10. PICK u : SameButRefs(u, s) /\ Prints(u, next)
    BY <2>2, <2>3, <2>4, PagesAreTokens, PrintedIsSame
  <2>5. u \in Seq(Token) /\ out \in Seq(Token)
    BY <2>3, <2>10 DEF SameButRefs
  <2> HIDE DEF next
  <2>6. /\ \A N : TokensOf(out', N) \subseteq TokensOf(out, N) \cup TokensOf(u, N)
        /\ pc' = "exited" \/ (pc' = next /\ out' = out \o u)
    BY <2>10, <2>5, PrintsWhat
  <2>7. \A N : TokensOf(out, N) = {}
    BY <2>3 DEF TokensOf
  <2>11. \A N : N \cap RefsShown = {} => TokensOf(u, N) = TokensOf(s, N)
    BY <2>10, TokensOfSame
  <2>8. Matching(out', moved')
    <3>1. TokensOf(u, First) = {} \/ TokensOf(u, Second) = {}
      BY <2>4, <2>11, ResponseOneKind DEF First, Second, RefsShown
    <3> QED
      BY <2>6, <2>7, <3>1, MatchingOneKind
  <2>9. AboutToDiff'
    <3> SUFFICES ASSUME pc' = "below"
                 PROVE  AboutToDiff'
      BY DEF AboutToDiff
    <3>1. below' # None /\ out' = u
      BY <2>3, <2>5, <2>6 DEF next
    <3>2. /\ Page(s, NoDiff)
          /\ \/ /\ query.page = "commit"
                /\ CommitOf(repo, Rev(query, head)) # None
                /\ s = <<Tok("header"), Tok("open"),
                          Shows("commit", CommitOf(repo, Rev(query, head))), Tok("refs")>>
             \/ /\ query.page = "compare"
                /\ Comparable(repo, query)
                /\ s = <<Tok("header"), Tok("open"), Tok("refs"),
                          Shows("stat", CommitOf(repo, query.id2))>>
      BY <2>1, <2>3, <3>1, PagesBeforeDiff
    <3>3. TokensOf(u, {"diff"}) = {} /\ TokensOf(u, {"log"}) = {}
      <4>1. TokensOf(s, {"diff"}) = {} /\ TokensOf(s, {"log"}) = {}
        BY <3>2, TokensOfOther DEF Page, NoDiff, Second
      <4> QED
        BY <2>11, <4>1 DEF RefsShown
    <3>4. TokensOf(u, {"commit"}) = TokensOf(s, {"commit"})
          /\ TokensOf(u, {"stat"}) = TokensOf(s, {"stat"})
      BY <2>11 DEF RefsShown
    <3>5. CASE query.page = "commit"
      <4>1. PICK c : c = CommitOf(repo, Rev(query, head))
        OBVIOUS
      <4>2. c # None /\ s = <<Tok("header"), Tok("open"), Shows("commit", c), Tok("refs")>>
        BY <3>2, <3>5, <4>1
      <4>3. c = Peel(Resolve(repo, Rev(query, head)))
        BY <4>1, <4>2 DEF CommitOf, CommitAt, Peel
      <4>4. TokensOf(s, {"stat"}) = {} /\ \A x \in TokensOf(s, {"commit"}) : x.of = c
        BY <4>2 DEF TokensOf, Tok, Shows
      <4>5. below'.new = Rev(query, head)
        BY <2>1, <3>1, <3>5 DEF DiffBelow
      <4>6. head \in Branch
        BY <2>1, <3>5 DEF DiffInv, CommandOf, WantRepo, Command
      <4>7. CommitAbove'
        BY <2>1, <3>1, <3>4, <3>5, <4>3, <4>4, <4>5, <4>6 DEF CommitAbove, StillLeads, Rev
      <4> QED
        BY <3>1, <3>3, <4>7 DEF AboutToDiff
    <3>6. CASE query.page = "compare"
      <4>1. PICK c : c = CommitOf(repo, query.id2)
        OBVIOUS
      <4>2. /\ Comparable(repo, query)
            /\ s = <<Tok("header"), Tok("open"), Tok("refs"), Shows("stat", c)>>
        BY <3>2, <3>6, <4>1
      <4>3. c # None /\ query.id2 # None
        BY <4>1, <4>2 DEF Comparable, CommitOf
      <4>4. c = Peel(Resolve(repo, query.id2)) /\ Resolve(repo, query.id2) \in Object
        BY <2>3, <4>1, <4>3 DEF CommitOf, CommitAt, Peel
      <4>5. TokensOf(s, {"commit"}) = {} /\ \A x \in TokensOf(s, {"stat"}) : x.of = c
        BY <4>2 DEF TokensOf, Tok, Shows
      <4>6. below'.new = Resolve(repo, query.id2)
        BY <2>1, <3>1, <3>6 DEF DiffBelow
      <4>7. query.id2 \in Name
        BY <2>3, <4>3 DEF Query
      <4>8. CompareAbove'
        BY <2>1, <3>1, <3>4, <3>6, <4>4, <4>5, <4>6, <4>7 DEF CompareAbove, StillLeads
      <4> QED
        BY <3>1, <3>3, <4>8 DEF AboutToDiff
    <3> QED
      BY <3>2, <3>5, <3>6
  <2> QED
    BY <1>0, <2>1, <2>6, <2>8, <2>9, PrintDiff DEF next
<1>9. CASE PrintDiffBelow
  <2>0. PICK list \in Lists(repo, query) : \E s, u :
            s = Rest(repo, query, list, below) /\ SameButRefs(u, s) /\ Prints(u, "finish")
    BY <1>9, SecondOutput DEF DiffInv, PageInv
  <2>10. PICK s, u : s = Rest(repo, query, list, below) /\ SameButRefs(u, s) /\ Prints(u, "finish")
    BY <2>0
  <2>1. /\ pc = "below"
        /\ UNCHANGED <<query, repo, cached, head, below, moved, answer>>
    BY <1>9 DEF PrintDiffBelow, world
  <2>11. repo.have \subseteq Object
    BY DEF DiffInv, PageInv, RepoType
  <2>2. s \in Seq(NoCommit)
    BY <2>10, <2>11, RestTokens
  <2>12. ASSUME NEW y \in TokensOf(s, {"diff"})
         PROVE  Resolve(repo, below.new) # None /\ y.of = Peel(Resolve(repo, below.new))
    BY <2>10, <2>11, RestTokens
  <2>13. ASSUME NEW y \in TokensOf(s, {"log"})
         PROVE  Resolve(repo, query.id2) # None /\ y.of = Peel(Resolve(repo, query.id2))
    <3>1. Comparable(repo, query) /\ y.of = CommitOf(repo, query.id2)
      BY <2>10, <2>11, RestTokens
    <3> QED
      BY <3>1 DEF Comparable, CommitOf, CommitAt, Peel
  <2>3. u \in Seq(Token) /\ out \in Seq(Token)
    BY <2>10 DEF DiffInv, PageInv, SameButRefs
  <2>4. TokensOf(s, {"commit"}) = {} /\ TokensOf(s, {"stat"}) = {}
    BY <2>2, TokensOfOther DEF NoCommit, First
  <2>5. /\ \A N : TokensOf(out', N) \subseteq TokensOf(out, N) \cup TokensOf(u, N)
        /\ pc' \in {"exited", "finish"}
    BY <2>10, <2>3, PrintsWhat
  <2>6. /\ TokensOf(out, {"diff"}) = {} /\ TokensOf(out, {"log"}) = {}
        /\ CommitAbove \/ CompareAbove
    BY <2>1 DEF DiffInv, AboutToDiff
  <2>14. \A N : N \cap RefsShown = {} => TokensOf(u, N) = TokensOf(s, N)
    BY <2>10, TokensOfSame
  <2>15. /\ TokensOf(u, {"diff"}) = TokensOf(s, {"diff"})
         /\ TokensOf(u, {"log"}) = TokensOf(s, {"log"})
         /\ TokensOf(u, {"commit"}) = {} /\ TokensOf(u, {"stat"}) = {}
    BY <2>4, <2>14 DEF RefsShown
  <2>7. /\ TokensOf(out', {"diff"}) \subseteq TokensOf(s, {"diff"})
        /\ TokensOf(out', {"log"}) \subseteq TokensOf(s, {"log"})
        /\ TokensOf(out', {"commit"}) \subseteq TokensOf(out, {"commit"})
        /\ TokensOf(out', {"stat"}) \subseteq TokensOf(out, {"stat"})
    BY <2>15, <2>5, <2>6
  <2>16. ASSUME CommitAbove
         PROVE  Matching(out', moved')
    <3>1. TokensOf(out', {"stat"}) = {}
      BY <2>7, <2>16 DEF CommitAbove
    <3>2. \A x \in TokensOf(out', {"commit"}), y \in TokensOf(out', {"diff"}) : x.of = y.of \/ moved'
      BY <2>1, <2>7, <2>12, <2>16 DEF CommitAbove, StillLeads
    <3> QED
      BY <3>1, <3>2 DEF Matching
  <2>17. ASSUME CompareAbove
         PROVE  Matching(out', moved')
    <3>1. TokensOf(out', {"commit"}) = {}
      BY <2>7, <2>17 DEF CompareAbove
    <3>2. Resolve(repo, below.new) = below.new
      BY <2>17 DEF CompareAbove, Resolve
    <3>3. \A x \in TokensOf(out', {"stat"}), y \in TokensOf(out', {"diff"}) : x.of = y.of
      BY <2>7, <2>12, <2>17, <3>2 DEF CompareAbove
    <3>4. \A x \in TokensOf(out', {"stat"}), y \in TokensOf(out', {"log"}) : x.of = y.of \/ moved'
      BY <2>1, <2>7, <2>13, <2>17 DEF CompareAbove, StillLeads
    <3> QED
      BY <3>1, <3>3, <3>4 DEF Matching
  <2>8. Matching(out', moved')
    BY <2>6, <2>16, <2>17
  <2>9. AboutToDiff'
    BY <2>5 DEF AboutToDiff
  <2> QED
    BY <1>0, <2>1, <2>5, <2>8, <2>9, PrintDiff
<1>10. CASE Finish
  <2>1. Reply(out, FALSE, moved, gone) /\ head' = None /\ Matching(out, moved)
    BY <1>10 DEF Finish, Reply, NoRequest, DiffInv
  <2>2. cached' # None => Matching(cached'.out, cached'.moved)
    BY <1>10, <2>1 DEF Finish, DiffInv
  <2> QED
    BY <1>0, <2>1, <2>2, ReplyDiff
<1>11. CASE Exit
  <2>1. /\ Reply(IF caching THEN <<>> ELSE out, FALSE, moved, gone) /\ head' = None
        /\ cached' = cached
    BY <1>11 DEF Exit, Reply, NoRequest
  <2>2. Matching(IF caching THEN <<>> ELSE out, moved)
    BY MatchingNothing DEF DiffInv
  <2> QED
    BY <1>0, <2>1, <2>2, ReplyDiff DEF DiffInv
<1>12. CASE UNCHANGED vars
  <2>1. UNCHANGED <<query, repo, pc, head, below, out, moved, cached, answer>>
    BY <1>12 DEF vars, request, world
  <2>2. AboutToDiff'
    BY <2>1 DEF DiffInv, AboutToDiff, CommitAbove, CompareAbove, StillLeads
  <2>3. /\ Matching(out', moved')
        /\ cached' # None => Matching(cached'.out, cached'.moved)
        /\ answer' # None => Matching(answer'.out, answer'.moved)
    BY <2>1 DEF DiffInv, Matching
  <2> QED
    BY <1>0, <2>1, <2>2, <2>3 DEF DiffInv, Matching
<1> QED
  BY <1>1, <1>2, <1>3, <1>4, <1>5, <1>6, <1>7, <1>8, <1>9, <1>10, <1>11, <1>12
     DEF Next, Process

\* DiffOfShownCommit holds in every state: cgit_print_compare gives the diff the
\* object ids that the statistics are of, so that no push can come between them;
\* cgit_print_commit and print_commit_list give a name, which is looked up a second
\* time (ui-diff.c) and leads to another commit only where that ref moved.
THEOREM ShownCommitsDiff == Spec => []DiffOfShownCommit
<1>1. ASSUME NEW s, NEW m, Matching(s, m), NEW k \in Halves,
             NEW x \in TokensOf(s, {k[1]}), NEW y \in TokensOf(s, {k[2]})
      PROVE  x.of = y.of \/ (m /\ k # <<"stat", "diff">>)
  <2>1. CASE k = <<"stat", "diff">>
    BY <1>1, <2>1 DEF Matching
  <2>2. CASE k = <<"stat", "log">>
    BY <1>1, <2>2 DEF Matching
  <2>3. CASE k = <<"commit", "diff">>
    BY <1>1, <2>3 DEF Matching
  <2> QED
    BY <2>1, <2>2, <2>3 DEF Halves
<1>2. DiffInv => DiffOfShownCommit
  <2> SUFFICES ASSUME DiffInv, answer # None, NEW k \in Halves,
                      NEW x \in TokensOf(answer.out, {k[1]}),
                      NEW y \in TokensOf(answer.out, {k[2]})
               PROVE  x.of = y.of \/ (answer.moved /\ k # <<"stat", "diff">>)
    BY DEF DiffOfShownCommit
  <2>1. Matching(answer.out, answer.moved)
    BY DEF DiffInv
  <2> QED
    BY <1>1, <2>1
<1> QED
  BY DiffInit, DiffStep, <1>2, PTL DEF Spec

-----------------------------------------------------------------------------
(* The repository *)

\* Where nothing has been lost, git can read what belongs to an object it can
\* read, and every ref leads to a commit.
Sound ==
    repo.lost = {} =>
        /\ Whole(repo.have)
        /\ \A n \in Ref : repo.refs[n] # None => CommitAt(repo, repo.refs[n]) # None

\* r2 is r after pushes and deletions, and nothing is lost.
Grows(r, r2) ==
    /\ r.lost = {} /\ r2.lost = {}
    /\ r.have \subseteq r2.have /\ r2.have \subseteq Object
    /\ Whole(r.have) /\ Whole(r2.have)

\* Complete repositories make a complete one.
LEMMA WholeTogether == \A S, T : Whole(S) /\ Whole(T) => Whole(S \cup T)
  BY DEF Whole

\* A commit that an object leads to is found again, ...
LEMMA CommitStays ==
    ASSUME NEW r, NEW r2, Grows(r, r2), NEW o, CommitAt(r, o) # None
    PROVE  CommitAt(r2, o) = CommitAt(r, o)
  BY DEF CommitAt, Grows

\* ... and with it its parents and what is at its paths.
LEMMA CommitIsWhole ==
    ASSUME NEW r, Whole(r.have), r.have \subseteq Object, NEW o,
           CommitAt(r, o) # None
    PROVE  LET c == CommitAt(r, o)
           IN  /\ c \in Commit /\ c \in r.have
               /\ Parents[c] \in Seq(Commit)
               /\ ReadParents(r, c) = DOMAIN Parents[c]
               /\ FirstParent(c) # None => CommitAt(r, FirstParent(c)) # None
               /\ \A p \in Path : Entry[c][p] \in r.have \cup Commit \cup {None}
<1> DEFINE c == CommitAt(r, o)
<1>1. c \in Commit /\ c \in r.have
  BY DEF CommitAt, Commit
<1>2. Parents[c] \in Seq(Commit)
  BY <1>1, ObjectAssumption
<1>3. \A i \in DOMAIN Parents[c] : Parents[c][i] \in r.have
  BY <1>1 DEF Whole
<1>4. ReadParents(r, c) = DOMAIN Parents[c]
  BY <1>3 DEF ReadParents
<1>5. \A p \in Path : Entry[c][p] \in r.have \cup Commit \cup {None}
  BY <1>1 DEF Whole
<1> HIDE DEF c
<1>6. FirstParent(c) # None => CommitAt(r, FirstParent(c)) # None
  <2> SUFFICES ASSUME Parents[c] # <<>>
               PROVE  CommitAt(r, Parents[c][1]) # None
    BY DEF FirstParent
  <2>1. 1 \in DOMAIN Parents[c] /\ Parents[c][1] \in Commit
    BY <1>2
  <2>2. Parents[c][1] \in r.have
    BY <1>3, <2>1
  <2> QED
    BY <2>1, <2>2, NoneAssumption DEF CommitAt, Commit
<1> QED
  BY <1>1, <1>2, <1>4, <1>5, <1>6 DEF c

LEMMA SoundInit == Init => Sound
<1> SUFFICES ASSUME Init, repo.lost = {} PROVE Sound
  BY DEF Sound
<1>1. ASSUME NEW refs \in Starts, repo = Complete(refs)
      PROVE  Sound
  <2>1. refs \in [Ref -> Object \cup {None}] /\ repo.refs = refs
    BY <1>1, RepoAssumption DEF Complete
  <2>2. \A o : o \in repo.have <=> \E n \in Ref : refs[n] # None /\ o \in Reach[refs[n]]
    BY <1>1 DEF Complete
  <2>3. \A n \in Ref : refs[n] # None =>
           /\ refs[n] \in Reach[refs[n]] /\ Whole(Reach[refs[n]])
           /\ (IF Kind[refs[n]] = "tag" THEN Tagged[refs[n]] ELSE refs[n]) \in Commit
    BY <1>1, PushAssumption
  <2>4. Whole(repo.have)
    BY <2>2, <2>3 DEF Whole
  <2>5. ASSUME NEW n \in Ref, refs[n] # None
        PROVE  CommitAt(repo, refs[n]) # None
    <3>1. refs[n] \in repo.have
      BY <2>2, <2>3, <2>5
    <3>2. Kind[refs[n]] = "tag" => Tagged[refs[n]] \in repo.have
      BY <2>4, <3>1 DEF Whole
    <3> QED
      BY <2>3, <2>5, <3>1, <3>2, NoneAssumption DEF CommitAt, Commit
  <2> QED
    BY <2>1, <2>4, <2>5 DEF Sound
<1>2. CASE repo = [Complete(NoRefs) EXCEPT !.git = FALSE]
  <2>1. repo.have = {} /\ repo.refs = NoRefs
    BY <1>2 DEF Complete, NoRefs
  <2> QED
    BY <2>1 DEF Sound, Whole, NoRefs
<1> QED
  BY <1>1, <1>2 DEF Init

\* The repository only grows while nothing is lost, and what is lost stays lost.
LEMMA SoundStep ==
    ASSUME RepoType, RepoType', Sound, Environment \/ repo' = repo
    PROVE  Sound' /\ (repo'.lost = {} => Grows(repo, repo'))
<1> SUFFICES ASSUME repo'.lost = {}
             PROVE  /\ repo.lost = {} /\ repo.have \subseteq repo'.have /\ Whole(repo'.have)
                    /\ \A n \in Ref : repo'.refs[n] # None => CommitAt(repo', repo'.refs[n]) # None
  BY DEF Sound, Grows, RepoType
<1>1. CASE repo' = repo
  BY <1>1 DEF Sound
<1>2. ASSUME NEW n \in Ref, DeleteRef(n)
      PROVE  /\ repo.lost = {} /\ repo.have = repo'.have
             /\ \A m \in Ref : repo'.refs[m] \in {None, repo.refs[m]}
  BY <1>2 DEF DeleteRef, RepoType
<1>3. ASSUME NEW n \in Ref, NEW o \in Target[n], Push(n, o)
      PROVE  /\ repo.lost = {} /\ repo.have \subseteq repo'.have /\ Whole(repo'.have)
             /\ \A m \in Ref : repo'.refs[m] # None => CommitAt(repo', repo'.refs[m]) # None
  <2>1. /\ repo.lost = {} /\ repo'.have = repo.have \cup Reach[o]
        /\ repo'.refs[n] = o /\ \A m \in Ref \ {n} : repo'.refs[m] = repo.refs[m]
    BY <1>3 DEF Push, RepoType
  <2>2. /\ o \in Reach[o] /\ Whole(Reach[o])
        /\ (IF Kind[o] = "tag" THEN Tagged[o] ELSE o) \in Commit
    BY PushAssumption
  <2>3. Whole(repo'.have)
    BY <2>1, <2>2, WholeTogether DEF Sound
  <2>4. CommitAt(repo', o) # None
    <3>1. o \in repo'.have /\ o \in Object
      BY <2>1, <2>2 DEF RepoType
    <3>2. Kind[o] = "tag" => Tagged[o] \in repo'.have
      BY <2>3, <3>1 DEF Whole
    <3> QED
      BY <2>2, <3>1, <3>2, NoneAssumption DEF CommitAt, Commit
  <2>5. \A k : CommitAt(repo, k) # None => CommitAt(repo', k) # None
    BY <2>1 DEF CommitAt
  <2> QED
    BY <2>1, <2>3, <2>4, <2>5 DEF Sound
<1>4. ASSUME NEW o \in Fragile, Lose(o)
      PROVE  FALSE
  BY <1>4 DEF Lose, RepoType
<1>5. CASE Expire
  BY <1>5 DEF Expire, world, Sound
<1>6. ASSUME NEW n \in Ref, DeleteRef(n)
      PROVE  \A m \in Ref : repo'.refs[m] # None => CommitAt(repo', repo'.refs[m]) # None
  <2>1. \A k : CommitAt(repo', k) = CommitAt(repo, k)
    BY <1>2, <1>6 DEF CommitAt
  <2> QED
    BY <1>2, <1>6, <2>1 DEF Sound
<1> QED
  BY <1>1, <1>2, <1>3, <1>4, <1>5, <1>6 DEF Environment, Sound
-----------------------------------------------------------------------------
(* Pages for full SHA1s *)

StaticQuery(q) ==
    q \in Query /\ q.id \in Object /\ q.id2 \in Object \cup {None}
        /\ CommandOf(q) \notin IgnoresId

NoError(s) == TokensOf(s, {"error"}) = {}

\* Nor is there the log of a commit that has not come yet
Good(s) == NoError(s) /\ \A x \in TokensOf(s, {"log"}) : x # Shows("log", None)

\* Where the tokens of a page are
LEMMA LayoutAt ==
    ASSUME NEW body \in Seq(Token)
    PROVE  /\ Layout(body) \in Seq(Token) /\ Len(Layout(body)) = Len(body) + 3
           /\ Layout(body)[1] = Tok("header") /\ Layout(body)[2] = Tok("open")
           /\ \A i \in DOMAIN body : /\ i + 2 \in DOMAIN Layout(body)
                                    /\ Layout(body)[i + 2] = body[i]
           /\ Layout(body)[Len(body) + 3] = Tok("close")
<1>1. \A t \in TokenName : Tok(t) \in Token
  BY NoneAssumption DEF Tok, Token
<1>2. {Tok("header"), Tok("open"), Tok("close")} \subseteq Token
  BY <1>1 DEF TokenName
<1> DEFINE h == Tok("header")  o == Tok("open")  c == Tok("close")
<1>3. h \in Token /\ o \in Token /\ c \in Token
  BY <1>2
<1>4. Layout(body) = <<h, o>> \o body \o <<c>>
  BY DEF Layout
<1> DEFINE s == Layout(body)
<1> HIDE DEF h, o, c, s
<1>5. <<h, o>> \in Seq(Token) /\ <<c>> \in Seq(Token)
  BY <1>3
<1>6. /\ <<h, o>> \o body \in Seq(Token) /\ Len(<<h, o>> \o body) = Len(body) + 2
      /\ (<<h, o>> \o body)[1] = h /\ (<<h, o>> \o body)[2] = o
      /\ \A i \in 1 .. Len(body) : (<<h, o>> \o body)[i + 2] = body[i]
  BY <1>5
<1>7. /\ s \in Seq(Token) /\ Len(s) = Len(body) + 3
      /\ \A i \in 1 .. Len(body) + 2 : s[i] = (<<h, o>> \o body)[i]
      /\ s[Len(body) + 3] = c
  BY <1>4, <1>5, <1>6 DEF s
<1>8. s[1] = h /\ s[2] = o
  BY <1>6, <1>7
<1>9. \A i \in DOMAIN body : i + 2 \in DOMAIN s /\ s[i + 2] = body[i]
  <2> SUFFICES ASSUME NEW i \in DOMAIN body
               PROVE  i + 2 \in DOMAIN s /\ s[i + 2] = body[i]
    OBVIOUS
  <2>1. i \in 1 .. Len(body) /\ Len(body) \in Nat
    OBVIOUS
  <2>2. i + 2 \in 1 .. Len(body) + 2
    BY <2>1
  <2> QED
    BY <1>6, <1>7, <2>1, <2>2
<1> QED
  BY <1>7, <1>8, <1>9 DEF h, o, c, s

\* A sequence with the token of an error in it is no page without an error.
LEMMA ErrorInside ==
    ASSUME NEW s, NEW i \in DOMAIN s, s[i] = Tok("error")
    PROVE  ~NoError(s)
  BY DEF NoError, TokensOf, Tok

LEMMA GoodParts ==
    ASSUME NEW T, NEW s \in Seq(T), NEW u \in Seq(T), Good(s \o u)
    PROVE  Good(s) /\ Good(u)
  BY TokensOfBoth DEF Good, NoError

LEMMA GoodSame ==
    ASSUME NEW s, NEW u, SameButRefs(u, s)
    PROVE  Good(u) <=> Good(s)
<1>1. {"error"} \cap RefsShown = {} /\ {"log"} \cap RefsShown = {}
  BY DEF RefsShown
<1> QED
  BY <1>1, TokensOfSame DEF Good, NoError

LEMMA ErrorFollowed ==
    ASSUME NEW T, NEW s \in Seq(T), NEW u \in Seq(T), ~NoError(s) \/ ~NoError(u)
    PROVE  ~NoError(s \o u)
  BY TokensOfBoth DEF NoError

\* The pages on which something has gone wrong say so.
LEMMA ErrorsShow ==
    /\ ErrorPage \in Seq(Token) /\ ~NoError(ErrorPage)
    /\ ~NoError(Layout(<<Tok("body"), Tok("error")>>))
    /\ ~NoError(Layout(<<Tok("error")>>))
    /\ ~NoError(Layout(<<Tok("refs"), Tok("error")>>))
    /\ ~NoError(<<Tok("header"), Tok("open"), Tok("error")>>)
<1>1. \A t \in TokenName : Tok(t) \in Token
  BY NoneAssumption DEF Tok, Token
<1>2. /\ <<Tok("error")>> \in Seq(Token) /\ <<Tok("body"), Tok("error")>> \in Seq(Token)
      /\ <<Tok("refs"), Tok("error")>> \in Seq(Token)
  BY <1>1 DEF TokenName
<1>3. /\ 1 \in DOMAIN <<Tok("error")>> /\ 2 \in DOMAIN <<Tok("body"), Tok("error")>>
      /\ 2 \in DOMAIN <<Tok("refs"), Tok("error")>>
  OBVIOUS
<1>4. \A body \in Seq(Token) : \A i \in DOMAIN body :
          body[i] = Tok("error") => Layout(body) \in Seq(Token) /\ ~NoError(Layout(body))
  BY LayoutAt, ErrorInside
<1>5. /\ <<Tok("error")>>[1] = Tok("error") /\ <<Tok("body"), Tok("error")>>[2] = Tok("error")
      /\ <<Tok("refs"), Tok("error")>>[2] = Tok("error")
  OBVIOUS
<1>6. 3 \in DOMAIN <<Tok("header"), Tok("open"), Tok("error")>>
  OBVIOUS
<1> QED
  BY <1>2, <1>3, <1>4, <1>5, <1>6, ErrorInside DEF ErrorPage

\* What a full SHA1 leads to, it leads to on every branch.
LEMMA StaticRevision ==
    ASSUME NEW q, StaticQuery(q), NEW r, NEW h
    PROVE  /\ Rev(q, h) = q.id /\ Resolve(r, q.id) = q.id
           /\ q.id # None /\ q.id \notin Ref /\ q.id \notin Tag
           /\ q.id2 # None => Resolve(r, q.id2) = q.id2
  BY NoneAssumption, NameAssumption DEF StaticQuery, Rev, Resolve, Ref

\* The three ways to print a diff: as a page, raw, and as a part of a page
DiffPage(r, new, old, statonly) == Diff(r, new, old, TRUE, FALSE, statonly)
RawDiff(r, new, old, statonly) == Diff(r, new, old, TRUE, TRUE, statonly)
DiffPart(r, new, old, statonly) == Diff(r, new, old, FALSE, FALSE, statonly)

\* A diff of commits that can be read is the same later.
LEMMA DiffStays ==
    ASSUME NEW r, NEW r2, Grows(r, r2), NEW new \in Object, NEW old \in Object \cup {None},
           NEW statonly
    PROVE  /\ NoError(DiffPage(r, new, old, statonly)) =>
                  DiffPage(r2, new, old, statonly) = DiffPage(r, new, old, statonly)
           /\ NoError(RawDiff(r, new, old, statonly)) =>
                  RawDiff(r2, new, old, statonly) = RawDiff(r, new, old, statonly)
           /\ NoError(DiffPart(r, new, old, statonly)) =>
                  DiffPart(r2, new, old, statonly) = DiffPart(r, new, old, statonly)
<1> DEFINE c == CommitAt(r, new)
           base == IF old # None THEN old ELSE FirstParent(c)
           wrong == c = None \/ (base # None /\ CommitAt(r, base) = None)
<1>1. /\ Resolve(r, new) = new /\ Resolve(r2, new) = new
      /\ old # None => Resolve(r, old) = old /\ Resolve(r2, old) = old
  BY DEF Resolve
<1>2. wrong => /\ DiffPage(r, new, old, statonly) = ErrorPage
               /\ RawDiff(r, new, old, statonly) = ErrorPage
               /\ DiffPart(r, new, old, statonly) = ErrorPage
  BY <1>1 DEF Diff, DiffPage, RawDiff, DiffPart
<1>3. ~wrong => CommitAt(r2, new) = c /\ (base # None => CommitAt(r2, base) # None)
  BY CommitStays
<1>4. CASE wrong
  BY <1>2, <1>4, ErrorsShow
<1>5. CASE ~wrong
  BY <1>1, <1>3, <1>5 DEF Diff, DiffPage, RawDiff, DiffPart
<1> QED
  BY <1>4, <1>5

\* The pages that look at a commit, and are no error pages, stay the same.
LEMMA CommitStartStays ==
    ASSUME NEW r, NEW r2, Grows(r, r2), NEW q, StaticQuery(q), NEW h, NEW h2,
           NoError(CommitStart(r, q, h))
    PROVE  CommitStart(r2, q, h2) = CommitStart(r, q, h)
<1> DEFINE c == CommitAt(r, q.id)
<1>1. /\ Resolve(r, Rev(q, h)) = q.id /\ Resolve(r2, Rev(q, h2)) = q.id
  BY StaticRevision
<1>2. c # None
  BY <1>1, ErrorsShow DEF CommitStart
<1>3. CommitAt(r2, q.id) = c
  BY <1>2, CommitStays
<1>4. ReadParents(r2, c) = ReadParents(r, c)
  BY <1>2, <1>3, CommitIsWhole DEF Grows
<1> QED
  BY <1>1, <1>3, <1>4 DEF CommitStart

LEMMA ComparableStays ==
    ASSUME NEW r, NEW r2, Grows(r, r2), NEW q, StaticQuery(q), Comparable(r, q)
    PROVE  Comparable(r2, q)
<1>1. \A n \in {q.id, q.id2} : Resolve(r, n) = n /\ Resolve(r2, n) = n
  BY StaticRevision DEF Comparable
<1> QED
  BY <1>1, CommitStays DEF Comparable

LEMMA CompareStartStays ==
    ASSUME NEW r, NEW r2, Grows(r, r2), NEW q, StaticQuery(q), NoError(CompareStart(r, q))
    PROVE  /\ CompareStart(r2, q) = CompareStart(r, q)
           /\ Comparable(r, q) /\ Comparable(r2, q)
           /\ CommitOf(r2, q.id2) = CommitOf(r, q.id2)
<1>1. {q.id, q.id2} # {None}
  BY StaticRevision
<1>2. Comparable(r, q)
  BY <1>1, ErrorsShow DEF CompareStart
<1>3. Comparable(r2, q)
  BY <1>2, ComparableStays
<1>4. CommitOf(r2, q.id2) = CommitOf(r, q.id2)
  <2>1. q.id2 # None /\ CommitAt(r, Resolve(r, q.id2)) # None
    BY <1>2 DEF Comparable
  <2>2. Resolve(r, q.id2) = q.id2 /\ Resolve(r2, q.id2) = q.id2
    BY <2>1, StaticRevision
  <2> QED
    BY <2>1, <2>2, CommitStays DEF CommitOf
<1> QED
  BY <1>1, <1>2, <1>3, <1>4 DEF CompareStart

LEMMA DiffBelowStays ==
    ASSUME NEW r, NEW r2, Grows(r, r2), NEW q, StaticQuery(q), NEW h, NEW h2,
           q.page = "commit" => NoError(CommitStart(r, q, h)),
           q.page = "compare" => NoError(CompareStart(r, q))
    PROVE  DiffBelow(r2, q, h2) = DiffBelow(r, q, h)
<1> DEFINE c == CommitAt(r, q.id)
<1>1. /\ Rev(q, h) = q.id /\ Rev(q, h2) = q.id
      /\ Resolve(r, q.id) = q.id /\ Resolve(r2, q.id) = q.id
      /\ q.id2 # None => Resolve(r, q.id2) = q.id2 /\ Resolve(r2, q.id2) = q.id2
  BY StaticRevision
<1>2. CASE q.page = "commit"
  <2>1. c # None
    BY <1>1, <1>2, ErrorsShow DEF CommitStart
  <2>2. CommitAt(r2, q.id) = c
    BY <2>1, CommitStays
  <2>3. ReadParents(r2, c) = ReadParents(r, c)
    BY <2>1, <2>2, CommitIsWhole DEF Grows
  <2> QED
    BY <1>1, <1>2, <2>2, <2>3 DEF DiffBelow
<1>3. CASE q.page = "compare"
  <2>1. Comparable(r, q) /\ Comparable(r2, q)
    BY <1>3, CompareStartStays
  <2> QED
    BY <1>1, <1>3, <2>1 DEF DiffBelow, Comparable
<1>4. CASE q.page \notin {"commit", "compare"}
  BY <1>4 DEF DiffBelow
<1> QED
  BY <1>2, <1>3, <1>4

LEMMA PatchStays ==
    ASSUME NEW r, NEW r2, Grows(r, r2), NEW q, StaticQuery(q), NEW h, NEW h2,
           NoError(Patch(r, q, h))
    PROVE  Patch(r2, q, h2) = Patch(r, q, h)
<1> DEFINE c == CommitAt(r, q.id)
<1>1. /\ Resolve(r, Rev(q, h)) = q.id /\ Resolve(r2, Rev(q, h2)) = q.id
      /\ q.id2 # None => Resolve(r, q.id2) = q.id2 /\ Resolve(r2, q.id2) = q.id2
  BY StaticRevision
<1>2. c # None /\ (q.id2 # None => CommitAt(r, q.id2) # None)
  BY <1>1, ErrorsShow DEF Patch
<1>3. CommitAt(r2, q.id) = c /\ (q.id2 # None => CommitAt(r2, q.id2) # None)
  BY <1>2, CommitStays
<1>4. /\ FirstParent(c) # None => CommitAt(r, FirstParent(c)) # None
      /\ FirstParent(c) # None => CommitAt(r2, FirstParent(c)) # None
  BY <1>2, <1>3, CommitIsWhole DEF Grows
<1>5. FirstParent(c) \in r.have \cup {None} /\ FirstParent(c) \in r2.have \cup {None}
  BY <1>4 DEF CommitAt
<1> QED
  BY <1>1, <1>2, <1>3, <1>5 DEF Patch

LEMMA TreeStays ==
    ASSUME NEW r, NEW r2, Grows(r, r2), NEW q, StaticQuery(q), NEW h, NEW h2,
           NoError(TreePage(r, q, h))
    PROVE  TreePage(r2, q, h2) = TreePage(r, q, h)
<1> DEFINE c == CommitAt(r, q.id)
           o == IF q.path = None THEN None ELSE Entry[c][q.path]
<1>1. /\ Resolve(r, Rev(q, h)) = q.id /\ Resolve(r2, Rev(q, h2)) = q.id
  BY StaticRevision
<1>2. c # None
  BY <1>1, ErrorsShow DEF TreePage
<1>3. CommitAt(r2, q.id) = c
  BY <1>2, CommitStays
<1>4. <<Tok("close")>> \in Seq(Token)
  BY DEF Tok, Token, TokenName
<1>5. q.path # None /\ o # None /\ Kind[o] # "tree" => TreeObject(r2, o) = TreeObject(r, o)
  <2> SUFFICES ASSUME q.path # None, o # None, Kind[o] # "tree"
               PROVE  o \in r.have
    BY DEF TreeObject, Grows
  <2>1. NoError(TreeObject(r, o) \o <<Tok("close")>>)
    BY <1>1, <1>2 DEF TreePage
  <2> QED
    BY <2>1, <1>4, ErrorsShow, ErrorFollowed DEF TreeObject
<1> QED
  BY <1>1, <1>2, <1>3, <1>5 DEF TreePage

LEMMA PlainStays ==
    ASSUME NEW r, NEW r2, Grows(r, r2), NEW q, StaticQuery(q), NEW h, NEW h2,
           NoError(PlainPage(r, q, h))
    PROVE  PlainPage(r2, q, h2) = PlainPage(r, q, h)
<1> DEFINE c == CommitAt(r, q.id)
           o == IF q.path = None THEN None ELSE Entry[c][q.path]
<1>1. /\ Resolve(r, Rev(q, h)) = q.id /\ Resolve(r2, Rev(q, h2)) = q.id
  BY StaticRevision
<1>2. c # None
  BY <1>1, ErrorsShow DEF PlainPage
<1>3. CommitAt(r2, q.id) = c
  BY <1>2, CommitStays
<1>4. q.path # None /\ o # None /\ Kind[o] \notin {"commit", "tree"} =>
          PlainObject(r2, o) = PlainObject(r, o)
  <2> SUFFICES ASSUME q.path # None, o # None, Kind[o] \notin {"commit", "tree"},
                      o \notin r.have
               PROVE  FALSE
    BY DEF PlainObject, Grows
  <2>1. NoError(ErrorPage \o ErrorPage)
    BY <1>1, <1>2 DEF PlainPage, PlainObject
  <2> QED
    BY <2>1, ErrorsShow, ErrorFollowed
<1> QED
  BY <1>1, <1>2, <1>3, <1>4 DEF PlainPage

LEMMA BlameStays ==
    ASSUME NEW r, NEW r2, Grows(r, r2), NEW q, StaticQuery(q), NEW h, NEW h2,
           NoError(BlamePage(r, q, h))
    PROVE  BlamePage(r2, q, h2) = BlamePage(r, q, h)
<1> DEFINE c == CommitAt(r, q.id)
           o == IF q.path = None THEN None ELSE Entry[c][q.path]
<1>1. /\ Resolve(r, Rev(q, h)) = q.id /\ Resolve(r2, Rev(q, h2)) = q.id
  BY StaticRevision
<1>2. c # None /\ BlamePage(r, q, h) = BlameObject(r, o) /\ EnableBlame
      /\ o # None /\ Kind[o] = "blob"
  BY <1>1, ErrorsShow DEF BlamePage
<1>3. CommitAt(r2, q.id) = c
  BY <1>2, CommitStays
<1>4. BlameObject(r2, o) = BlameObject(r, o)
  BY <1>2, ErrorsShow DEF BlameObject, Grows
<1> QED
  BY <1>1, <1>2, <1>3, <1>4 DEF BlamePage

LEMMA BlobStays ==
    ASSUME NEW r, NEW r2, Grows(r, r2), NEW q, StaticQuery(q), NEW h, NEW h2,
           NoError(BlobPage(r, q, h))
    PROVE  BlobPage(r2, q, h2) = BlobPage(r, q, h)
<1>1. q.id # None /\ q.id \notin Ref
  BY StaticRevision
<1>2. q.id \in r.have /\ q.id \in r2.have
  BY <1>1, ErrorsShow DEF BlobPage, Grows
<1> QED
  BY <1>1, <1>2 DEF BlobPage

\* A log that is not empty stays as it is.
LEMMA LogStays ==
    ASSUME NEW r, NEW r2, Grows(r, r2), NEW q, StaticQuery(q), NEW h, NEW h2,
           NEW s \in LogPage(r, q, h), Good(s)
    PROVE  s \in LogPage(r2, q, h2)
<1>1. /\ Resolve(r, Rev(q, h)) = q.id /\ Resolve(r2, Rev(q, h2)) = q.id
  BY StaticRevision
<1> DEFINE l == Shows("log", CommitOf(r, Rev(q, h)))
           body == <<l, Tok("refs")>>
<1>2. s = Layout(body)
  BY DEF LogPage, Walk, Grows
<1>3. CommitOf(r, Rev(q, h)) # None
  <2>1. CommitOf(r, Rev(q, h)) \in Object \cup {None}
    BY HaveIsShown DEF CommitOf, Grows
  <2>2. l \in Token /\ Tok("refs") \in Token /\ l.t = "log"
    BY <2>1 DEF Shows, Tok, Token, TokenName
  <2>3. l # Shows("log", None) => CommitOf(r, Rev(q, h)) # None
    OBVIOUS
  <2> HIDE DEF l
  <2>4. body \in Seq(Token) /\ 1 \in DOMAIN body /\ body[1] = l
    BY <2>2
  <2> HIDE DEF body
  <2>5. 3 \in DOMAIN Layout(body) /\ Layout(body)[3] = l
    BY <2>4, LayoutAt
  <2>6. l \in TokensOf(s, {"log"})
    BY <1>2, <2>2, <2>5 DEF TokensOf
  <2> QED
    BY <2>3, <2>6 DEF Good
<1>4. CommitOf(r2, Rev(q, h2)) = CommitOf(r, Rev(q, h))
  BY <1>1, <1>3, CommitStays DEF CommitOf
<1> QED
  BY <1>2, <1>4 DEF LogPage, Walk, Grows

LEMMA SnapshotStays ==
    ASSUME NEW r, NEW r2, Grows(r, r2), NEW q, StaticQuery(q), NEW h, NEW h2,
           NEW s \in SnapshotPage(r, q, h), NoError(s)
    PROVE  s \in SnapshotPage(r2, q, h2)
<1>1. q.id # None /\ Resolve(r, q.id) = q.id /\ Resolve(r2, q.id) = q.id
  BY StaticRevision
<1>2. s # ErrorPage
  BY ErrorsShow
<1>3. CommitAt(r, q.id) # None => CommitAt(r2, q.id) = CommitAt(r, q.id)
  BY CommitStays
<1> QED
  BY <1>1, <1>2, <1>3 DEF SnapshotPage

LEMMA AboutStays ==
    ASSUME NEW r, NEW r2, Grows(r, r2), NEW q, StaticQuery(q), NEW h, NEW h2,
           NEW s \in AboutPage(r, q, h), NoError(s)
    PROVE  s \in AboutPage(r2, q, h2)
  BY PlainStays DEF AboutPage, ReadmePage

\* Whatever has been pushed, and whichever branch is looked at: the response of a
\* command that looks at the id is one that it may give, if it was no error page.
LEMMA ResponseStays ==
    ASSUME NEW r, NEW r2, Grows(r, r2), NEW q, StaticQuery(q), NEW h, NEW h2,
           CommandOf(q) \in Command, NEW s \in Responses(r, q, h), Good(s)
    PROVE  s \in Responses(r2, q, h2) /\ DiffBelow(r2, q, h2) = DiffBelow(r, q, h)
<1> DEFINE p == CommandOf(q)
<1>1. Rev(q, h) = q.id /\ Rev(q, h2) = q.id
  BY StaticRevision
<1>2. NoError(s) /\ p \notin IgnoresId
  BY DEF Good, StaticQuery
<1>3. q.page \in {"commit", "compare"} => p = q.page
  BY DEF CommandOf
<1>4. CASE p = "commit"
  <2>1. s = CommitStart(r, q, h) /\ Responses(r2, q, h2) = {CommitStart(r2, q, h2)}
    BY <1>4 DEF Responses, IsClone
  <2>2. q.page = "commit"
    BY <1>4 DEF CommandOf
  <2>3. CommitStart(r2, q, h2) = s
    BY <1>2, <2>1, CommitStartStays
  <2> QED
    BY <1>2, <2>1, <2>2, <2>3, DiffBelowStays
<1>5. CASE p = "compare"
  <2>1. s = CompareStart(r, q) /\ Responses(r2, q, h2) = {CompareStart(r2, q)}
    BY <1>5 DEF Responses, IsClone
  <2>2. q.page = "compare"
    BY <1>5 DEF CommandOf
  <2>3. CompareStart(r2, q) = s
    BY <1>2, <2>1, CompareStartStays
  <2> QED
    BY <1>2, <2>1, <2>2, <2>3, DiffBelowStays
<1>6. ASSUME p \notin {"commit", "compare"}
      PROVE  s \in Responses(r2, q, h2)
  <2>1. CASE p \in {"diff", "rawdiff"}
    <3>1. q.id \in Object /\ q.id2 \in Object \cup {None}
      BY DEF StaticQuery
    <3>2. CASE p = "diff"
      <4>1. s = DiffPage(r, q.id, q.id2, q.statonly)
        BY <3>2, <1>1 DEF Responses, IsClone, DiffPage
      <4>2. Responses(r2, q, h2) = {DiffPage(r2, q.id, q.id2, q.statonly)}
        BY <3>2, <1>1 DEF Responses, IsClone, DiffPage
      <4> QED
        BY <1>2, <3>1, <4>1, <4>2, DiffStays
    <3>3. CASE p = "rawdiff"
      <4>1. s = RawDiff(r, q.id, q.id2, q.statonly)
        BY <3>3, <1>1 DEF Responses, IsClone, RawDiff
      <4>2. Responses(r2, q, h2) = {RawDiff(r2, q.id, q.id2, q.statonly)}
        BY <3>3, <1>1 DEF Responses, IsClone, RawDiff
      <4> QED
        BY <1>2, <3>1, <4>1, <4>2, DiffStays
    <3> QED
      BY <2>1, <3>2, <3>3
  <2>2. CASE p = "patch"
    BY <1>2, <2>2, PatchStays DEF Responses
  <2>3. CASE p = "tag"
    <3>1. TagPage(r, q, h) = TagPage(r2, q, h2)
      BY StaticRevision DEF TagPage
    <3> QED
      BY <2>3, <3>1 DEF Responses
  <2>4. CASE p = "tree"
    BY <1>2, <2>4, TreeStays DEF Responses
  <2>5. CASE p = "plain"
    BY <1>2, <2>5, PlainStays DEF Responses
  <2>6. CASE p = "blame"
    BY <1>2, <2>6, BlameStays DEF Responses
  <2>7. CASE p = "blob"
    BY <1>2, <2>7, BlobStays DEF Responses
  <2>8. CASE p = "snapshot"
    BY <1>2, <2>8, SnapshotStays DEF Responses
  <2>9. CASE p = "about"
    BY <1>2, <2>9, AboutStays DEF Responses
  <2>10. CASE p \in {"repolist", "ls_cache"}
    BY <2>10 DEF Responses, IsClone, RepolistPage
  <2>11. CASE p = "log"
    <3>1. s \in LogPage(r, q, h) /\ Responses(r2, q, h2) = LogPage(r2, q, h2)
      BY <2>11 DEF Responses, IsClone
    <3> QED
      BY <3>1, LogStays
  <2> QED
    BY <1>2, <1>6, <2>1, <2>2, <2>3, <2>4, <2>5, <2>6, <2>7, <2>8, <2>9, <2>10, <2>11
       DEF Command, IgnoresId
<1>7. ASSUME p \notin {"commit", "compare"}
      PROVE  DiffBelow(r2, q, h2) = DiffBelow(r, q, h)
  BY <1>3, <1>7 DEF DiffBelow
<1> QED
  BY <1>4, <1>5, <1>6, <1>7

-----------------------------------------------------------------------------
(* What is kept of a page for full SHA1s *)

\* What a request may get when r is the repository
PagesOf(r, q, h) ==
    LET d == DiffBelow(r, q, h)
    IN  IF d = None THEN Responses(r, q, h)
        ELSE {s \o u : s \in Responses(r, q, h),
                       u \in {Rest(r, q, list, d) : list \in Lists(r, q)}}

LEMMA PageIs ==
    ASSUME NEW r, NEW q, NEW h, NEW s \in Responses(r, q, h), NEW d, d = DiffBelow(r, q, h)
    PROVE  /\ d = None => s \in PagesOf(r, q, h)
           /\ d # None => \A list \in Lists(r, q) : s \o Rest(r, q, list, d) \in PagesOf(r, q, h)
<1>1. CASE d = None
  <2>1. PagesOf(r, q, h) = Responses(r, q, h)
    BY <1>1 DEF PagesOf
  <2> QED
    BY <1>1, <2>1
<1>2. CASE d # None
  <2>1. PICK U : U = {Rest(r, q, list, d) : list \in Lists(r, q)}
    OBVIOUS
  <2>2. PagesOf(r, q, h) = {v \o u : v \in Responses(r, q, h), u \in U}
    BY <1>2, <2>1 DEF PagesOf
  <2>3. ASSUME NEW list \in Lists(r, q)
        PROVE  s \o Rest(r, q, list, d) \in PagesOf(r, q, h)
    <3>1. Rest(r, q, list, d) \in U
      BY <2>1
    <3> QED
      BY <2>2, <3>1
  <2> QED
    BY <1>2, <2>3
<1> QED
  BY <1>1, <1>2

LEMMA PagesNowAre == \A h : PagesNow(h) = PagesOf(repo, query, h)
<1> SUFFICES ASSUME NEW h PROVE PagesNow(h) = PagesOf(repo, query, h)
  OBVIOUS
<1>1. PICK d : d = DiffBelow(repo, query, h)
  OBVIOUS
<1>2. SecondHalves(d) = {Rest(repo, query, list, d) : list \in Lists(repo, query)}
  BY SecondHalvesAre
<1>3. CASE d = None
  BY <1>1, <1>3 DEF PagesNow, PagesOf
<1>4. CASE d # None
  BY <1>1, <1>2, <1>4 DEF PagesNow, PagesOf
<1> QED
  BY <1>3, <1>4

\* The diff below is one of full SHA1s, too.
LEMMA BelowStatic ==
    ASSUME NEW r, r.have \subseteq Object, NEW q, StaticQuery(q), NEW h,
           DiffBelow(r, q, h) # None
    PROVE  LET d == DiffBelow(r, q, h)
           IN  d.new \in Object /\ d.old \in Object \cup {None}
<1> DEFINE c == CommitAt(r, q.id)
<1>1. /\ Rev(q, h) = q.id /\ Resolve(r, q.id) = q.id /\ q.id \in Object
      /\ q.id2 # None => Resolve(r, q.id2) = q.id2 /\ q.id2 \in Object
  BY StaticRevision DEF StaticQuery
<1>2. CASE q.page = "commit" /\ c # None
  <2>1. c \in Commit
    BY <1>2 DEF CommitAt, Commit
  <2>2. Parents[c] \in Seq(Commit)
    BY <2>1, ObjectAssumption
  <2>3. FirstParent(c) \in Object \cup {None}
    <3> HIDE DEF c
    <3>1. Parents[c] # <<>> => Parents[c][1] \in Commit
      BY <2>2
    <3> QED
      BY <3>1 DEF FirstParent, Commit
  <2> QED
    BY <1>1, <1>2, <2>3 DEF DiffBelow
<1>3. CASE q.page = "compare" /\ Comparable(r, q)
  BY <1>1, <1>3 DEF DiffBelow, Comparable
<1> QED
  BY <1>1, <1>2, <1>3 DEF DiffBelow

\* What a page goes on with stays the same.
LEMMA RestStays ==
    ASSUME NEW r, NEW r2, Grows(r, r2), NEW q, StaticQuery(q), NEW h,
           NEW d, d = DiffBelow(r, q, h), d # None, NEW list \in Lists(r, q),
           Good(Rest(r, q, list, d))
    PROVE  list \in Lists(r2, q) /\ Rest(r2, q, list, d) = Rest(r, q, list, d)
<1>1. r.have \subseteq Object
  BY DEF Grows
<1>2. d.new \in Object /\ d.old \in Object \cup {None}
  BY <1>1, BelowStatic
<1>3. PICK u : u = DiffPart(r, d.new, d.old, q.statonly)
  OBVIOUS
<1>4. u \in Seq(NoCommit)
  BY <1>1, <1>3, DiffTokens DEF DiffPart
<1>5. list \in Seq(NoCommit)
  BY <1>1, ListTokens
<1>6. NoError(u)
  <2> DEFINE e == <<Tok("close")>>
  <2>1. e \in Seq(NoCommit)
    <3>1. Tok("close") \in NoCommit
      BY TokType DEF TokenName, Neither, First, Second
    <3> QED
      BY <3>1
  <2> HIDE DEF e
  <2>2. PICK v : v = list \o u
    OBVIOUS
  <2>3. v \in Seq(NoCommit)
    BY <1>4, <1>5, <2>2
  <2>4. Rest(r, q, list, d) = v \o e
    BY <1>3, <2>2 DEF Rest, DiffPart, e
  <2>5. Good(v)
    BY <2>1, <2>3, <2>4, GoodParts
  <2> QED
    BY <1>4, <1>5, <2>2, <2>5, GoodParts DEF Good
<1>7. DiffPart(r2, d.new, d.old, q.statonly) = u
  BY <1>2, <1>3, <1>6, DiffStays
<1>8. Lists(r2, q) = Lists(r, q)
  <2>1. CASE q.page # "compare"
    BY <2>1 DEF Lists
  <2>2. CASE q.page = "compare"
    <3>1. Comparable(r, q)
      BY <2>2 DEF DiffBelow
    <3>2. Comparable(r2, q)
      BY <3>1, ComparableStays
    <3>3. CommitOf(r2, q.id2) = CommitOf(r, q.id2)
      <4>1. q.id2 # None /\ CommitAt(r, Resolve(r, q.id2)) # None
        BY <3>1 DEF Comparable
      <4>2. Resolve(r, q.id2) = q.id2 /\ Resolve(r2, q.id2) = q.id2
        BY <4>1, StaticRevision
      <4> QED
        BY <4>1, <4>2, CommitStays DEF CommitOf
    <3> QED
      BY <3>1, <3>2, <3>3 DEF Lists, CompareList, Grows
  <2> QED
    BY <2>1, <2>2
<1> QED
  BY <1>3, <1>7, <1>8 DEF Rest, DiffPart

\* Responses and what follows them are tokens that tell nothing of the refs.
LEMMA PartsType ==
    ASSUME NEW r, r.have \subseteq Object, NEW q \in Query, NEW h, CommandOf(q) \in Command
    PROVE  /\ \A s \in Responses(r, q, h) : s \in Seq(PageToken) /\ s \in Seq(Token)
           /\ \A list \in Lists(r, q) : \A d :
                  Rest(r, q, list, d) \in Seq(PageToken) /\ Rest(r, q, list, d) \in Seq(Token)
<1>1. NoDiff \subseteq PageToken /\ NoCommit \subseteq PageToken
  BY DEF NoDiff, NoCommit
<1>2. <<Tok("redirect")>> \in Seq(PageToken) /\ <<Tok("die")>> \in Seq(PageToken)
  <2>1. Tok("redirect") \in PageToken /\ Tok("die") \in PageToken
    BY TokType DEF TokenName, First, Second, Neither, NoDiff
  <2> QED
    BY <2>1
<1>3. ASSUME NEW s \in Responses(r, q, h)
      PROVE  s \in Seq(PageToken) /\ s \in Seq(Token)
  <2>1. Response(s, NoDiff) \/ Response(s, NoCommit)
    BY ResponsePages
  <2> QED
    BY <1>1, <1>2, <2>1, PageOfMore, PagesAreTokens DEF Response, Page
<1>4. ASSUME NEW list \in Lists(r, q), NEW d
      PROVE  Rest(r, q, list, d) \in Seq(PageToken) /\ Rest(r, q, list, d) \in Seq(Token)
  <2>1. Rest(r, q, list, d) \in Seq(NoCommit)
    BY RestTokens
  <2> QED
    BY <1>1, <2>1, PageOfMore, PagesAreTokens
<1> QED
  BY <1>3, <1>4

\* A whole page stays one that a request may get.
LEMMA PageStays ==
    ASSUME NEW r, NEW r2, Grows(r, r2), NEW q, StaticQuery(q), NEW h, NEW h2,
           CommandOf(q) \in Command, NEW p \in PagesOf(r, q, h), Good(p)
    PROVE  p \in PagesOf(r2, q, h2)
<1>0. r.have \subseteq Object /\ q \in Query
  BY DEF Grows, StaticQuery
<1>1. PICK d : d = DiffBelow(r, q, h)
  OBVIOUS
<1>2. CASE d = None
  <2>1. p \in Responses(r, q, h)
    BY <1>1, <1>2 DEF PagesOf
  <2>2. p \in Responses(r2, q, h2) /\ DiffBelow(r2, q, h2) = DiffBelow(r, q, h)
    BY <2>1, ResponseStays
  <2> QED
    BY <1>1, <1>2, <2>2, PageIs
<1>3. CASE d # None
  <2>1. PICK s \in Responses(r, q, h) : \E list \in Lists(r, q) : p = s \o Rest(r, q, list, d)
    BY <1>1, <1>3 DEF PagesOf
  <2>2. PICK list \in Lists(r, q) : p = s \o Rest(r, q, list, d)
    BY <2>1
  <2>3. Good(s) /\ Good(Rest(r, q, list, d))
    BY <1>0, <2>2, PartsType, GoodParts
  <2>4. s \in Responses(r2, q, h2) /\ DiffBelow(r2, q, h2) = DiffBelow(r, q, h)
    BY <2>3, ResponseStays
  <2>5. list \in Lists(r2, q) /\ Rest(r2, q, list, d) = Rest(r, q, list, d)
    BY <1>1, <1>3, <2>3, RestStays
  <2> QED
    BY <1>1, <1>3, <2>2, <2>4, <2>5, PageIs
<1> QED
  BY <1>2, <1>3

\* A page that is no error page is what a request gets now, on every branch.
Lasting(p) ==
    Good(p) =>
        /\ CommandOf(query) \in Command
        /\ \A h \in Branch : p \in PagesOf(repo, query, h)

\* So is a page that the diff is still missing from.
Current(s, d) ==
    Good(s) =>
        /\ CommandOf(query) \in Command
        /\ \A h \in Branch : s \in Responses(repo, query, h) /\ DiffBelow(repo, query, h) = d

StaticInv ==
    /\ DiffInv
    /\ Sound
    /\ answer # None => answer.out \in Seq(Token)
    /\ StaticQuery(query) /\ repo.lost = {} =>
           /\ cached # None => Lasting(ButRefs(cached.out))
           /\ answer # None /\ answer.old => Lasting(ButRefs(answer.out))
           /\ caching /\ pc = "finish" => Lasting(ButRefs(out))
           /\ caching /\ pc = "below" => below # None /\ Current(ButRefs(out), below)

LEMMA LastingStays ==
    ASSUME query' = query, StaticQuery(query), Grows(repo, repo'), NEW p, Lasting(p)
    PROVE  Good(p) => /\ CommandOf(query') \in Command
                      /\ \A h \in Branch : p \in PagesOf(repo', query', h)
  BY PageStays, BranchAssumption DEF Lasting

LEMMA CurrentStays ==
    ASSUME query' = query, StaticQuery(query), Grows(repo, repo'), NEW s, NEW d, Current(s, d)
    PROVE  Good(s) =>
               /\ CommandOf(query') \in Command
               /\ \A h \in Branch : /\ s \in Responses(repo', query', h)
                                    /\ DiffBelow(repo', query', h) = d
  BY ResponseStays, BranchAssumption DEF Current

LEMMA StaticInit == Init => StaticInv
  BY DiffInit, SoundInit DEF Init, StaticInv

\* What the process leaves behind when it answers
LEMMA ReplyStatic ==
    ASSUME StaticInv, NEW s \in Seq(Token), NEW old, NEW m, NEW g,
           Reply(s, old, m, g), DiffInv',
           StaticQuery(query) /\ repo.lost = {} => (old => Lasting(ButRefs(s))),
           StaticQuery(query) /\ repo.lost = {} =>
               (cached' # None => Lasting(ButRefs(cached'.out)))
    PROVE  StaticInv'
<1>1. /\ query' = query /\ repo' = repo /\ pc' = "idle" /\ caching' = FALSE
      /\ answer'.out = s /\ answer'.old = old
  BY DEF Reply, NoRequest, world
<1>2. Sound'
  BY <1>1, SoundStep DEF StaticInv, DiffInv, PageInv
<1> QED
  BY <1>1, <1>2 DEF StaticInv, Lasting

\* The process goes on without printing, or prints a page with an error.
LEMMA ProcessStatic ==
    ASSUME StaticInv, DiffInv',
           UNCHANGED <<query, repo, cached>>, answer' = None \/ answer' = answer,
           caching' /\ StaticQuery(query) /\ repo.lost = {} =>
               /\ pc' = "finish" => Lasting(ButRefs(out'))
               /\ pc' = "below" => below' # None /\ Current(ButRefs(out'), below')
    PROVE  StaticInv'
<1>1. Sound'
  BY SoundStep DEF StaticInv, DiffInv, PageInv
<1> QED
  BY <1>1 DEF StaticInv, Lasting, Current

THEOREM StaticStep == StaticInv /\ [Next]_vars => StaticInv'
<1> SUFFICES ASSUME StaticInv, [Next]_vars
             PROVE  StaticInv'
  OBVIOUS
<1>0. DiffInv'
  BY DiffStep DEF StaticInv
<1>1. CASE Environment
  <2>1. /\ UNCHANGED <<query, pc, caching, below, out, answer>>
        /\ cached' # None => cached # None /\ cached'.out = cached.out
    BY <1>1, EnvironmentFrame DEF StaticInv, DiffInv
  <2>2. Sound' /\ (repo'.lost = {} => Grows(repo, repo'))
    BY <1>0, <1>1, SoundStep DEF StaticInv, DiffInv, PageInv
  <2> SUFFICES ASSUME StaticQuery(query), repo'.lost = {}
               PROVE  /\ cached' # None => Lasting(ButRefs(cached.out))'
                      /\ answer' # None /\ answer'.old => Lasting(ButRefs(answer.out))'
                      /\ caching' /\ pc' = "finish" => Lasting(ButRefs(out))'
                      /\ caching' /\ pc' = "below" => below' # None /\ Current(ButRefs(out), below)'
    BY <1>0, <2>1, <2>2 DEF StaticInv
  <2>3. Grows(repo, repo') /\ repo.lost = {} /\ query' = query
    BY <2>1, <2>2 DEF Grows
  <2>4. ASSUME cached' # None
        PROVE  Lasting(ButRefs(cached.out))'
    BY <2>1, <2>3, <2>4, LastingStays DEF StaticInv, Lasting
  <2>5. ASSUME answer' # None, answer'.old
        PROVE  Lasting(ButRefs(answer.out))'
    BY <2>1, <2>3, <2>5, LastingStays DEF StaticInv, Lasting
  <2>6. ASSUME caching', pc' = "finish"
        PROVE  Lasting(ButRefs(out))'
    BY <2>1, <2>3, <2>6, LastingStays DEF StaticInv, Lasting
  <2>7. ASSUME caching', pc' = "below"
        PROVE  below' # None /\ Current(ButRefs(out), below)'
    BY <2>1, <2>3, <2>7, CurrentStays DEF StaticInv, Current
  <2> QED
    BY <2>4, <2>5, <2>6, <2>7
<1>2. ASSUME NEW m \in Method, Receive(m)
      PROVE  StaticInv'
  BY <1>0, <1>2, ProcessStatic DEF Receive, world
<1>3. CASE LoginPost
  <2>1. <<Tok("header"), Tok("login")>> \in Seq(Token)
    BY DEF Tok, Token, TokenName
  <2> QED
    BY <1>0, <1>3, <2>1, ReplyStatic DEF LoginPost, StaticInv
<1>4. CASE Authenticate \/ Miss \/ PrepareCommand
  BY <1>0, <1>4, ProcessStatic DEF Authenticate, Miss, PrepareCommand, world
<1>5. CASE Hit
  <2>1. /\ cached # None /\ cached' = cached
        /\ Reply(cached.out, cached.old, cached.moved, cached.gone)
    BY <1>5 DEF Hit, CachedPage
  <2>2. cached.out \in Seq(Token)
    BY <2>1 DEF StaticInv, DiffInv, PageInv, CachedType
  <2> QED
    BY <1>0, <2>1, <2>2, ReplyStatic DEF StaticInv
<1>6. CASE LoginPage
  <2>1. ~caching' /\ UNCHANGED <<query, repo, cached, answer>>
    BY <1>6 DEF LoginPage, world, StaticInv, DiffInv, PageInv, LoginInv
  <2> QED
    BY <1>0, <2>1, ProcessStatic
<1>7. CASE RefuseRequest
  <2>1. /\ out = <<>> /\ Prints(Printed(ErrorPage), "finish")
        /\ UNCHANGED <<query, repo, cached, answer>>
        /\ repo.refs \in [Ref -> Object \cup {None}]
    BY <1>7 DEF RefuseRequest, world, StaticInv, DiffInv, PageInv, LoginInv, RepoType
  <2> DEFINE u == Printed(ErrorPage)
  <2>2. SameButRefs(u, ErrorPage) /\ out \in Seq(Token)
    BY <2>1, ErrorsShow, PrintedIsSame
  <2>5. u \in Seq(Token) /\ ~Good(u)
    BY <2>2, ErrorsShow, GoodSame DEF SameButRefs, Good
  <2> HIDE DEF u
  <2>3. pc' = "exited" \/ (pc' = "finish" /\ out' = u)
    <3>1. pc' = "exited" \/ (pc' = "finish" /\ out' = out \o u)
      BY <2>1, <2>2, <2>5, PrintsWhat DEF u
    <3> QED
      BY <2>1, <2>5, <3>1
  <2>4. pc' = "finish" => ~Good(ButRefs(out'))
    BY <2>3, <2>5, ButRefsIs, GoodSame
  <2> QED
    BY <1>0, <2>1, <2>3, <2>4, ProcessStatic DEF Lasting
<1>8. CASE RunCommand
  <2> DEFINE next == IF below' = None THEN "finish" ELSE "below"
             d == DiffBelow(repo, query, head)
  <2>1. /\ pc = "command" /\ below' = d
        /\ UNCHANGED <<query, repo, cached, answer>>
    BY <1>8 DEF RunCommand, world
  <2>2. PICK s \in Responses(repo, query, head) : Prints(Printed(s), next)
    BY <1>8 DEF RunCommand
  <2>3. /\ out = <<>> /\ query \in Query /\ CommandOf(query) \in Command
        /\ repo.have \subseteq Object /\ repo.refs \in [Ref -> Object \cup {None}]
    BY <2>1 DEF StaticInv, DiffInv, PageInv, RepoType
  <2>4. s \in Seq(Token) /\ s \in Seq(PageToken) /\ out \in Seq(Token)
    BY <2>3, PartsType
  <2>9. PICK u : SameButRefs(u, s) /\ Prints(u, next)
    BY <2>2, <2>3, <2>4, PrintedIsSame
  <2>10. u \in Seq(Token) /\ ButRefs(u) = s
    BY <2>4, <2>9, ButRefsOfSame DEF SameButRefs
  <2> HIDE DEF next
  <2>5. pc' = "exited" \/ (pc' = next /\ ButRefs(out') = s)
    <3>1. pc' = "exited" \/ (pc' = next /\ out' = out \o u)
      BY <2>4, <2>9, <2>10, PrintsWhat
    <3>2. out \o u = u
      BY <2>3, <2>10
    <3> QED
      BY <2>10, <3>1, <3>2
  <2>6. ASSUME StaticQuery(query), repo.lost = {}, Good(s)
        PROVE  \A h \in Branch : /\ s \in Responses(repo, query, h)
                                 /\ DiffBelow(repo, query, h) = d
    <3>1. Grows(repo, repo)
      BY <2>3, <2>6 DEF Grows, StaticInv, Sound
    <3> QED
      BY <2>3, <2>6, <3>1, ResponseStays
  <2>7. ASSUME StaticQuery(query), repo.lost = {}, pc' = "finish"
        PROVE  Lasting(ButRefs(out'))
    <3>1. d = None /\ ButRefs(out') = s
      BY <2>1, <2>5, <2>7 DEF next
    <3>2. Good(s) => \A h \in Branch : s \in PagesOf(repo, query, h)
      BY <2>6, <2>7, <3>1 DEF PagesOf
    <3> QED
      BY <2>1, <2>3, <3>1, <3>2 DEF Lasting
  <2>8. ASSUME StaticQuery(query), repo.lost = {}, pc' = "below"
        PROVE  below' # None /\ Current(ButRefs(out'), below')
    <3>1. d # None /\ below' = d /\ ButRefs(out') = s
      BY <2>1, <2>5, <2>8 DEF next
    <3> QED
      BY <2>3, <2>6, <2>8, <3>1 DEF Current
  <2> QED
    BY <1>0, <2>1, <2>7, <2>8, ProcessStatic DEF Lasting
<1>9. CASE PrintDiffBelow
  <2>0. PICK list \in Lists(repo, query) : \E s, u :
            s = Rest(repo, query, list, below) /\ SameButRefs(u, s) /\ Prints(u, "finish")
    BY <1>9, SecondOutput DEF StaticInv, DiffInv, PageInv
  <2>5. PICK s, u : s = Rest(repo, query, list, below) /\ SameButRefs(u, s) /\ Prints(u, "finish")
    BY <2>0
  <2>1. /\ pc = "below"
        /\ UNCHANGED <<query, repo, cached, caching, below, answer>>
    BY <1>9 DEF PrintDiffBelow, world
  <2>2. /\ out \in Seq(Token) /\ repo.have \subseteq Object /\ query \in Query
    BY DEF StaticInv, DiffInv, PageInv, RepoType
  <2>6. u \in Seq(Token)
    BY <2>5 DEF SameButRefs
  <2>3. pc' = "exited" \/ (pc' = "finish" /\ out' = out \o u)
    BY <2>2, <2>5, <2>6, PrintsWhat
  <2>4. ASSUME caching, StaticQuery(query), repo.lost = {}, pc' = "finish"
        PROVE  Lasting(ButRefs(out'))
    <3> SUFFICES ASSUME Good(ButRefs(out'))
                 PROVE  /\ CommandOf(query) \in Command
                        /\ \A h \in Branch : ButRefs(out') \in PagesOf(repo, query, h)
      BY DEF Lasting
    <3>1. below # None /\ Current(ButRefs(out), below)
      BY <2>1, <2>4 DEF StaticInv
    <3>2. ButRefs(out') = ButRefs(out) \o ButRefs(u)
      BY <2>2, <2>3, <2>4, <2>6, ButRefsBoth
    <3>3. ButRefs(out) \in Seq(Token) /\ ButRefs(u) \in Seq(Token)
      BY <2>2, <2>6, ButRefsIs DEF SameButRefs
    <3>4. Good(ButRefs(out))
      BY <3>2, <3>3, GoodParts
    <3>5. /\ CommandOf(query) \in Command
          /\ \A h \in Branch : /\ ButRefs(out) \in Responses(repo, query, h)
                               /\ DiffBelow(repo, query, h) = below
      BY <3>1, <3>4 DEF Current
    <3>6. s \in Seq(PageToken)
      BY <2>2, <2>5, <3>5, PartsType
    <3>7. ButRefs(u) = s
      BY <2>5, <3>6, ButRefsOfSame
    <3>8. ASSUME NEW h \in Branch
          PROVE  ButRefs(out') \in PagesOf(repo, query, h)
      <4>1. PICK v : v = ButRefs(out)
        OBVIOUS
      <4>2. ButRefs(out') = v \o s /\ v \in Responses(repo, query, h)
        BY <3>2, <3>5, <3>7, <4>1
      <4>3. PICK d : d = DiffBelow(repo, query, h)
        OBVIOUS
      <4>4. d = below /\ d # None /\ s = Rest(repo, query, list, d)
        BY <2>5, <3>1, <3>5, <4>3
      <4> QED
        BY <4>2, <4>3, <4>4, PageIs
    <3> QED
      BY <3>5, <3>8
  <2> QED
    BY <1>0, <2>1, <2>3, <2>4, ProcessStatic
<1>10. CASE Finish
  <2>1. Reply(out, FALSE, moved, gone) /\ pc = "finish"
        /\ (cached' # None => (caching /\ cached'.out = out) \/ (~caching /\ cached' = cached))
    BY <1>10 DEF Finish, StaticInv, DiffInv, PageInv, LoginInv
  <2>2. out \in Seq(Token)
    BY DEF StaticInv, DiffInv, PageInv
  <2> QED
    BY <1>0, <2>1, <2>2, ReplyStatic DEF StaticInv
<1>11. CASE Exit
  <2>1. (IF caching THEN <<>> ELSE out) \in Seq(Token)
    BY DEF StaticInv, DiffInv, PageInv
  <2> QED
    BY <1>0, <1>11, <2>1, ReplyStatic DEF Exit, StaticInv
<1>12. CASE UNCHANGED vars
  BY <1>0, <1>12, ProcessStatic DEF vars, request, world, StaticInv
<1> QED
  BY <1>1, <1>2, <1>3, <1>4, <1>5, <1>6, <1>7, <1>8, <1>9, <1>10, <1>11, <1>12
     DEF Next, Process

\* StaticPageStaysTrue holds in every state: what cgit_print_* shows of objects for
\* full SHA1s is a function of objects that no push changes.  With cache-static-ttl at
\* -1 only what the page tells of the refs, an error, or an empty log becomes stale.
THEOREM StaticPagesLast == Spec => []StaticPageStaysTrue
<1>1. StaticInv => StaticPageStaysTrue
  <2> SUFFICES ASSUME StaticInv, answer # None, answer.old, query.id \in Object,
                      query.id2 \in Object \cup {None}, CommandOf(query) \notin IgnoresId,
                      repo.lost = {}, TokensOf(answer.out, {"error"}) = {},
                      Shows("log", None) \notin TokensOf(answer.out, {"log"}),
                      NEW h \in Branch, repo.refs[h] # None
               PROVE  ButRefs(answer.out) \in PagesNow(h)
    BY DEF StaticPageStaysTrue
  <2>1. StaticQuery(query) /\ Good(answer.out)
    BY DEF StaticQuery, StaticInv, DiffInv, PageInv, Good, NoError
  <2>2. Lasting(ButRefs(answer.out))
    BY <2>1 DEF StaticInv
  <2>3. answer.out \in Seq(Token)
    BY DEF StaticInv
  <2>4. Good(ButRefs(answer.out))
    BY <2>1, <2>3, ButRefsIs, GoodSame
  <2> QED
    BY <2>2, <2>4, PagesNowAre DEF Lasting
<1> QED
  BY StaticInit, StaticStep, <1>1, PTL DEF Spec

-----------------------------------------------------------------------------
(* One header, one layout *)

\* What stands within a page
Inner == {x \in Token : x.t \notin {"header", "redirect", "open", "close", "die"}}

Never(s, S) == \A i \in DOMAIN s : s[i].t \notin S

\* The pages where cgit returns before or after the layout should end
Excused ==
    \/ query.page = "diff" /\ query.statonly
    \/ query.page = "blame" /\ PathLeadsTo(Unblamable)
    \/ query.page = "tree" /\ PathLeadsTo({o \in Object : Kind[o] = "commit"})

\* A response as it should be, and what is before the diff of one
Fine(s) ==
    /\ Once(s, {"header", "redirect"})
    /\ \/ Never(s, {"open", "close"})
       \/ Once(s, {"open"}) /\ Once(s, {"close"})
       \/ Excused

Begun(s) ==
    Once(s, {"header", "redirect"}) /\ Once(s, {"open"}) /\ Never(s, {"close"})

\* Nothing stops the process of a GET request on the way.
Sendable(s) ==
    /\ s \in Seq(Token) /\ Never(s, {"die"})
    /\ (s # <<>> /\ s[1] = Tok("header")) \/ s = <<Tok("redirect")>>

LEMMA NeverIs == \A s, S : Never(s, S) <=> TokensOf(s, S) = {}
  BY DEF Never, TokensOf

\* Tokens of a kind in what is printed in two parts
LEMMA OnceInTwo ==
    ASSUME NEW T, NEW s \in Seq(T), NEW u \in Seq(T), NEW S
    PROVE  /\ Never(s, S) /\ Never(u, S) => Never(s \o u, S)
           /\ Once(s, S) /\ Never(u, S) => Once(s \o u, S)
           /\ Never(s, S) /\ Once(u, S) => Once(s \o u, S)
<1>1. DOMAIN (s \o u) = 1 .. Len(s) + Len(u) /\ Len(s) \in Nat /\ Len(u) \in Nat
      /\ DOMAIN s = 1 .. Len(s) /\ DOMAIN u = 1 .. Len(u)
  OBVIOUS
<1>2. \A k \in DOMAIN s : k \in DOMAIN (s \o u) /\ (s \o u)[k] = s[k]
  OBVIOUS
<1>3. \A k \in DOMAIN u : k + Len(s) \in DOMAIN (s \o u) /\ (s \o u)[k + Len(s)] = u[k]
  OBVIOUS
<1>4. ASSUME NEW k \in DOMAIN (s \o u)
      PROVE  \/ k \in DOMAIN s /\ (s \o u)[k] = s[k]
             \/ k - Len(s) \in DOMAIN u /\ (s \o u)[k] = u[k - Len(s)]
                /\ k = (k - Len(s)) + Len(s) /\ k \notin DOMAIN s
  BY <1>1
<1> DEFINE w == s \o u
<1>5. Never(s, S) /\ Never(u, S) => Never(w, S)
  BY <1>4 DEF Never
<1>6. ASSUME Once(s, S), Never(u, S)
      PROVE  Once(w, S)
  <2>1. PICK i \in DOMAIN s : \A j \in DOMAIN s : s[j].t \in S <=> j = i
    BY <1>6 DEF Once
  <2>2. \A k \in DOMAIN w : w[k].t \in S <=> k = i
    <3> SUFFICES ASSUME NEW k \in DOMAIN w
                 PROVE  w[k].t \in S <=> k = i
      OBVIOUS
    <3> HIDE DEF w
    <3> QED
      BY <1>4, <1>6, <2>1 DEF Never, w
  <2> QED
    BY <1>2, <2>1, <2>2 DEF Once
<1>7. ASSUME Never(s, S), Once(u, S)
      PROVE  Once(w, S)
  <2>1. PICK i \in DOMAIN u : \A j \in DOMAIN u : u[j].t \in S <=> j = i
    BY <1>7 DEF Once
  <2>2. \A k \in DOMAIN w : w[k].t \in S <=> k = i + Len(s)
    <3> SUFFICES ASSUME NEW k \in DOMAIN w
                 PROVE  w[k].t \in S <=> k = i + Len(s)
      OBVIOUS
    <3>1. CASE k \in DOMAIN s /\ w[k] = s[k]
      <4>1. k # i + Len(s)
        BY <1>1, <3>1
      <4> QED
        BY <1>7, <3>1, <4>1 DEF Never
    <3>2. CASE k - Len(s) \in DOMAIN u /\ w[k] = u[k - Len(s)]
      <4>1. k = i + Len(s) <=> k - Len(s) = i
        BY <1>1
      <4> QED
        BY <2>1, <3>2, <4>1
    <3> QED
      BY <1>4, <3>1, <3>2
  <2> QED
    BY <1>3, <2>1, <2>2 DEF Once
<1> QED
  BY <1>5, <1>6, <1>7

\* One token alone, of a kind or not
LEMMA OnceAlone ==
    ASSUME NEW x \in Token, NEW S
    PROVE  <<x>> \in Seq(Token) /\ (x.t \in S => Once(<<x>>, S)) /\ (x.t \notin S => Never(<<x>>, S))
  BY DEF Once, Never

LEMMA TokenTypes ==
    /\ \A t \in TokenName : Tok(t) \in Token /\ Tok(t).t = t
    /\ \A t \in {"body", "error", "login", "refs"} : Tok(t) \in Inner
    /\ \A o \in Shown : \A t \in {"commit", "log", "stat", "diff", "tag", "tree", "blob"} :
            Shows(t, o) \in Inner
  BY DEF Tok, Shows, Token, Inner, TokenName, Shown

\* What stands within a page is neither.
LEMMA InnerNever ==
    ASSUME NEW s \in Seq(Inner)
    PROVE  s \in Seq(Token) /\ Never(s, {"header", "redirect"}) /\ Never(s, {"open", "close"})
           /\ Never(s, {"open"}) /\ Never(s, {"close"}) /\ Never(s, {"die"})
<1>1. \A i \in DOMAIN s : s[i] \in Inner
  OBVIOUS
<1>2. s \in Seq(Token)
  BY DEF Inner
<1> QED
  BY <1>1, <1>2 DEF Never, Inner

\* The header and the beginning of the layout
LEMMA BeginningIs ==
    LET b == <<Tok("header"), Tok("open")>> IN Begun(b) /\ Sendable(b)
<1> DEFINE b == <<Tok("header"), Tok("open")>>
<1>1. b \in Seq(Token) /\ b[1] = Tok("header")
  BY TokenTypes DEF TokenName
<1>2. DOMAIN b = {1, 2} /\ b[1].t = "header" /\ b[2].t = "open"
  BY TokenTypes DEF TokenName
<1> HIDE DEF b
<1>3. Once(b, {"header", "redirect"}) /\ Once(b, {"open"}) /\ Never(b, {"close"})
      /\ Never(b, {"die"}) /\ b # <<>>
  BY <1>2 DEF Once, Never
<1> QED
  BY <1>1, <1>3 DEF b, Begun, Sendable

\* What is printed within a page
LEMMA BegunGoesOn ==
    ASSUME NEW b, Begun(b), Sendable(b), NEW s \in Seq(Inner)
    PROVE  Begun(b \o s) /\ Sendable(b \o s)
<1>1. s \in Seq(Token) /\ b \in Seq(Token) /\ b # <<>> /\ b[1] = Tok("header")
  BY InnerNever DEF Begun, Once, Sendable, Tok
<1>2. Begun(b \o s) /\ Never(b \o s, {"die"})
  BY <1>1, InnerNever, OnceInTwo DEF Begun, Sendable
<1>3. b \o s \in Seq(Token) /\ (b \o s)[1] = Tok("header") /\ b \o s # <<>>
  BY <1>1
<1> QED
  BY <1>2, <1>3 DEF Sendable

\* The end of a page
LEMMA EndIsFine ==
    ASSUME NEW b, Begun(b), Sendable(b)
    PROVE  Fine(b \o <<Tok("close")>>) /\ Sendable(b \o <<Tok("close")>>)
<1> DEFINE c == <<Tok("close")>>
<1>1. /\ c \in Seq(Token) /\ Once(c, {"close"})
      /\ Never(c, {"header", "redirect"}) /\ Never(c, {"open"}) /\ Never(c, {"die"})
  BY TokenTypes, OnceAlone DEF TokenName
<1> HIDE DEF c
<1>2. b \in Seq(Token) /\ b # <<>> /\ b[1] = Tok("header")
  BY DEF Begun, Once, Sendable, Tok
<1>3. Fine(b \o c) /\ Never(b \o c, {"die"})
  BY <1>1, <1>2, OnceInTwo DEF Begun, Fine, Sendable
<1>4. b \o c \in Seq(Token) /\ b \o c # <<>> /\ (b \o c)[1] = Tok("header")
  BY <1>1, <1>2
<1> QED
  BY <1>3, <1>4 DEF c, Sendable

LEMMA LayoutIsFine ==
    ASSUME NEW s \in Seq(Inner)
    PROVE  Fine(Layout(s)) /\ Sendable(Layout(s))
  BY BeginningIs, BegunGoesOn, EndIsFine DEF Layout

LEMMA RawIsFine ==
    ASSUME NEW s \in Seq(Inner)
    PROVE  Fine(Raw(s)) /\ Sendable(Raw(s))
<1> DEFINE h == <<Tok("header")>>
<1>1. /\ h \in Seq(Token) /\ Once(h, {"header", "redirect"})
      /\ Never(h, {"open", "close"}) /\ Never(h, {"die"}) /\ h[1] = Tok("header") /\ Len(h) = 1
  BY TokenTypes, OnceAlone DEF TokenName
<1> HIDE DEF h
<1>2. s \in Seq(Token)
  BY InnerNever
<1>3. Fine(h \o s) /\ Never(h \o s, {"die"})
  BY <1>1, <1>2, InnerNever, OnceInTwo DEF Fine
<1>4. h \o s \in Seq(Token) /\ h \o s # <<>> /\ (h \o s)[1] = Tok("header")
  BY <1>1, <1>2
<1> QED
  BY <1>3, <1>4 DEF Raw, h, Sendable

Proper(s) == Fine(s) /\ Sendable(s)

\* The pages that are put together from what stands in them
LEMMA ProperPages ==
    /\ \A x \in Inner : Proper(Layout(<<x>>)) /\ Proper(Raw(<<x>>))
    /\ \A x, y \in Inner : Proper(Layout(<<x, y>>))
    /\ \A x \in Inner : LET b == <<Tok("header"), Tok("open"), x>>
                        IN  Begun(b) /\ Sendable(b) /\ Proper(b \o <<Tok("close")>>)
    /\ \A x, y \in Inner : LET b == <<Tok("header"), Tok("open"), x, y>>
                          IN  Begun(b) /\ Sendable(b)
    /\ Proper(ErrorPage) /\ Proper(<<Tok("redirect")>>)
<1>1. ASSUME NEW x \in Inner
      PROVE  Proper(Layout(<<x>>)) /\ Proper(Raw(<<x>>))
  <2>1. <<x>> \in Seq(Inner)
    OBVIOUS
  <2> QED
    BY <2>1, LayoutIsFine, RawIsFine DEF Proper
<1>2. ASSUME NEW x \in Inner, NEW y \in Inner
      PROVE  Proper(Layout(<<x, y>>))
  <2>1. <<x, y>> \in Seq(Inner)
    OBVIOUS
  <2> QED
    BY <2>1, LayoutIsFine DEF Proper
<1>3. ASSUME NEW x \in Inner
      PROVE  LET b == <<Tok("header"), Tok("open"), x>>
             IN  Begun(b) /\ Sendable(b) /\ Proper(b \o <<Tok("close")>>)
  <2> DEFINE b == <<Tok("header"), Tok("open"), x>>
  <2>1. b \in Seq(Token) /\ b[1] = Tok("header")
    BY TokenTypes DEF TokenName, Inner
  <2>2. DOMAIN b = {1, 2, 3} /\ b[1].t = "header" /\ b[2].t = "open"
        /\ b[3].t \notin {"header", "redirect", "open", "close", "die"}
    BY TokenTypes DEF TokenName, Inner
  <2> HIDE DEF b
  <2>3. Once(b, {"header", "redirect"}) /\ Once(b, {"open"}) /\ Never(b, {"close"})
        /\ Never(b, {"die"}) /\ b # <<>>
    BY <2>2 DEF Once, Never
  <2>4. Begun(b) /\ Sendable(b)
    BY <2>1, <2>3 DEF Begun, Sendable
  <2> QED
    BY <2>4, EndIsFine DEF b, Proper
<1>6. ASSUME NEW x \in Inner, NEW y \in Inner
      PROVE  LET b == <<Tok("header"), Tok("open"), x, y>>
             IN  Begun(b) /\ Sendable(b)
  <2> DEFINE b == <<Tok("header"), Tok("open"), x, y>>
  <2>1. b \in Seq(Token) /\ b[1] = Tok("header")
    BY TokenTypes DEF TokenName, Inner
  <2>2. DOMAIN b = {1, 2, 3, 4} /\ b[1].t = "header" /\ b[2].t = "open"
        /\ \A i \in {3, 4} : b[i].t \notin {"header", "redirect", "open", "close", "die"}
    BY TokenTypes DEF TokenName, Inner
  <2> HIDE DEF b
  <2>3. Once(b, {"header", "redirect"}) /\ Once(b, {"open"}) /\ Never(b, {"close"})
        /\ Never(b, {"die"}) /\ b # <<>>
    BY <2>2 DEF Once, Never
  <2> QED
    BY <2>1, <2>3 DEF Begun, Sendable, b
<1>4. Proper(ErrorPage)
  BY <1>1, TokenTypes DEF ErrorPage
<1>5. Proper(<<Tok("redirect")>>)
  BY TokenTypes, OnceAlone DEF Proper, Fine, Sendable, TokenName
<1> QED
  BY <1>1, <1>2, <1>3, <1>4, <1>5, <1>6

\* What is told of the refs does not matter.
LEMMA OnceSame ==
    ASSUME NEW s, NEW u, SameButRefs(u, s), NEW S
    PROVE  (Once(s, S) => Once(u, S)) /\ (Never(s, S) => Never(u, S))
<1>1. DOMAIN u = DOMAIN s
  BY DEF SameButRefs
<1>2. PICK D : D = DOMAIN s
  OBVIOUS
<1>3. \A i \in D : u[i].t = s[i].t
  BY <1>2 DEF SameButRefs
<1>4. ASSUME Once(s, S)
      PROVE  Once(u, S)
  <2>1. PICK i \in D : \A j \in D : s[j].t \in S <=> j = i
    BY <1>2, <1>4 DEF Once
  <2>2. \A j \in D : u[j].t \in S <=> j = i
    BY <1>3, <2>1
  <2> QED
    BY <1>1, <1>2, <2>1, <2>2 DEF Once
<1>5. ASSUME Never(s, S)
      PROVE  Never(u, S)
  BY <1>1, <1>2, <1>3, <1>5 DEF Never
<1> QED
  BY <1>4, <1>5

LEMMA FineSame ==
    ASSUME NEW s, NEW u, SameButRefs(u, s)
    PROVE  /\ Fine(s) => Fine(u)
           /\ Begun(s) => Begun(u)
           /\ Sendable(s) => Sendable(u)
<1>1. DOMAIN u = DOMAIN s /\ (\A i \in DOMAIN s : u[i].t = s[i].t) /\ u \in Seq(Token)
      /\ Len(u) = Len(s) /\ s \in Seq(Token)
  BY DEF SameButRefs
<1>2. \A S : (Once(s, S) => Once(u, S)) /\ (Never(s, S) => Never(u, S))
  BY OnceSame
<1>3. ASSUME Sendable(s)
      PROVE  Sendable(u)
  <2>1. CASE s # <<>> /\ s[1] = Tok("header")
    <3>1. 1 \in DOMAIN s /\ s[1].t \notin RefsShown
      BY <1>1, <2>1 DEF Tok, RefsShown
    <3>2. u # <<>> /\ u[1] = Tok("header")
      BY <1>1, <2>1, <3>1 DEF SameButRefs
    <3> QED
      BY <1>1, <1>2, <1>3, <3>2 DEF Sendable
  <2>2. CASE s = <<Tok("redirect")>>
    <3>1. 1 \in DOMAIN s /\ s[1] = Tok("redirect") /\ s[1].t \notin RefsShown /\ Len(s) = 1
      BY <2>2 DEF Tok, RefsShown
    <3>2. u = <<Tok("redirect")>>
      BY <1>1, <3>1 DEF SameButRefs
    <3> QED
      BY <1>1, <1>2, <1>3, <3>2 DEF Sendable
  <2> QED
    BY <1>3, <2>1, <2>2 DEF Sendable
<1> QED
  BY <1>2, <1>3 DEF Fine, Begun

\* A repository from which nothing has been lost
Calm == RepoType /\ Sound /\ repo.lost = {} /\ query \in Query

\* What can be read then
LEMMA CalmRepo ==
    ASSUME Calm
    PROVE  /\ repo.have \subseteq Object /\ Whole(repo.have) /\ repo.have \subseteq Shown
           /\ \A n \in Ref : repo.refs[n] # None => CommitAt(repo, repo.refs[n]) # None
           /\ query.path \in Path \cup {None}
           /\ \A o : CommitAt(repo, o) # None =>
                  /\ CommitAt(repo, o) \in Commit /\ CommitAt(repo, o) \in Shown
                  /\ \A p \in Path :
                        Entry[CommitAt(repo, o)][p] \in repo.have \cup Commit \cup {None}
<1>1. repo.have \subseteq Object /\ Whole(repo.have) /\ repo.have \subseteq Shown
  BY DEF Calm, Sound, RepoType, Shown
<1>2. ASSUME NEW o, CommitAt(repo, o) # None
      PROVE  /\ CommitAt(repo, o) \in Commit /\ CommitAt(repo, o) \in Shown
             /\ \A p \in Path :
                   Entry[CommitAt(repo, o)][p] \in repo.have \cup Commit \cup {None}
  BY <1>1, <1>2, CommitIsWhole
<1> QED
  BY <1>1, <1>2 DEF Calm, Sound, Query

\* The diff that a page goes on with can be read.
DiffReady ==
    /\ below.new \in Name /\ below.old \in Object \cup {None}
    /\ CommitAt(repo, Resolve(repo, below.new)) # None
    /\ below.old # None => CommitAt(repo, below.old) # None

LEMMA CommitFine ==
    ASSUME Calm, NEW h \in Branch, query.page = "commit"
    PROVE  LET s == CommitStart(repo, query, h)
               d == DiffBelow(repo, query, h)
           IN  /\ d = None => Proper(s)
               /\ d # None =>
                      /\ Begun(s) /\ Sendable(s)
                      /\ d.new \in Name /\ d.old \in Object \cup {None}
                      /\ CommitAt(repo, Resolve(repo, d.new)) # None
                      /\ d.old # None => CommitAt(repo, d.old) # None
<1> DEFINE n == Rev(query, h)
           c == CommitAt(repo, Resolve(repo, n))
<1>1. CASE c = None
  BY <1>1, ProperPages DEF CommitStart, DiffBelow
<1>2. CASE c # None
  <2>1. c \in Commit /\ c \in Shown
    BY <1>2, CalmRepo
  <2>2. Shows("commit", c) \in Inner
    BY <2>1, TokenTypes
  <2>3. CASE Cardinality(ReadParents(repo, c)) > 2
    <3>1. ~(Cardinality(ReadParents(repo, c)) < 3)
      BY <1>2, <2>3, CalmRepo, ParentsCounted
    <3> QED
      BY <1>2, <2>2, <2>3, <3>1, TokenTypes, ProperPages DEF CommitStart, DiffBelow
  <2>4. CASE ~(Cardinality(ReadParents(repo, c)) > 2)
    <3>1. Cardinality(ReadParents(repo, c)) < 3
      BY <1>2, <2>4, CalmRepo, ParentsCounted
    <3>2. CommitStart(repo, query, h)
              = <<Tok("header"), Tok("open"), Shows("commit", c), Tok("refs")>>
      BY <1>2, <2>4 DEF CommitStart
    <3>3. n \in Name
      BY DEF Rev, Name, Ref, Calm, Query
    <3>4. FirstParent(c) # None => CommitAt(repo, FirstParent(c)) # None
      BY <1>2, CalmRepo, CommitIsWhole
    <3>5. FirstParent(c) \in Object \cup {None}
      <4>1. FirstParent(c) # None => FirstParent(c) \in repo.have
        BY <3>4 DEF CommitAt
      <4> QED
        BY <4>1, CalmRepo
    <3>6. DiffBelow(repo, query, h) =
              [new |-> n, old |-> IF ReadParents(repo, c) = {} THEN None ELSE FirstParent(c)]
      BY <1>2, <3>1 DEF DiffBelow
    <3> HIDE DEF n, c
    <3>7. DiffBelow(repo, query, h).new = n
          /\ DiffBelow(repo, query, h).old \in {None, FirstParent(c)}
      BY <3>6
    <3>8. DiffBelow(repo, query, h) # None
      <4>1. DiffBelow(repo, query, h) \in [new : Name, old : Object \cup {None}]
        BY <3>3, <3>5, <3>6
      <4> QED
        BY <4>1, BelowAssumption
    <3>9. Begun(CommitStart(repo, query, h)) /\ Sendable(CommitStart(repo, query, h))
      BY <2>2, <3>2, TokenTypes, ProperPages
    <3>10. CommitAt(repo, Resolve(repo, n)) # None
      BY <1>2 DEF c
    <3> QED
      BY <3>3, <3>4, <3>5, <3>7, <3>8, <3>9, <3>10
  <2> QED
    BY <2>3, <2>4
<1> QED
  BY <1>1, <1>2

LEMMA CompareFine ==
    ASSUME Calm, query.page = "compare", NEW h
    PROVE  LET s == CompareStart(repo, query)
               d == DiffBelow(repo, query, h)
           IN  /\ d = None => Proper(s)
               /\ d # None =>
                      /\ Begun(s) /\ Sendable(s)
                      /\ d.new \in Name /\ d.old \in Object \cup {None}
                      /\ CommitAt(repo, Resolve(repo, d.new)) # None
                      /\ d.old # None => CommitAt(repo, d.old) # None
<1>1. CASE ~Comparable(repo, query)
  <2>1. DiffBelow(repo, query, h) = None
    BY <1>1 DEF DiffBelow
  <2> QED
    BY <1>1, <2>1, TokenTypes, ProperPages DEF CompareStart
<1>2. CASE Comparable(repo, query)
  <2> DEFINE new == Resolve(repo, query.id2)
             old == Resolve(repo, query.id)
  <2>1. CommitAt(repo, new) # None /\ CommitAt(repo, old) # None /\ query.id # None
    BY <1>2 DEF Comparable
  <2>2. new \in Object /\ old \in Object
    BY <2>1, CalmRepo DEF CommitAt
  <2>3. DiffBelow(repo, query, h) = [new |-> new, old |-> old]
    BY <1>2 DEF DiffBelow
  <2> DEFINE x == Shows("stat", CommitOf(repo, query.id2))
  <2>4. CompareStart(repo, query) = <<Tok("header"), Tok("open"), Tok("refs"), x>>
    BY <1>2, <2>1 DEF CompareStart
  <2>8. x \in Inner
    BY <2>1, CalmRepo, TokenTypes DEF CommitOf
  <2> HIDE DEF new, old, x
  <2>9. Begun(CompareStart(repo, query)) /\ Sendable(CompareStart(repo, query))
    BY <2>4, <2>8, TokenTypes, ProperPages
  <2>5. DiffBelow(repo, query, h).new = new /\ DiffBelow(repo, query, h).old = old
    BY <2>3
  <2>6. Resolve(repo, new) = new /\ new \in Name
    BY <2>2 DEF Resolve, Name
  <2>7. DiffBelow(repo, query, h) # None
    <3>1. [new |-> new, old |-> old] \in [new : Name, old : Object \cup {None}]
      BY <2>2, <2>6
    <3> QED
      BY <2>3, <3>1, BelowAssumption
  <2> QED
    BY <2>1, <2>2, <2>5, <2>6, <2>7, <2>9
<1> QED
  BY <1>1, <1>2

\* An object that git can read, on its page
LEMMA OneShown ==
    ASSUME Calm, NEW o \in Shown,
           NEW t \in {"commit", "log", "stat", "diff", "tag", "tree", "blob"}
    PROVE  /\ Proper(Layout(<<Shows(t, o)>>)) /\ Proper(Raw(<<Shows(t, o)>>))
           /\ Proper(Layout(<<Shows(t, o), Tok("refs")>>))
           /\ Proper(Layout(<<Tok("refs"), Shows(t, o)>>))
           /\ Proper(Layout(<<Tok("body"), Shows(t, o)>>))
           /\ LET b == <<Tok("header"), Tok("open"), Shows(t, o)>>
              IN  Begun(b) /\ Sendable(b) /\ Proper(b \o <<Tok("close")>>)
<1>1. Shows(t, o) \in Inner /\ Tok("refs") \in Inner /\ Tok("body") \in Inner
  BY TokenTypes
<1> QED
  BY <1>1, ProperPages

LEMMA DiffFine ==
    ASSUME Calm, NEW new, NEW old
    PROVE  /\ query.page = "diff" => Proper(DiffPage(repo, new, old, query.statonly))
           /\ Proper(RawDiff(repo, new, old, query.statonly))
<1> DEFINE c == CommitAt(repo, Resolve(repo, new))
<1>1. CASE c = None
  BY <1>1, ProperPages DEF DiffPage, RawDiff, Diff
<1>2. CASE c # None
  <2>1. c \in Shown
    BY <1>2, CalmRepo
  <2> DEFINE b == <<Tok("header"), Tok("open"), Shows("diff", c)>>
  <2>2. /\ Proper(Layout(<<Shows("diff", c)>>)) /\ Proper(Raw(<<Shows("diff", c)>>))
        /\ Begun(b) /\ Sendable(b)
    BY <2>1, OneShown
  <2>3. query.page = "diff" /\ query.statonly => Proper(b)
    BY <2>2 DEF Proper, Fine, Begun, Excused
  <2>4. DiffPage(repo, new, old, query.statonly)
            \in {ErrorPage, IF query.statonly THEN b ELSE Layout(<<Shows("diff", c)>>)}
    BY DEF DiffPage, Diff
  <2>5. RawDiff(repo, new, old, query.statonly) \in {ErrorPage, Raw(<<Shows("diff", c)>>)}
    BY DEF RawDiff, Diff
  <2> HIDE DEF b, c
  <2> QED
    BY <2>2, <2>3, <2>4, <2>5, ProperPages
<1> QED
  BY <1>1, <1>2

LEMMA PatchFine ==
    ASSUME Calm, NEW h
    PROVE  Proper(Patch(repo, query, h))
<1> DEFINE c == CommitAt(repo, Resolve(repo, Rev(query, h)))
<1>1. CASE c = None
  BY <1>1, ProperPages DEF Patch
<1>2. CASE c # None
  <2>1. c \in Shown /\ (FirstParent(c) # None => CommitAt(repo, FirstParent(c)) # None)
    BY <1>2, CalmRepo, CommitIsWhole
  <2>2. FirstParent(c) \in repo.have \cup {None}
    BY <2>1 DEF CommitAt
  <2>3. Proper(Raw(<<Shows("commit", c)>>))
    BY <2>1, OneShown
  <2> QED
    BY <1>2, <2>2, <2>3, ProperPages DEF Patch
<1> QED
  BY <1>1, <1>2

LEMMA TagFine ==
    ASSUME Calm, NEW h
    PROVE  Proper(TagPage(repo, query, h))
  BY CalmRepo, OneShown, ProperPages DEF TagPage

LEMMA TreeFine ==
    ASSUME Calm, NEW h, query.page = "tree"
    PROVE  Proper(TreePage(repo, query, h))
<1> DEFINE c == CommitAt(repo, Resolve(repo, Rev(query, h)))
           o == IF query.path = None THEN None ELSE Entry[c][query.path]
<1>1. CASE c = None \/ (query.path # None /\ o = None)
  BY <1>1, ProperPages DEF TreePage
<1>2. CASE c # None /\ query.path = None
  <2>1. c \in Shown
    BY <1>2, CalmRepo
  <2> QED
    BY <1>2, <2>1, OneShown DEF TreePage
<1>3. CASE c # None /\ query.path # None /\ o # None
  <2>1. query.path \in Path /\ o \in repo.have \cup Commit
    BY <1>3, CalmRepo
  <2>2. CASE o \in repo.have
    <3>1. o \in Shown
      BY <2>2, CalmRepo
    <3>2. Proper(Layout(<<Shows("tree", o)>>))
          /\ Proper(<<Tok("header"), Tok("open"), Shows("blob", o)>> \o <<Tok("close")>>)
      BY <3>1, OneShown
    <3>3. TreePage(repo, query, h) \in
              {Layout(<<Shows("tree", o)>>),
               <<Tok("header"), Tok("open"), Shows("blob", o)>> \o <<Tok("close")>>}
      BY <1>3, <2>2 DEF TreePage, TreeObject
    <3> QED
      BY <3>2, <3>3
  <2>3. CASE o \in Commit /\ o \notin repo.have
    <3>1. TreePage(repo, query, h) = ErrorPage \o <<Tok("close")>>
      BY <1>3, <2>3 DEF TreePage, TreeObject, Commit
    <3>2. c \in DOMAIN Entry
      BY <1>3, CalmRepo, ObjectAssumption
    <3>3. PathLeadsTo({k \in Object : Kind[k] = "commit"})
      BY <1>3, <2>3, <3>2 DEF PathLeadsTo, Commit
    <3>4. /\ <<Tok("close")>> \in Seq(Token) /\ Never(<<Tok("close")>>, {"header", "redirect"})
          /\ Never(<<Tok("close")>>, {"die"})
      BY TokenTypes, OnceAlone DEF TokenName
    <3>5. /\ ErrorPage \in Seq(Token) /\ Never(ErrorPage, {"die"})
          /\ Once(ErrorPage, {"header", "redirect"}) /\ ErrorPage # <<>>
          /\ ErrorPage[1] = Tok("header")
      <4>1. Proper(ErrorPage)
        BY ProperPages
      <4>2. ErrorPage # <<Tok("redirect")>>
        <5>1. Len(ErrorPage) = 4
          <6>1. <<Tok("error")>> \in Seq(Token) /\ Len(<<Tok("error")>>) = 1
            BY TokenTypes DEF TokenName
          <6> DEFINE body == <<Tok("error")>>
          <6>2. Len(Layout(body)) = Len(body) + 3
            BY <6>1, LayoutAt
          <6> QED
            BY <6>1, <6>2 DEF ErrorPage
        <5> QED
          BY <5>1
      <4> QED
        BY <4>1, <4>2, ErrorsShow DEF Proper, Fine, Sendable
    <3>6. Once(ErrorPage \o <<Tok("close")>>, {"header", "redirect"})
          /\ Never(ErrorPage \o <<Tok("close")>>, {"die"})
      BY <3>4, <3>5, OnceInTwo
    <3>7. Sendable(ErrorPage \o <<Tok("close")>>)
      BY <3>4, <3>5, <3>6 DEF Sendable
    <3> QED
      BY <3>1, <3>3, <3>6, <3>7 DEF Proper, Fine, Excused
  <2> QED
    BY <2>1, <2>2, <2>3
<1> QED
  BY <1>1, <1>2, <1>3

LEMMA PlainFine ==
    ASSUME Calm, NEW h
    PROVE  Proper(PlainPage(repo, query, h))
<1> DEFINE c == CommitAt(repo, Resolve(repo, Rev(query, h)))
           o == IF query.path = None THEN None ELSE Entry[c][query.path]
<1>1. CASE c = None \/ (query.path # None /\ (o = None \/ Kind[o] = "commit"))
  BY <1>1, ProperPages DEF PlainPage
<1>2. CASE c # None /\ query.path = None
  <2>1. c \in Shown
    BY <1>2, CalmRepo
  <2> QED
    BY <1>2, <2>1, OneShown DEF PlainPage
<1>3. CASE c # None /\ query.path # None /\ o # None /\ Kind[o] # "commit"
  <2>1. query.path \in Path /\ o \in repo.have \cup Commit
    BY <1>3, CalmRepo
  <2>2. o \in repo.have /\ o \in Shown
    BY <1>3, <2>1, CalmRepo DEF Commit
  <2>3. Proper(Raw(<<Shows("tree", o)>>)) /\ Proper(Raw(<<Shows("blob", o)>>))
    BY <2>2, OneShown
  <2>4. Raw(<<Shows("blob", o)>>) \o <<>> = Raw(<<Shows("blob", o)>>)
    BY <2>3 DEF Proper, Sendable
  <2>5. PlainPage(repo, query, h) \in
            {Raw(<<Shows("tree", o)>>), Raw(<<Shows("blob", o)>>) \o <<>>}
    BY <1>3, <2>2 DEF PlainPage, PlainObject
  <2> QED
    BY <2>3, <2>4, <2>5
<1> QED
  BY <1>1, <1>2, <1>3

LEMMA BlameFine ==
    ASSUME Calm, NEW h, query.page = "blame"
    PROVE  Proper(BlamePage(repo, query, h))
<1> DEFINE c == CommitAt(repo, Resolve(repo, Rev(query, h)))
           o == IF query.path = None THEN None ELSE Entry[c][query.path]
           b == <<Tok("header"), Tok("open"), Tok("error")>>
<1>1. BlamePage(repo, query, h) \in {ErrorPage, BlameObject(repo, o)}
  BY DEF BlamePage
<1>2. CASE BlamePage(repo, query, h) # ErrorPage
  <2>1. c # None /\ query.path # None /\ o # None
    BY <1>2 DEF BlamePage
  <2>2. o \in repo.have => Proper(Layout(<<Shows("blob", o)>>))
    BY CalmRepo, OneShown
  <2>3. Begun(b) /\ Sendable(b)
    BY TokenTypes, ProperPages
  <2>4. o \in Unblamable => PathLeadsTo(Unblamable)
    <3>1. c \in DOMAIN Entry
      BY <2>1, CalmRepo, ObjectAssumption
    <3> QED
      BY <2>1, <3>1 DEF PathLeadsTo
  <2>5. o \in Unblamable => Proper(b)
    BY <2>3, <2>4 DEF Proper, Fine, Begun, Excused
  <2>6. BlameObject(repo, o) \in {ErrorPage} \cup (IF o \in Unblamable THEN {b} ELSE {})
            \cup (IF o \in repo.have THEN {Layout(<<Shows("blob", o)>>)} ELSE {})
    BY DEF BlameObject
  <2> HIDE DEF b, o
  <2> QED
    BY <1>1, <2>2, <2>5, <2>6, ProperPages
<1> QED
  BY <1>1, <1>2, ProperPages

LEMMA BlobFine ==
    ASSUME Calm, NEW h
    PROVE  Proper(BlobPage(repo, query, h))
  BY CalmRepo, OneShown, ProperPages DEF BlobPage

LEMMA SnapshotFine ==
    ASSUME Calm, NEW h, NEW s \in SnapshotPage(repo, query, h)
    PROVE  Proper(s)
<1>1. ASSUME NEW n, CommitAt(repo, Resolve(repo, n)) # None
      PROVE  Proper(Raw(<<Shows("commit", CommitAt(repo, Resolve(repo, n)))>>))
  <2>1. CommitAt(repo, Resolve(repo, n)) \in Shown
    BY <1>1, CalmRepo
  <2> QED
    BY <2>1, OneShown
<1>2. Proper(Raw(<<Tok("body")>>))
  BY TokenTypes, ProperPages
<1> QED
  BY <1>1, <1>2, ProperPages DEF SnapshotPage

\* Whatever the command, while nothing has been lost and its branch is there
LEMMA ResponseFine ==
    ASSUME Calm, NEW h, CommandOf(query) \in Command, h \in Branch \cup {None},
           CommandOf(query) \in WantRepo => h \in Branch /\ Resolve(repo, h) # None,
           NEW s \in Responses(repo, query, h)
    PROVE  LET d == DiffBelow(repo, query, h)
           IN  /\ Sendable(s)
               /\ d = None => Fine(s)
               /\ d # None =>
                      /\ Begun(s)
                      /\ d.new \in Name /\ d.old \in Object \cup {None}
                      /\ CommitAt(repo, Resolve(repo, d.new)) # None
                      /\ d.old # None => CommitAt(repo, d.old) # None
<1> DEFINE p == CommandOf(query)
<1>1. \A x, y : Walk(repo, x, y) = {x}
  BY DEF Walk, Calm
<1>2. \A t \in {"body", "error", "refs"} : Proper(Layout(<<Tok(t)>>)) /\ Proper(Raw(<<Tok(t)>>))
  BY TokenTypes, ProperPages
<1>3. CASE p = "commit"
  <2>1. query.page = "commit" /\ h \in Branch
    BY <1>3 DEF CommandOf, WantRepo, Command
  <2>2. s = CommitStart(repo, query, h)
    BY <1>3 DEF Responses, IsClone
  <2> QED
    BY <2>1, <2>2, CommitFine DEF Proper
<1>4. CASE p = "compare"
  <2>1. query.page = "compare"
    BY <1>4 DEF CommandOf
  <2>2. s = CompareStart(repo, query)
    BY <1>1, <1>4 DEF Responses, IsClone
  <2> QED
    BY <2>1, <2>2, CompareFine DEF Proper
<1>5. ASSUME p \notin {"commit", "compare"}
      PROVE  DiffBelow(repo, query, h) = None /\ Proper(s)
  <2>1. DiffBelow(repo, query, h) = None
    BY <1>5 DEF DiffBelow, CommandOf
  <2>2. p \notin {"", "summary", "repolist"} => query.page = p
    BY DEF CommandOf
  <2>3. CASE p = "diff"
    <3>1. s = DiffPage(repo, Rev(query, h), query.id2, query.statonly)
      BY <2>3 DEF Responses, IsClone, DiffPage
    <3> QED
      BY <2>1, <2>2, <2>3, <3>1, DiffFine
  <2>4. CASE p = "rawdiff"
    <3>1. s = RawDiff(repo, Rev(query, h), query.id2, query.statonly)
      BY <2>4 DEF Responses, IsClone, RawDiff
    <3> QED
      BY <2>1, <3>1, DiffFine
  <2>5. CASE p \in {"patch", "tag", "tree", "plain", "blame", "blob"}
    <3>1. CASE p = "patch"
      BY <2>1, <3>1, PatchFine DEF Responses, IsClone
    <3>2. CASE p = "tag"
      BY <2>1, <3>2, TagFine DEF Responses, IsClone
    <3>3. CASE p = "tree"
      BY <2>1, <2>2, <3>3, TreeFine DEF Responses, IsClone
    <3>4. CASE p = "plain"
      BY <2>1, <3>4, PlainFine DEF Responses, IsClone
    <3>5. CASE p = "blame"
      BY <2>1, <2>2, <3>5, BlameFine DEF Responses, IsClone
    <3>6. CASE p = "blob"
      BY <2>1, <3>6, BlobFine DEF Responses, IsClone
    <3> QED
      BY <2>5, <3>1, <3>2, <3>3, <3>4, <3>5, <3>6
  <2>6. CASE p = "snapshot"
    BY <2>1, <2>6, SnapshotFine DEF Responses, IsClone
  <2>7. CASE p = "about"
    <3>1. s \in AboutPage(repo, query, h)
      BY <2>7 DEF Responses, IsClone
    <3> QED
      BY <1>2, <2>1, <3>1, PlainFine, ProperPages DEF AboutPage, ReadmePage
  <2>8. CASE p \in {"repolist", "refs", "ls_cache"} \cup IsClone
    BY <1>2, <2>1, <2>8, ProperPages
       DEF Responses, IsClone, RepolistPage, RefsPage, ClonePage
  <2>11. \A n : CommitOf(repo, n) \in Shown
    BY CalmRepo DEF CommitOf, Shown
  <2>12. CASE p = "search"
    <3>1. s \in SearchPage(repo, h)
      BY <2>12 DEF Responses, IsClone
    <3>2. PICK c : c = CommitOf(repo, h)
      OBVIOUS
    <3>3. Proper(Layout(<<Tok("body")>>)) /\ Proper(Layout(<<Tok("body"), Tok("error")>>))
          /\ Proper(Layout(<<Tok("body"), Shows("tree", c)>>))
      BY <2>11, <3>2, OneShown, TokenTypes, ProperPages
    <3>4. s \in {Layout(<<Tok("body")>>), Layout(<<Tok("body"), Tok("error")>>),
                 Layout(<<Tok("body"), Shows("tree", c)>>)}
      BY <3>1, <3>2 DEF SearchPage
    <3> QED
      BY <2>1, <3>3, <3>4
  <2>9. CASE p \in {"stats", "log", "summary"}
    <3>1. PICK n : /\ s \in {ErrorPage, Layout(<<Shows("log", CommitOf(repo, n))>>),
                             Layout(<<Shows("log", CommitOf(repo, n)), Tok("refs")>>),
                             Layout(<<Tok("refs"), Shows("log", CommitOf(repo, n))>>)}
      <4>1. CASE p = "stats"
        BY <1>1, <4>1 DEF Responses, IsClone, StatsPage
      <4>2. CASE p = "log"
        BY <1>1, <4>2 DEF Responses, IsClone, LogPage
      <4>3. CASE p = "summary"
        BY <1>1, <4>3 DEF Responses, IsClone, SummaryPage
      <4> QED
        BY <2>9, <4>1, <4>2, <4>3
    <3> QED
      BY <2>1, <2>11, <3>1, OneShown, ProperPages
  <2>10. CASE p = "atom"
    <3>1. Resolve(repo, h) # None
      BY <2>10 DEF WantRepo, Command
    <3>2. s \in AtomPage(repo, h)
      BY <2>10 DEF Responses, IsClone
    <3>3. s = Raw(<<Shows("log", CommitOf(repo, h))>>)
      BY <1>1, <3>1, <3>2 DEF AtomPage
    <3> QED
      BY <2>1, <2>11, <3>3, OneShown
  <2> QED
    BY <1>5, <2>3, <2>4, <2>5, <2>6, <2>7, <2>8, <2>9, <2>10, <2>12
       DEF Command, IsClone
<1> QED
  BY <1>3, <1>4, <1>5 DEF Proper

\* What a page goes on with, and its end
LEMMA RestFine ==
    ASSUME Calm, DiffReady, NEW list \in Lists(repo, query), NEW s,
           s = Rest(repo, query, list, below)
    PROVE  /\ s \in Seq(Token) /\ Once(s, {"close"})
           /\ Never(s, {"header", "redirect"}) /\ Never(s, {"open"}) /\ Never(s, {"die"})
<1> DEFINE c == CommitAt(repo, Resolve(repo, below.new))
           l == Shows("log", CommitOf(repo, query.id2))
           x == Shows("diff", c)
           e == <<Tok("close")>>
<1>1. DiffPart(repo, below.new, below.old, query.statonly) = <<x>>
  <2>1. c # None /\ (below.old # None => Resolve(repo, below.old) = below.old
                                        /\ CommitAt(repo, below.old) # None)
    BY DEF DiffReady, Resolve
  <2>2. FirstParent(c) # None => CommitAt(repo, FirstParent(c)) # None
    BY <2>1, CalmRepo, CommitIsWhole
  <2> QED
    BY <2>1, <2>2 DEF DiffPart, Diff
<1>2. s = list \o <<x>> \o e
  BY <1>1 DEF Rest, DiffPart
<1>3. x \in Inner /\ l \in Inner /\ Tok("refs") \in Inner
  <2>1. c \in Shown /\ CommitOf(repo, query.id2) \in Shown
    BY CalmRepo DEF DiffReady, CommitOf, Shown
  <2> QED
    BY <2>1, TokenTypes
<1>4. list \in {<<>>, <<l, Tok("refs")>>}
  BY DEF Lists, CompareList, Calm
<1> HIDE DEF x, l, e
<1>5. list \o <<x>> \in Seq(Inner)
  <2>1. list \in Seq(Inner) /\ <<x>> \in Seq(Inner)
    <3>1. <<>> \in Seq(Inner) /\ <<l, Tok("refs")>> \in Seq(Inner) /\ <<x>> \in Seq(Inner)
      BY <1>3
    <3> QED
      BY <1>4, <3>1
  <2> QED
    BY <2>1
<1>6. PICK a : a = list \o <<x>>
  OBVIOUS
<1>7. /\ a \in Seq(Token) /\ Never(a, {"close"}) /\ Never(a, {"die"})
      /\ Never(a, {"header", "redirect"}) /\ Never(a, {"open"})
  BY <1>5, <1>6, InnerNever
<1>8. /\ e \in Seq(Token) /\ Once(e, {"close"}) /\ Never(e, {"die"})
      /\ Never(e, {"header", "redirect"}) /\ Never(e, {"open"})
  BY TokenTypes, OnceAlone DEF TokenName, e
<1>9. /\ Once(a \o e, {"close"}) /\ Never(a \o e, {"die"})
      /\ Never(a \o e, {"header", "redirect"}) /\ Never(a \o e, {"open"})
  BY <1>7, <1>8, OnceInTwo
<1>10. a \o e \in Seq(Token)
  BY <1>7, <1>8
<1> QED
  BY <1>2, <1>6, <1>9, <1>10

\* While nothing is lost and no branch is deleted under way, every step prints
\* what it should: a process only exits where a HEAD request has got its header,
\* and the diff that a page goes on with is still there.
FineInv ==
    /\ DiffInv
    /\ Sound
    /\ repo.lost = {} /\ ~gone =>
           /\ pc = "command" /\ CommandOf(query) \in WantRepo => Resolve(repo, head) # None
           /\ pc = "below" => Begun(out) /\ DiffReady
           /\ pc = "finish" => Fine(out)
           /\ pc = "exited" => method = "HEAD" /\ Fine(out)
    /\ repo.lost = {} =>
           /\ cached # None /\ ~cached.gone => Fine(cached.out)
           /\ answer # None /\ ~answer.gone => Fine(answer.out)

LEMMA FineInit == Init => FineInv
  BY DiffInit, SoundInit DEF Init, FineInv

\* A response is printed as a whole, or up to its header.
LEMMA FinePrint ==
    ASSUME out = <<>>, NEW s, Sendable(s), NEW next, Prints(s, next)
    PROVE  \/ pc' = next /\ out' = s
           \/ pc' = "exited" /\ method = "HEAD" /\ Fine(out')
<1>1. out \in Seq(Token) /\ s \in Seq(Token) /\ \A u \in Seq(Token) : out \o u = u
  BY DEF Sendable
<1>2. CASE ExitsAt(s) = {}
  BY <1>1, <1>2 DEF Prints
<1>3. CASE ExitsAt(s) # {}
  <2>1. PICK i \in ExitsAt(s) : TRUE
    BY <1>3
  <2>2. i \in DOMAIN s /\ method = "HEAD" /\ s[i].t = "header"
    BY <2>1 DEF ExitsAt, Sendable, Never
  <2>3. s # <<Tok("redirect")>>
    BY <2>2 DEF Tok
  <2>4. s # <<>> /\ s[1] = Tok("header")
    BY <2>3 DEF Sendable
  <2>5. pc' = "exited" /\ out' = out \o <<Tok("header")>>
    BY <1>1, <2>2, <2>4, PrintsWhat
  <2>6. Tok("header") \in Token /\ Tok("header").t = "header"
    BY TokenTypes DEF TokenName
  <2>7. out' = <<Tok("header")>>
    <3>1. <<Tok("header")>> \in Seq(Token)
      BY <2>6
    <3> QED
      BY <1>1, <2>5, <3>1
  <2>8. Fine(out')
    BY <2>6, <2>7, OnceAlone DEF Fine
  <2> QED
    BY <2>2, <2>5, <2>8
<1> QED
  BY <1>2, <1>3

\* The process answers, ...
LEMMA ReplyFine ==
    ASSUME FineInv, NEW s, NEW old, NEW m, NEW g, Reply(s, old, m, g), DiffInv',
           repo.lost = {} /\ ~g => Fine(s),
           repo.lost = {} => (cached' # None /\ ~cached'.gone => Fine(cached'.out))
    PROVE  FineInv'
<1>1. /\ query' = query /\ repo' = repo /\ pc' = "idle"
      /\ answer'.out = s /\ answer'.gone = g
  BY DEF Reply, NoRequest, world
<1>2. Sound'
  BY <1>1, SoundStep DEF FineInv, DiffInv, PageInv
<1> QED
  BY <1>1, <1>2 DEF FineInv, Fine, Excused, PathLeadsTo

\* ... or goes on.
LEMMA ProcessFine ==
    ASSUME FineInv, DiffInv',
           UNCHANGED <<query, repo, cached, gone>>, answer' = None \/ answer' = answer,
           repo.lost = {} /\ ~gone =>
               /\ pc' = "command" /\ CommandOf(query) \in WantRepo => Resolve(repo, head') # None
               /\ pc' = "below" => Begun(out') /\ DiffReady'
               /\ pc' = "finish" => Fine(out')
               /\ pc' = "exited" => method' = "HEAD" /\ Fine(out')
    PROVE  FineInv'
<1>1. Sound'
  BY SoundStep DEF FineInv, DiffInv, PageInv
<1> QED
  BY <1>1 DEF FineInv, Fine, Excused, PathLeadsTo

\* What a request has found is still there, unless a ref was deleted.
LEMMA EnvironmentKeeps ==
    ASSUME FineInv, Environment
    PROVE  /\ cached' # None /\ ~cached'.gone => ~cached.gone
           /\ pc # "idle" /\ ~gone' =>
                  ~gone /\ \A n \in Ref : repo.refs[n] # None => repo'.refs[n] # None
<1>1. RepoType /\ CachedType
  BY DEF FineInv, DiffInv, PageInv
<1>2. ASSUME NEW n \in Ref, DeleteRef(n)
      PROVE  cached' = cached /\ gone' = (pc # "idle")
  BY <1>2 DEF DeleteRef, Change
<1>3. ASSUME NEW n \in Ref, NEW o \in Target[n], Push(n, o)
      PROVE  /\ cached' = cached /\ gone' = gone
             /\ \A m \in Ref : repo.refs[m] # None => repo'.refs[m] # None
  BY <1>1, <1>3, RepoAssumption, NoneAssumption DEF Push, Change, RepoType
<1>4. ASSUME NEW o \in Fragile, Lose(o)
      PROVE  cached' = cached /\ gone' = gone /\ repo'.refs = repo.refs
  BY <1>1, <1>4 DEF Lose, Change, RepoType
<1>5. CASE Expire
  <2>1. cached # None /\ cached' = [cached EXCEPT !.old = TRUE]
        /\ gone' = gone /\ repo' = repo
    BY <1>5 DEF Expire, world, request
  <2> QED
    BY <1>1, <2>1 DEF CachedType
<1> QED
  BY <1>2, <1>3, <1>4, <1>5 DEF Environment

THEOREM FineStep == FineInv /\ [Next]_vars => FineInv'
<1> SUFFICES ASSUME FineInv, [Next]_vars
             PROVE  FineInv'
  OBVIOUS
<1>0. DiffInv'
  BY DiffStep DEF FineInv
<1>1. CASE Environment
  <2>1. /\ UNCHANGED <<query, pc, method, head, below, out, answer>>
        /\ cached' # None => cached # None /\ cached'.out = cached.out
    BY <1>1, EnvironmentFrame DEF FineInv, DiffInv
  <2>2. Sound' /\ (repo'.lost = {} => Grows(repo, repo')) /\ RepoType'
    BY <1>0, <1>1, SoundStep DEF FineInv, DiffInv, PageInv
  <2>3. /\ cached' # None /\ ~cached'.gone => ~cached.gone
        /\ pc # "idle" /\ ~gone' =>
               ~gone /\ \A n \in Ref : repo.refs[n] # None => repo'.refs[n] # None
    BY <1>1, EnvironmentKeeps
  <2> SUFFICES ASSUME repo'.lost = {}
               PROVE  /\ ~gone' =>
                         /\ pc = "command" /\ CommandOf(query) \in WantRepo =>
                                Resolve(repo', head) # None
                         /\ pc = "below" => Begun(out) /\ DiffReady'
                         /\ pc = "finish" => Fine(out)
                         /\ pc = "exited" => method = "HEAD" /\ Fine(out)
                      /\ cached' # None /\ ~cached'.gone => Fine(cached.out)
                      /\ answer # None /\ ~answer.gone => Fine(answer.out)
    BY <1>0, <2>1, <2>2 DEF FineInv, Fine, Excused, PathLeadsTo
  <2>4. repo.lost = {} /\ Grows(repo, repo')
    BY <2>2 DEF Grows
  <2>5. /\ cached' # None /\ ~cached'.gone => Fine(cached.out)
        /\ answer # None /\ ~answer.gone => Fine(answer.out)
    BY <2>1, <2>3, <2>4 DEF FineInv
  <2>6. ASSUME ~gone', pc \in {"finish", "exited"}
        PROVE  Fine(out) /\ (pc = "exited" => method = "HEAD")
    BY <2>3, <2>4, <2>6 DEF FineInv
  <2>7. ASSUME ~gone', pc = "command", CommandOf(query) \in WantRepo
        PROVE  Resolve(repo', head) # None
    <3>1. head \in Branch /\ Resolve(repo, head) # None
      BY <2>3, <2>4, <2>7 DEF FineInv, DiffInv
    <3> QED
      BY <2>3, <2>7, <3>1 DEF Resolve, Ref
  <2>8. ASSUME ~gone', pc = "below"
        PROVE  Begun(out) /\ DiffReady'
    <3>1. Begun(out) /\ DiffReady
      BY <2>3, <2>4, <2>8 DEF FineInv
    <3>2. CommitAt(repo', Resolve(repo', below.new)) # None
      <4>1. CASE below.new \in Object
        BY <2>4, <3>1, <4>1, CommitStays DEF DiffReady, Resolve
      <4>2. CASE below.new \in Ref /\ below.new \notin Object
        <5>1. repo.refs[below.new] # None
          BY <3>1, <4>2 DEF DiffReady, Resolve, CommitAt
        <5>2. repo'.refs[below.new] # None
          BY <2>3, <2>8, <4>2, <5>1
        <5> QED
          BY <2>2, <2>4, <4>2, <5>2 DEF Sound, Resolve, Grows
      <4> QED
        BY <3>1, <4>1, <4>2 DEF DiffReady, Name
    <3>3. below.old # None => CommitAt(repo', below.old) # None
      BY <2>4, <3>1, CommitStays DEF DiffReady
    <3> QED
      BY <2>1, <3>1, <3>2, <3>3 DEF DiffReady
  <2> QED
    BY <2>5, <2>6, <2>7, <2>8
<1>2. ASSUME NEW m \in Method, Receive(m)
      PROVE  FineInv'
  BY <1>0, <1>2, ProcessFine DEF Receive, world
<1>3. CASE LoginPost
  <2> DEFINE s == <<Tok("header"), Tok("login")>>
  <2>1. Fine(s)
    <3>1. DOMAIN s = {1, 2} /\ s[1].t = "header" /\ s[2].t = "login"
      BY TokenTypes DEF TokenName
    <3> HIDE DEF s
    <3> QED
      BY <3>1 DEF Fine, Once, Never
  <2>2. Reply(s, FALSE, moved, gone) /\ cached' = cached
    BY <1>3 DEF LoginPost
  <2> HIDE DEF s
  <2> QED
    BY <1>0, <2>1, <2>2, ReplyFine DEF FineInv
<1>4. CASE Authenticate \/ Miss
  BY <1>0, <1>4, ProcessFine DEF Authenticate, Miss, world
<1>5. CASE Hit
  <2>1. /\ cached # None /\ cached' = cached
        /\ Reply(cached.out, cached.old, cached.moved, cached.gone)
    BY <1>5 DEF Hit, CachedPage
  <2> QED
    BY <1>0, <2>1, ReplyFine DEF FineInv
<1>6. CASE LoginPage \/ RefuseRequest
  <2>1. /\ out = <<>> /\ UNCHANGED <<query, repo, cached, gone, method, answer>>
        /\ \E s \in {Layout(<<Tok("login")>>), Printed(ErrorPage)} : Prints(s, "finish")
    BY <1>6 DEF LoginPage, RefuseRequest, world, FineInv, DiffInv, PageInv, LoginInv
  <2>2. PICK s \in {Layout(<<Tok("login")>>), Printed(ErrorPage)} : Prints(s, "finish")
    BY <2>1
  <2>3. Fine(s) /\ Sendable(s)
    <3>1. Proper(Layout(<<Tok("login")>>)) /\ Proper(ErrorPage)
      BY TokenTypes, ProperPages
    <3>2. SameButRefs(Printed(ErrorPage), ErrorPage)
      BY <3>1, PrintedIsSame DEF FineInv, DiffInv, PageInv, RepoType, Proper, Sendable
    <3> QED
      BY <2>2, <3>1, <3>2, FineSame DEF Proper
  <2>4. \/ pc' = "finish" /\ out' = s
        \/ pc' = "exited" /\ method = "HEAD" /\ Fine(out')
    BY <2>1, <2>2, <2>3, FinePrint
  <2> QED
    BY <1>0, <2>1, <2>3, <2>4, ProcessFine
<1>7. CASE PrepareCommand
  <2>1. /\ pc' = "command" /\ ~Refused /\ UNCHANGED <<query, repo, cached, gone, answer>>
        /\ query.repo => ~Unusable /\ head' \in Heads
    BY <1>7 DEF PrepareCommand, world
  <2>2. CommandOf(query) \in WantRepo => Resolve(repo, head') # None
    BY <2>1 DEF Refused, Unusable
  <2> QED
    BY <1>0, <2>1, <2>2, ProcessFine
<1>8. CASE RunCommand
  <2> DEFINE next == IF below' = None THEN "finish" ELSE "below"
             d == DiffBelow(repo, query, head)
  <2>1. /\ pc = "command" /\ below' = d
        /\ UNCHANGED <<query, repo, cached, gone, method, answer>>
    BY <1>8 DEF RunCommand, world
  <2>2. PICK s \in Responses(repo, query, head) : Prints(Printed(s), next)
    BY <1>8 DEF RunCommand
  <2>3. /\ out = <<>> /\ CommandOf(query) \in Command /\ head \in Branch \cup {None}
        /\ CommandOf(query) \in WantRepo => head \in Branch
    BY <2>1 DEF FineInv, DiffInv, PageInv
  <2> SUFFICES ASSUME repo.lost = {}, ~gone
               PROVE  /\ pc' # "command"
                      /\ pc' = "below" => Begun(out') /\ DiffReady'
                      /\ pc' = "finish" => Fine(out')
                      /\ pc' = "exited" => method' = "HEAD" /\ Fine(out')
    BY <1>0, <2>1, ProcessFine
  <2>4. Calm
    BY DEF Calm, FineInv, DiffInv, PageInv
  <2>5. CommandOf(query) \in WantRepo => Resolve(repo, head) # None
    BY <2>1 DEF FineInv
  <2>6. /\ Sendable(s)
        /\ d = None => Fine(s)
        /\ d # None =>
               /\ Begun(s)
               /\ d.new \in Name /\ d.old \in Object \cup {None}
               /\ CommitAt(repo, Resolve(repo, d.new)) # None
               /\ d.old # None => CommitAt(repo, d.old) # None
    BY <2>3, <2>4, <2>5, ResponseFine
  <2>8. PICK u : SameButRefs(u, s) /\ Prints(u, next)
    BY <2>2, <2>4, <2>6, PrintedIsSame DEF Calm, RepoType, Sendable
  <2>9. Sendable(u) /\ (d = None => Fine(u)) /\ (d # None => Begun(u))
    BY <2>6, <2>8, FineSame
  <2>7. \/ pc' = next /\ out' = u
        \/ pc' = "exited" /\ method = "HEAD" /\ Fine(out')
    BY <2>3, <2>8, <2>9, FinePrint
  <2> HIDE DEF d
  <2> QED
    BY <2>1, <2>6, <2>7, <2>9 DEF DiffReady
<1>9. CASE PrintDiffBelow
  <2>0. PICK list \in Lists(repo, query) : \E s, u :
            s = Rest(repo, query, list, below) /\ SameButRefs(u, s) /\ Prints(u, "finish")
    BY <1>9, SecondOutput DEF FineInv, DiffInv, PageInv
  <2>7. PICK s, u : s = Rest(repo, query, list, below) /\ SameButRefs(u, s) /\ Prints(u, "finish")
    BY <2>0
  <2>1. /\ pc = "below" /\ Prints(u, "finish")
        /\ UNCHANGED <<query, repo, cached, gone, method, below, answer>>
    BY <1>9, <2>7 DEF PrintDiffBelow, world
  <2> SUFFICES ASSUME repo.lost = {}, ~gone
               PROVE  pc' = "finish" /\ Fine(out')
    BY <1>0, <2>1, ProcessFine
  <2>2. Begun(out) /\ DiffReady /\ method # "HEAD" /\ out \in Seq(Token) /\ Calm
    BY <2>1 DEF FineInv, DiffInv, PageInv, Calm
  <2>4. /\ s \in Seq(Token) /\ Once(s, {"close"})
        /\ Never(s, {"header", "redirect"}) /\ Never(s, {"open"}) /\ Never(s, {"die"})
    BY <2>2, <2>7, RestFine
  <2>8. /\ u \in Seq(Token) /\ Once(u, {"close"})
        /\ Never(u, {"header", "redirect"}) /\ Never(u, {"open"}) /\ Never(u, {"die"})
    <3>1. u \in Seq(Token)
      BY <2>7 DEF SameButRefs
    <3> QED
      BY <2>4, <2>7, <3>1, OnceSame
  <2>5. Fine(out \o u)
    BY <2>2, <2>8, OnceInTwo DEF Begun, Fine
  <2>6. ExitsAt(u) = {}
    BY <2>2, <2>8 DEF ExitsAt, Never
  <2> QED
    BY <2>1, <2>5, <2>6 DEF Prints
<1>10. CASE Finish
  <2>1. Reply(out, FALSE, moved, gone) /\ pc = "finish"
        /\ (cached' # None => \/ cached'.out = out /\ cached'.gone = gone
                              \/ cached' = cached)
    BY <1>10 DEF Finish
  <2> QED
    BY <1>0, <2>1, ReplyFine DEF FineInv
<1>11. CASE Exit
  <2>1. /\ Reply(IF caching THEN <<>> ELSE out, FALSE, moved, gone)
        /\ pc = "exited" /\ cached' = cached
    BY <1>11 DEF Exit
  <2>2. repo.lost = {} /\ ~gone => ~caching /\ Fine(out)
    BY <2>1 DEF FineInv, DiffInv, PageInv
  <2> QED
    BY <1>0, <2>1, <2>2, ReplyFine DEF FineInv
<1>12. CASE UNCHANGED vars
  BY <1>0, <1>12, ProcessFine DEF vars, request, world, FineInv, DiffReady
<1> QED
  BY <1>1, <1>2, <1>3, <1>4, <1>5, <1>6, <1>7, <1>8, <1>9, <1>10, <1>11, <1>12
     DEF Next, Process

\* OneHeader holds in every state: the commands of cmd.c print the header once and
\* return after an error page, unless an object or a branch goes under way.
THEOREM HeaderOnce == Spec => []OneHeader
<1>1. FineInv => OneHeader
  BY DEF FineInv, OneHeader, Undisturbed, Fine
<1> QED
  BY FineInit, FineStep, <1>1, PTL DEF Spec

\* LayoutClosed holds in every state: cgit_print_layout_end is called once for every
\* cgit_print_layout_start, but for the three pages named there.
THEOREM LayoutOnce == Spec => []LayoutClosed
<1>1. FineInv => LayoutClosed
  BY NeverIs DEF FineInv, LayoutClosed, Undisturbed, Fine, Excused
<1> QED
  BY FineInit, FineStep, <1>1, PTL DEF Spec

=============================================================================
