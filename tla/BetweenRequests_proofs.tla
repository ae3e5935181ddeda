----------------------- MODULE BetweenRequests_proofs -----------------------
(***************************************************************************)
(* Proofs about what one request leaves to the next: the name of a         *)
(* snapshot, from which the next request finds the ref again, and the link *)
(* of a page, which leaves out what the next request assumes anyway.  Both *)
(* hold for every set of tokens, names and values.                         *)
(*                                                                         *)
(* The letters and the separators are named, as are the conditions of the  *)
(* model's LETs: the provers know a string, or a formula in the place of a *)
(* value, only by its name.                                                *)
(***************************************************************************)
EXTENDS BetweenRequests, SequenceTheorems, FiniteSetTheorems, TLAPS

-----------------------------------------------------------------------------
(* Sequences and the least of some numbers *)

\* A sequence is a prefix of itself with another behind it, which is what is left of it.
LEMMA DropFront ==
    ASSUME NEW T, NEW p \in Seq(T), NEW t \in Seq(T)
    PROVE  /\ IsPrefix(p, p \o t)
           /\ SubSeq(p \o t, Len(p) + 1, Len(p \o t)) = t
<1> DEFINE s == p \o t
<1>1. s \in Seq(T) /\ Len(s) = Len(p) + Len(t)
  BY ConcatProperties
<1>2. \A i \in 1 .. Len(s) : s[i] = IF i <= Len(p) THEN p[i] ELSE t[i - Len(p)]
  BY ConcatProperties
<1>l. Len(p) \in Nat /\ Len(t) \in Nat /\ Len(s) \in Nat
  BY <1>1, LenProperties
<1> HIDE DEF s
<1>3. SubSeq(s, 1, Len(p)) = SubSeq(p, 1, Len(p))
  <2> DEFINE a == SubSeq(s, 1, Len(p))
             b == SubSeq(p, 1, Len(p))
  <2>1. a \in Seq(T) /\ b \in Seq(T) /\ Len(a) = Len(p) /\ Len(b) = Len(p)
    BY <1>1, <1>l, SubSeqProperties
  <2>2. \A i \in 1 .. Len(p) : a[i] = s[i] /\ b[i] = p[i]
    BY <1>1, <1>l, SubSeqProperties
  <2>3. \A i \in 1 .. Len(p) : a[i] = b[i]
    BY <2>2, <1>2, <1>1, <1>l
  <2> HIDE DEF a, b
  <2>4. a = b
    BY <2>1, <2>3, SeqEqual
  <2> QED BY <2>4 DEF a, b
<1>4. SubSeq(s, Len(p) + 1, Len(s)) = t
  <2> DEFINE a == SubSeq(s, Len(p) + 1, Len(s))
  <2>1. CASE t = <<>>
    BY <2>1, <1>1, <1>l, SubSeqProperties, EmptySeq
  <2>2. CASE t # <<>>
    <3>1. Len(t) > 0
      BY <2>2, EmptySeq, LenProperties
    <3>2. a \in Seq(T) /\ Len(a) = Len(t)
      BY <1>1, <1>l, <3>1, SubSeqProperties
    <3>3. \A i \in 1 .. Len(t) : a[i] = s[Len(p) + i]
      BY <1>1, <1>l, <3>1, SubSeqProperties
    <3>4. \A i \in 1 .. Len(t) : s[Len(p) + i] = t[i]
      BY <1>1, <1>2, <1>l
    <3> HIDE DEF a
    <3>5. a = t
      BY <3>2, <3>3, <3>4, SeqEqual
    <3> QED BY <3>5 DEF a
  <2> QED BY <2>1, <2>2
<1> QED BY <1>1, <1>3, <1>4, <1>l DEF IsPrefix, s

-----------------------------------------------------------------------------
(* The name of a snapshot *)

Dash == "-"
Sep == {"-", "_"}

\* The separator of a file name is one of those that are stripped.
LEMMA DashIsSep == Dash \in Sep
BY DEF Dash, Sep

FirstOther(s) == SelectInSeq(s, LAMBDA token : token \notin Sep)

\* What get_ref_from_filename does to the separators, by the first token that is none.
LEMMA StripMeans ==
    ASSUME NEW s
    PROVE  StripSeparators(s) =
               IF FirstOther(s) = 0 THEN <<>> ELSE SubSeq(s, FirstOther(s), Len(s))
BY Zenon DEF StripSeparators, Sep, FirstOther

\* A number of the set that none goes below is its least.
LEMMA MinIs ==
    ASSUME NEW S, S \subseteq Int, NEW m \in S, \A j \in S : m <= j
    PROVE  Min(S) = m
<1>1. \A x \in S : (\A y \in S : x <= y) => x = m
  OBVIOUS
<1>2. \E x \in S : \A y \in S : x <= y
  OBVIOUS
<1> QED BY <1>1, <1>2, Zenon DEF Min

\* One separator is stripped, and nothing of a name that begins with another token.
LEMMA StripOne ==
    ASSUME NEW T, Dash \in T, NEW r \in Seq(T), r # <<>>, Head(r) \notin Sep
    PROVE  StripSeparators(<<Dash>> \o r) = r
<1> DEFINE s == <<Dash>> \o r
           I == {i \in 1 .. Len(s) : s[i] \notin Sep}
<1>1. <<Dash>> \in Seq(T) /\ Len(<<Dash>>) = 1
  OBVIOUS
<1>2. s \in Seq(T) /\ Len(s) = 1 + Len(r) /\ Len(r) \in Nat /\ Len(r) > 0
  BY <1>1, ConcatProperties, EmptySeq, LenProperties
<1>3. s[1] = Dash /\ s[2] = r[1]
  BY <1>1, <1>2
<1>4. Head(r) = r[1]
  BY <1>2
<1>5. 2 \in I /\ 1 \notin I /\ I \subseteq Nat
  BY <1>2, <1>3, <1>4, DashIsSep
<1>a. \A j \in I : 2 <= j
  BY <1>5, <1>2
<1>6. Min(I) = 2
  <2>1. I \subseteq Int /\ 2 \in I
    BY <1>5
  <2> HIDE DEF I
  <2> QED BY <1>a, <2>1, MinIs
<1>7. FirstOther(s) = 2
  BY <1>5, <1>6 DEF SelectInSeq, FirstOther
<1>8. StripSeparators(s) = SubSeq(s, 2, Len(s))
  <2> HIDE DEF s
  <2> QED BY <1>7, StripMeans
<1>9. SubSeq(s, 2, Len(s)) = r
  <2>1. SubSeq(s, Len(<<Dash>>) + 1, Len(s)) = r
    BY <1>1, DropFront
  <2> QED BY <2>1, <1>1
<1> QED BY <1>8, <1>9

LowerV == "v"
UpperV == "V"

Rest(repo, name) ==
    IF IsPrefix(repo.prefix, name)
    THEN StripSeparators(SubSeq(name, Len(repo.prefix) + 1, Len(name))) ELSE name

\* The names that get_ref_from_filename tries
Names(repo, name) ==
    <<name, Rest(repo, name), <<LowerV>> \o Rest(repo, name), <<UpperV>> \o Rest(repo, name)>>

Found(repo, name) == {i \in 1 .. 4 : GetOid(repo, Names(repo, name)[i]) # None}

\* get_ref_from_filename takes the first of the four names that stands for a commit.
LEMMA RefMeans ==
    ASSUME NEW repo, NEW name
    PROVE  RefFromFilename(repo, name) =
               IF Found(repo, name) = {} THEN None
               ELSE Names(repo, name)[Min(Found(repo, name))]
BY Zenon DEF RefFromFilename, Found, Names, Rest, LowerV, UpperV, Min

\* A name that stands for a commit is taken if none before it does.
LEMMA FirstFound ==
    ASSUME NEW repo, NEW name, NEW k \in 1 .. 4,
           GetOid(repo, Names(repo, name)[k]) # None,
           \A j \in 1 .. 4 : j < k => GetOid(repo, Names(repo, name)[j]) = None
    PROVE  RefFromFilename(repo, name) = Names(repo, name)[k]
<1>1. k \in Found(repo, name) /\ Found(repo, name) \subseteq Int
  BY DEF Found
<1>2. \A j \in Found(repo, name) : k <= j
  <2> SUFFICES ASSUME NEW j \in Found(repo, name) PROVE k <= j
    OBVIOUS
  <2>1. j \in 1 .. 4 /\ GetOid(repo, Names(repo, name)[j]) # None
    BY DEF Found
  <2> QED BY <2>1
<1>3. Min(Found(repo, name)) = k
  BY <1>1, <1>2, MinIs
<1>4. Found(repo, name) # {}
  BY <1>1
<1> QED BY <1>3, <1>4, RefMeans, Zenon

NameOf(repo, ref) == IF IsPrefix(repo.prefix, ref) THEN ref ELSE ComposePrefix(repo, ref)

IsTag(repo, name) == name \in DOMAIN repo.tags \/ name \in DOMAIN repo.described

Likes(ref) == {Tail(ref), <<LowerV>> \o Tail(ref), <<UpperV>> \o Tail(ref)}

\* The letter of a version goes
Strips(repo, ref) ==
    /\ IsTag(repo, ref) /\ Len(ref) > 1 /\ ref[1] \in {LowerV, UpperV} /\ ref[2] \in Digits
    /\ Cardinality({name \in Likes(ref) : IsTag(repo, name)}) = 1

Short(repo, ref) == IF Strips(repo, ref) THEN Tail(ref) ELSE ref

\* A file name is the prefix, a separator and the ref, shortened or not.
LEMMA ComposeMeans ==
    ASSUME NEW repo, NEW ref
    PROVE  ComposePrefix(repo, ref) = repo.prefix \o <<Dash>> \o Short(repo, ref)
BY Zenon DEF ComposePrefix, Short, Strips, Likes, IsTag, LowerV, UpperV, Dash

\* Taken, with the letters and the separators named.
LEMMA TakenMeans ==
    ASSUME NEW repo, NEW ref
    PROVE  LET name == ComposePrefix(repo, ref)
               rest == SubSeq(name, Len(repo.prefix) + 2, Len(name))
           IN  Taken(repo, ref) =
                   (/\ ~IsPrefix(repo.prefix, ref)
                    /\ \/ GetOid(repo, name) # None
                       \/ /\ rest # ref
                          /\ \E other \in {rest, <<LowerV>> \o rest} \ {ref} :
                                 other \in DOMAIN repo.heads \cup DOMAIN repo.full
                                              \cup DOMAIN repo.short
                       \/ Head(rest) \in Sep)
BY Zenon DEF Taken, LowerV, Sep

\* T is the set of the tokens
TokenRepo(T, repo) ==
    /\ Dash \in T /\ LowerV \in T /\ UpperV \in T
    /\ repo.prefix \in Seq(T)

\* A ref that is shortened is still a name: a version has a digit behind its letter.
LEMMA ShortIsName ==
    ASSUME NEW T, NEW repo, NEW ref \in Seq(T), ref # <<>>
    PROVE  Short(repo, ref) \in Seq(T) /\ Short(repo, ref) # <<>>
<1>1. CASE Strips(repo, ref)
  <2>1. Len(ref) > 1
    BY <1>1 DEF Strips
  <2>2. Tail(ref) \in Seq(T) /\ Len(Tail(ref)) = Len(ref) - 1
    BY <2>1
  <2>3. Tail(ref) # <<>>
    <3>1. Len(ref) \in Nat
      BY LenProperties
    <3>2. Len(Tail(ref)) # 0
      BY <2>1, <2>2, <3>1
    <3> QED BY <3>2, EmptySeq
  <2> QED BY <1>1, <2>2, <2>3 DEF Short
<1>2. CASE ~Strips(repo, ref)
  BY <1>2 DEF Short
<1> QED BY <1>1, <1>2

\* Behind the prefix of a file name are the separator and the ref.
LEMMA NameApart ==
    ASSUME NEW T, NEW repo, TokenRepo(T, repo), NEW ref \in Seq(T), ref # <<>>
    PROVE  LET name == ComposePrefix(repo, ref)
           IN  /\ IsPrefix(repo.prefix, name)
               /\ SubSeq(name, Len(repo.prefix) + 1, Len(name)) = <<Dash>> \o Short(repo, ref)
               /\ SubSeq(name, Len(repo.prefix) + 2, Len(name)) = Short(repo, ref)
<1> DEFINE p == repo.prefix
           s == Short(repo, ref)
           d == <<Dash>>
           name == ComposePrefix(repo, ref)
<1>1. p \in Seq(T) /\ s \in Seq(T) /\ d \in Seq(T) /\ Len(d) = 1
  BY ShortIsName DEF TokenRepo
<1>2. name = (p \o d) \o s
  BY ComposeMeans
<1> HIDE DEF p, s, d, name
<1>3. name = p \o (d \o s)
  BY <1>1, <1>2
<1>4. d \o s \in Seq(T) /\ p \o d \in Seq(T) /\ Len(p \o d) = Len(p) + 1
  BY <1>1, ConcatProperties
<1>5. IsPrefix(p, name) /\ SubSeq(name, Len(p) + 1, Len(name)) = d \o s
  BY <1>1, <1>3, <1>4, DropFront
<1>6. SubSeq(name, Len(p \o d) + 1, Len(name)) = s
  BY <1>1, <1>2, <1>4, DropFront
<1>7. Len(p \o d) + 1 = Len(p) + 2
  BY <1>1, <1>4, LenProperties
<1> QED BY <1>5, <1>6, <1>7 DEF p, s, d, name

\* A ref loses its letter only if it is the one tag among the three names: the count of
\* cgit_compose_snapshot_prefix is what makes the file's name unambiguous.
LEMMA OnlyTag ==
    ASSUME NEW T, NEW repo, NEW ref \in Seq(T), Strips(repo, ref),
           NEW x \in Likes(ref), x # ref
    PROVE  ~IsTag(repo, x) /\ ref \in Likes(ref)
<1>1. Len(ref) > 1 /\ ref[1] \in {LowerV, UpperV} /\ IsTag(repo, ref)
  BY DEF Strips
<1>2. ref = <<ref[1]>> \o Tail(ref)
  BY <1>1
<1>3. ref \in Likes(ref)
  BY <1>1, <1>2, Zenon DEF Likes
<1> DEFINE S == {name \in Likes(ref) : IsTag(repo, name)}
<1>4. Cardinality(S) = 1
  BY DEF Strips
<1>5. IsFiniteSet(Likes(ref))
  <2> DEFINE a == Tail(ref)
             b == <<LowerV>> \o Tail(ref)
             c == <<UpperV>> \o Tail(ref)
  <2> HIDE DEF a, b, c
  <2>1. IsFiniteSet({a}) /\ IsFiniteSet({b}) /\ IsFiniteSet({c})
    BY FS_Singleton
  <2>2. IsFiniteSet({a} \cup {b})
    BY <2>1, FS_Union
  <2>3. IsFiniteSet(({a} \cup {b}) \cup {c})
    BY <2>1, <2>2, FS_Union
  <2>4. ({a} \cup {b}) \cup {c} = {a, b, c}
    OBVIOUS
  <2>5. IsFiniteSet({a, b, c})
    BY <2>3, <2>4
  <2> QED BY <2>5 DEF a, b, c, Likes
<1>6. IsFiniteSet(S)
  BY <1>5, FS_Subset
<1>7. \E y : S = {y}
  BY <1>4, <1>6, FS_Singleton
<1>8. ref \in S
  BY <1>1, <1>3
<1>9. S = {ref}
  <2> HIDE DEF S
  <2> QED BY <1>7, <1>8
<1>10. x \notin S
  BY <1>9
<1> QED BY <1>3, <1>10

\* The ref of a file name is found again: by the whole name, by what is behind the prefix
\* or, if the letter went, with the letter that it had.
LEMMA FindsRef ==
    ASSUME NEW T, NEW repo, TokenRepo(T, repo), NEW ref \in Seq(T), ref # <<>>,
           GetOid(repo, ref) # None, ~Taken(repo, ref)
    PROVE  RefFromFilename(repo, NameOf(repo, ref)) = ref
<1>1. CASE IsPrefix(repo.prefix, ref)
  <2>1. NameOf(repo, ref) = ref
    BY <1>1 DEF NameOf
  <2>2. Names(repo, ref)[1] = ref
    BY DEF Names
  <2>3. RefFromFilename(repo, ref) = Names(repo, ref)[1]
    <3>1. 1 \in 1 .. 4 /\ \A j \in 1 .. 4 : ~(j < 1)
      OBVIOUS
    <3> QED BY <2>2, <3>1, FirstFound
  <2> QED BY <2>1, <2>2, <2>3
<1>2. CASE ~IsPrefix(repo.prefix, ref)
  <2> DEFINE name == ComposePrefix(repo, ref)
             short == Short(repo, ref)
  <2>1. NameOf(repo, ref) = name
    BY <1>2 DEF NameOf
  <2>2. /\ IsPrefix(repo.prefix, name)
        /\ SubSeq(name, Len(repo.prefix) + 1, Len(name)) = <<Dash>> \o short
        /\ SubSeq(name, Len(repo.prefix) + 2, Len(name)) = short
    BY NameApart
  <2>3. /\ GetOid(repo, name) = None
        /\ \/ short = ref
           \/ \A other \in {short, <<LowerV>> \o short} \ {ref} :
                  other \notin DOMAIN repo.heads \cup DOMAIN repo.full \cup DOMAIN repo.short
        /\ Head(short) \notin Sep
    BY <1>2, <2>2, TakenMeans, Zenon
  <2>4. short \in Seq(T) /\ short # <<>>
    BY ShortIsName
  <2>5. Rest(repo, name) = short
    <3>1. StripSeparators(<<Dash>> \o short) = short
      <4> HIDE DEF short
      <4> QED BY <2>3, <2>4, StripOne DEF TokenRepo
    <3> HIDE DEF short, name
    <3> QED BY <2>2, <3>1 DEF Rest
  <2>6. /\ Names(repo, name)[1] = name
        /\ Names(repo, name)[2] = short
        /\ Names(repo, name)[3] = <<LowerV>> \o short
        /\ Names(repo, name)[4] = <<UpperV>> \o short
    <3> HIDE DEF name, short
    <3> QED BY <2>5 DEF Names
  <2>7. CASE short = ref
    <3>1. 2 \in 1 .. 4 /\ \A j \in 1 .. 4 : j < 2 => j = 1
      OBVIOUS
    <3>2. \A j \in 1 .. 4 : j < 2 => GetOid(repo, Names(repo, name)[j]) = None
      BY <2>3, <2>6, <3>1, Zenon
    <3>3. Names(repo, name)[2] = ref
      BY <2>6, <2>7
    <3> HIDE DEF name
    <3>4. RefFromFilename(repo, name) = Names(repo, name)[2]
      BY <3>1, <3>2, <3>3, FirstFound
    <3> QED BY <2>1, <3>3, <3>4
  <2>8. CASE short # ref
    <3>1. Strips(repo, ref) /\ short = Tail(ref)
      BY <2>8 DEF Short
    <3>2. short \in Likes(ref) /\ <<LowerV>> \o short \in Likes(ref)
      BY <3>1, Zenon DEF Likes
    <3>3. \A x \in Likes(ref) : x # ref => ~IsTag(repo, x)
      BY <3>1, OnlyTag
    <3>4. \A x \in {short, <<LowerV>> \o short} \ {ref} : GetOid(repo, x) = None
      <4> SUFFICES ASSUME NEW x \in {short, <<LowerV>> \o short} \ {ref}
                   PROVE  GetOid(repo, x) = None
        OBVIOUS
      <4>1. x \in Likes(ref) /\ x # ref
        BY <3>2, Zenon
      <4>2. x \notin DOMAIN repo.tags /\ x \notin DOMAIN repo.described
        BY <3>3, <4>1 DEF IsTag
      <4>3. x \notin DOMAIN repo.heads /\ x \notin DOMAIN repo.full /\ x \notin DOMAIN repo.short
        BY <2>3, <2>8, Zenon
      <4> QED BY <4>2, <4>3 DEF GetOid
    <3>5. <<LowerV>> \o short = ref \/ <<UpperV>> \o short = ref
      <4>1. ref \in Likes(ref)
        BY <3>1, <3>2, <2>8, OnlyTag
      <4>2. ref # Tail(ref)
        BY <3>1, <2>8
      <4> QED BY <3>1, <4>1, <4>2, Zenon DEF Likes
    <3> HIDE DEF name, short
    <3>6. GetOid(repo, Names(repo, name)[1]) = None /\ GetOid(repo, Names(repo, name)[2]) = None
      <4>1. GetOid(repo, short) = None
        BY <3>4, <2>8
      <4> QED BY <4>1, <2>3, <2>6
    <3>7. CASE <<LowerV>> \o short = ref
      <4>1. \A j \in 1 .. 4 : j < 3 => j = 1 \/ j = 2
        OBVIOUS
      <4>2. \A j \in 1 .. 4 : j < 3 => GetOid(repo, Names(repo, name)[j]) = None
        BY <4>1, <3>6, Zenon
      <4>a. Names(repo, name)[3] = ref
        BY <2>6, <3>7, Zenon
      <4>3. 3 \in 1 .. 4 /\ Names(repo, name)[3] = ref
        BY <4>a
      <4>4. RefFromFilename(repo, name) = Names(repo, name)[3]
        BY <4>2, <4>3, FirstFound
      <4> QED BY <2>1, <4>3, <4>4
    <3>8. CASE <<LowerV>> \o short # ref /\ <<UpperV>> \o short = ref
      <4>1. \A j \in 1 .. 4 : j < 4 => j = 1 \/ j = 2 \/ j = 3
        OBVIOUS
      <4>2. GetOid(repo, Names(repo, name)[3]) = None
        BY <3>4, <3>8, <2>6
      <4>3. \A j \in 1 .. 4 : j < 4 => GetOid(repo, Names(repo, name)[j]) = None
        BY <4>1, <4>2, <3>6, Zenon
      <4>4. 4 \in 1 .. 4 /\ Names(repo, name)[4] = ref
        BY <2>6, <3>8
      <4>5. RefFromFilename(repo, name) = Names(repo, name)[4]
        BY <4>3, <4>4, FirstFound
      <4> QED BY <2>1, <4>4, <4>5
    <3> QED BY <3>5, <3>7, <3>8
  <2> QED BY <2>7, <2>8
<1> QED BY <1>1, <1>2

\* A link has the name of the ref, and leads to a signature only if there is one.
LEMMA LinkIsOn ==
    ASSUME NEW repo, NEW ref, NEW file \in Links(repo, ref)
    PROVE  /\ file.name = NameOf(repo, ref)
           /\ file.asc => HasSig(repo, ref, file.format)
           /\ ~file.asc => file.format \in repo.snapshots
<1> DEFINE name == NameOf(repo, ref)
           F(f, sig) == [name |-> name, format |-> f, asc |-> sig]
           Sigs(f) == IF HasSig(repo, ref, f) THEN {F(f, TRUE)}
                      ELSE IF f # "zip" /\ HasSig(repo, ref, "tar") THEN {F("tar", TRUE)}
                      ELSE {}
<1>1. PICK f \in repo.snapshots : file \in {F(f, FALSE)} \cup Sigs(f)
  BY Zenon DEF Links, NameOf
<1>2. file = F(f, FALSE) \/ file \in Sigs(f)
  BY <1>1
<1>3. CASE file = F(f, FALSE)
  BY <1>1, <1>3
<1>4. CASE file \in Sigs(f)
  <2>1. \E g : HasSig(repo, ref, g) /\ file = F(g, TRUE)
    BY <1>4, Zenon
  <2>2. PICK g : HasSig(repo, ref, g) /\ file = F(g, TRUE)
    BY <2>1
  <2> QED BY <2>2
<1> QED BY <1>2, <1>3, <1>4

\* An answer that is a record has its fields.
LEMMA AnswerIs ==
    ASSUME NEW answer, NEW c, NEW d, NEW n, d \in {None, n},
           answer = [status |-> 200, commit |-> c, dir |-> d]
    PROVE  answer.status = 200 /\ answer.commit = c /\ answer.dir \in {None, n}
OBVIOUS

Answer(repo, head, file) == PrintSnapshot(repo, head, None, file, TRUE)

\* The file that a link names is answered with the commit of the ref, or refused.
LEMMA FileFound ==
    ASSUME NEW T, NEW repo, TokenRepo(T, repo), NEW head,
           NEW ref \in Seq(T), ref # <<>>, ref # None
    PROVE  FileFindsCommit(repo, head, ref)
<1> SUFFICES ASSUME GetOid(repo, ref) # None, ~Taken(repo, ref),
                    NEW file \in Links(repo, ref)
             PROVE  IF file.asc \/ GetOid(repo, ref) \in repo.commits
                    THEN /\ Answer(repo, head, file).status = 200
                         /\ Answer(repo, head, file).commit = GetOid(repo, ref)
                         /\ Answer(repo, head, file).dir \in {None, file.name}
                    ELSE Answer(repo, head, file).status = 400
  BY Zenon DEF FileFindsCommit, Answer
<1>1. RefFromFilename(repo, file.name) = ref
  BY LinkIsOn, FindsRef
<1>2. CASE file.asc
  <2>1. HasSig(repo, ref, file.format)
    BY <1>2, LinkIsOn
  <2>2. Answer(repo, head, file) = WriteSig(repo, ref, file.format)
    BY <1>1, <1>2, Zenon DEF Answer, PrintSnapshot
  <2>3. WriteSig(repo, ref, file.format)
            = [status |-> 200, commit |-> GetOid(repo, ref), dir |-> None]
    BY <2>1 DEF WriteSig
  <2>4. Answer(repo, head, file)
            = [status |-> 200, commit |-> GetOid(repo, ref), dir |-> None]
    BY <2>2, <2>3
  <2>5. None \in {None, file.name}
    OBVIOUS
  <2> QED BY <1>2, <2>4, <2>5, AnswerIs
<1>3. CASE ~file.asc
  <2>1. file.format \in repo.snapshots
    BY <1>3, LinkIsOn
  <2>2. Answer(repo, head, file) = MakeSnapshot(repo, ref, file.name)
    BY <1>1, <1>3, <2>1, Zenon DEF Answer, PrintSnapshot
  <2>3. CASE GetOid(repo, ref) \in repo.commits
    <3>1. MakeSnapshot(repo, ref, file.name)
              = [status |-> 200, commit |-> GetOid(repo, ref), dir |-> file.name]
      BY <2>3 DEF MakeSnapshot
    <3>2. Answer(repo, head, file)
              = [status |-> 200, commit |-> GetOid(repo, ref), dir |-> file.name]
      BY <2>2, <3>1
    <3>3. file.name \in {None, file.name}
      OBVIOUS
    <3> QED BY <2>3, <3>2, <3>3, AnswerIs
  <2>4. CASE GetOid(repo, ref) \notin repo.commits
    <3>1. MakeSnapshot(repo, ref, file.name) = Error(400)
      BY <2>4 DEF MakeSnapshot
    <3>2. Answer(repo, head, file).status = 400
      BY <2>2, <3>1 DEF Error
    <3> QED BY <1>3, <2>4, <3>2
  <2> QED BY <2>3, <2>4
<1> QED BY <1>2, <1>3
-----------------------------------------------------------------------------
(* The parameters of a link *)

\* All parameters in P are called n
Owns(P, n) == \A p \in P : p[1] = n

Single(n, v) == {<<n, v>>}

\* A parameter that is given or not has its own name.
LEMMA SingleOwns ==
    ASSUME NEW n, NEW v, NEW P, P = Single(n, v) \/ P = {}
    PROVE  Owns(P, n)
BY DEF Owns, Single

\* A parameter that is not given has its default,
LEMMA GivenNone ==
    ASSUME NEW n, NEW d
    PROVE  Given({}, n, d) = d
BY DEF Given

\* and one that is given its value.
LEMMA GivenSingle ==
    ASSUME NEW n, NEW v, NEW d
    PROVE  Given(Single(n, v), n, d) = v
<1>1. \E p \in {<<n, v>>} : p[1] = n
  OBVIOUS
<1>2. (CHOOSE p \in {<<n, v>>} : p[1] = n) = <<n, v>>
  OBVIOUS
<1>3. <<n, v>>[2] = v
  OBVIOUS
<1> QED BY <1>1, <1>2, <1>3, Zenon DEF Given, Single

\* A parameter is looked for among those of its name only.
LEMMA GivenPart ==
    ASSUME NEW n, NEW P, NEW C, C \subseteq P, \A p \in P : p[1] = n => p \in C, NEW d
    PROVE  Given(P, n, d) = Given(C, n, d)
<1>1. \A p : (p \in P /\ p[1] = n) <=> (p \in C /\ p[1] = n)
  OBVIOUS
<1>2. (CHOOSE p \in P : p[1] = n) = (CHOOSE p \in C : p[1] = n)
  BY <1>1
<1>3. (\E p \in P : p[1] = n) <=> (\E p \in C : p[1] = n)
  BY <1>1
<1> QED BY <1>2, <1>3, Zenon DEF Given

\* Each of eleven parameters has the value that it has alone.
LEMMA GivenApart ==
    ASSUME NEW H, NEW I, NEW I2, NEW D, NEW C, NEW W, NEW F, NEW O, NEW G, NEW S, NEW M,
           Owns(H, "h"), Owns(I, "id"), Owns(I2, "id2"), Owns(D, "dt"), Owns(C, "context"),
           Owns(W, "ignorews"), Owns(F, "follow"), Owns(O, "ofs"), Owns(G, "qt"),
           Owns(S, "q"), Owns(M, "showmsg"), NEW d,
           NEW P, P = H \cup I \cup I2 \cup D \cup C \cup W
               \cup F \cup O \cup G \cup S \cup M
    PROVE  /\ Given(P, "h", d) = Given(H, "h", d)
           /\ Given(P, "id", d) = Given(I, "id", d)
           /\ Given(P, "id2", d) = Given(I2, "id2", d)
           /\ Given(P, "dt", d) = Given(D, "dt", d)
           /\ Given(P, "context", d) = Given(C, "context", d)
           /\ Given(P, "ignorews", d) = Given(W, "ignorews", d)
           /\ Given(P, "follow", d) = Given(F, "follow", d)
           /\ Given(P, "ofs", d) = Given(O, "ofs", d)
           /\ Given(P, "qt", d) = Given(G, "qt", d)
           /\ Given(P, "q", d) = Given(S, "q", d)
           /\ Given(P, "showmsg", d) = Given(M, "showmsg", d)
<1>1. \A p : p \in P <=> p \in H \/ p \in I \/ p \in I2 \/ p \in D \/ p \in C \/ p \in W
           \/ p \in F \/ p \in O \/ p \in G \/ p \in S \/ p \in M
  OBVIOUS
<1>2. H \subseteq P /\ \A p \in P : p[1] = "h" => p \in H
  BY <1>1 DEF Owns
<1>3. I \subseteq P /\ \A p \in P : p[1] = "id" => p \in I
  BY <1>1 DEF Owns
<1>4. I2 \subseteq P /\ \A p \in P : p[1] = "id2" => p \in I2
  BY <1>1 DEF Owns
<1>5. D \subseteq P /\ \A p \in P : p[1] = "dt" => p \in D
  BY <1>1 DEF Owns
<1>6. C \subseteq P /\ \A p \in P : p[1] = "context" => p \in C
  BY <1>1 DEF Owns
<1>7. W \subseteq P /\ \A p \in P : p[1] = "ignorews" => p \in W
  BY <1>1 DEF Owns
<1>8. F \subseteq P /\ \A p \in P : p[1] = "follow" => p \in F
  BY <1>1 DEF Owns
<1>9. O \subseteq P /\ \A p \in P : p[1] = "ofs" => p \in O
  BY <1>1 DEF Owns
<1>10. G \subseteq P /\ \A p \in P : p[1] = "qt" => p \in G
  BY <1>1 DEF Owns
<1>11. S \subseteq P /\ \A p \in P : p[1] = "q" => p \in S
  BY <1>1 DEF Owns
<1>12. M \subseteq P /\ \A p \in P : p[1] = "showmsg" => p \in M
  BY <1>1 DEF Owns
<1>13. Given(P, "h", d) = Given(H, "h", d)
  BY <1>2, GivenPart
<1>14. Given(P, "id", d) = Given(I, "id", d)
  BY <1>3, GivenPart
<1>15. Given(P, "id2", d) = Given(I2, "id2", d)
  BY <1>4, GivenPart
<1>16. Given(P, "dt", d) = Given(D, "dt", d)
  BY <1>5, GivenPart
<1>17. Given(P, "context", d) = Given(C, "context", d)
  BY <1>6, GivenPart
<1>18. Given(P, "ignorews", d) = Given(W, "ignorews", d)
  BY <1>7, GivenPart
<1>19. Given(P, "follow", d) = Given(F, "follow", d)
  BY <1>8, GivenPart
<1>20. Given(P, "ofs", d) = Given(O, "ofs", d)
  BY <1>9, GivenPart
<1>21. Given(P, "qt", d) = Given(G, "qt", d)
  BY <1>10, GivenPart
<1>22. Given(P, "q", d) = Given(S, "q", d)
  BY <1>11, GivenPart
<1>23. Given(P, "showmsg", d) = Given(M, "showmsg", d)
  BY <1>12, GivenPart
<1> QED BY <1>13, <1>14, <1>15, <1>16, <1>17, <1>18, <1>19, <1>20, <1>21, <1>22, <1>23

Diffs == {"commit", "diff"}
OfRevision == {"tree", "plain", "blame", "patch", "refs", "snapshot"}

\* What of a query goes into the link, a parameter each
HeadPart(site, q) ==
    IF q.head # None /\ q.head # site.repos[site.repo].defbranch
    THEN Single("h", q.head) ELSE {}
IdPart(q) ==
    IF q.page # "stats" /\ q.oid # None /\ q.head # None /\ q.oid # q.head
    THEN Single("id", q.oid) ELSE {}
Id2Part(q) == IF q.page = "diff" /\ q.oid2 # None THEN Single("id2", q.oid2) ELSE {}
TypePart(q) ==
    IF q.page \in Diffs /\ q.difftype \notin {None, 0} THEN Single("dt", q.difftype) ELSE {}
ContextPart(q) ==
    IF q.page \in Diffs /\ q.context > 0 /\ q.context # 3
    THEN Single("context", q.context) ELSE {}
IgnorePart(q) == IF q.page \in Diffs /\ q.ignorews # 0 THEN Single("ignorews", 1) ELSE {}
FollowPart(q) ==
    IF (q.page \in Diffs \/ q.page = "log") /\ q.follow # 0 THEN Single("follow", 1) ELSE {}
OfsPart(q) == IF q.page = "log" /\ q.ofs > 0 THEN Single("ofs", q.ofs) ELSE {}
GrepPart(q) ==
    IF q.page = "log" /\ q.grep # None /\ q.search # None THEN Single("qt", q.grep) ELSE {}
SearchPart(q) ==
    IF q.page = "log" /\ q.grep # None /\ q.search # None THEN Single("q", q.search) ELSE {}
ShowmsgPart(q) == IF q.page = "log" /\ q.showmsg # 0 THEN Single("showmsg", 1) ELSE {}

AllParts(site, q) ==
    HeadPart(site, q) \cup IdPart(q) \cup Id2Part(q) \cup TypePart(q) \cup ContextPart(q)
    \cup IgnorePart(q) \cup FollowPart(q) \cup OfsPart(q) \cup GrepPart(q) \cup SearchPart(q)
    \cup ShowmsgPart(q)

\* The links of the pages that show a revision carry the branch and the revision.
LEMMA RevisionParams ==
    ASSUME NEW site, NEW q, NEW path, q.page \in OfRevision
    PROVE  /\ SelfLink(site, q, path) = Reporevlink(site, q, q.page, q.head, q.oid, path)
           /\ SelfLink(site, q, path).params = AllParts(site, q)
<1>1. q.page \notin Diffs /\ q.page # "log" /\ q.page # "stats"
      /\ q.page # "summary" /\ q.page # "tag"
  BY Zenon DEF OfRevision, Diffs
<1>2. SelfLink(site, q, path) = Reporevlink(site, q, q.page, q.head, q.oid, path)
  BY <1>1, Zenon DEF SelfLink, OfRevision
<1>3. Reporevlink(site, q, q.page, q.head, q.oid, path).params
          = HeadPart(site, q) \cup IdPart(q)
  BY <1>1 DEF Reporevlink, With, Repolink, IdParam, ParamIf, HeadPart, IdPart, Single
<1>4. /\ Id2Part(q) = {} /\ TypePart(q) = {} /\ ContextPart(q) = {} /\ IgnorePart(q) = {}
      /\ FollowPart(q) = {} /\ OfsPart(q) = {} /\ GrepPart(q) = {} /\ SearchPart(q) = {}
      /\ ShowmsgPart(q) = {}
  BY <1>1, Zenon DEF Id2Part, TypePart, ContextPart, IgnorePart, FollowPart, OfsPart, GrepPart,
      SearchPart, ShowmsgPart, Diffs
<1>5. AllParts(site, q) = HeadPart(site, q) \cup IdPart(q)
  BY <1>4 DEF AllParts
<1> QED BY <1>2, <1>3, <1>5

\* The link of the statistics carries the branch only.
LEMMA StatsParams ==
    ASSUME NEW site, NEW q, NEW path, q.page = "stats"
    PROVE  /\ SelfLink(site, q, path) = Reporevlink(site, q, q.page, q.head, None, path)
           /\ SelfLink(site, q, path).params = AllParts(site, q)
<1>1. q.page \notin Diffs /\ q.page # "log"
  BY Zenon DEF Diffs
<1>2. SelfLink(site, q, path) = Reporevlink(site, q, q.page, q.head, None, path)
  BY Zenon DEF SelfLink
<1>3. Reporevlink(site, q, q.page, q.head, None, path).params = HeadPart(site, q)
  BY DEF Reporevlink, With, Repolink, IdParam, ParamIf, HeadPart, Single
<1>4. /\ Id2Part(q) = {} /\ TypePart(q) = {} /\ ContextPart(q) = {} /\ IgnorePart(q) = {}
      /\ FollowPart(q) = {} /\ OfsPart(q) = {} /\ GrepPart(q) = {} /\ SearchPart(q) = {}
      /\ ShowmsgPart(q) = {} /\ IdPart(q) = {}
  BY <1>1, Zenon DEF IdPart, Id2Part, TypePart, ContextPart,
      IgnorePart, FollowPart, OfsPart, GrepPart, SearchPart, ShowmsgPart, Diffs
<1>5. AllParts(site, q) = HeadPart(site, q)
  BY <1>4 DEF AllParts
<1> QED BY <1>2, <1>3, <1>5

\* The link of the log carries the search, the place and what is shown of a commit.
LEMMA LogParams ==
    ASSUME NEW site, NEW q, NEW path, q.page = "log"
    PROVE  LET link == LogLink(site, q, q.head, q.oid, path, q.ofs, q.grep, q.search, q.showmsg,
                               q.follow)
           IN  /\ SelfLink(site, q, path) = link
               /\ SelfLink(site, q, path).params = AllParts(site, q)
<1> DEFINE link == LogLink(site, q, q.head, q.oid, path, q.ofs, q.grep, q.search, q.showmsg,
                           q.follow)
<1>1. q.page \notin Diffs /\ q.page # "stats" /\ q.page # "diff"
  BY Zenon DEF Diffs
<1>2. SelfLink(site, q, path) = link
  BY Zenon DEF SelfLink
<1>3. HeadPart(site, q)
          = ParamIf(q.head # None /\ q.head # site.repos[site.repo].defbranch, "h", q.head)
  BY DEF HeadPart, ParamIf, Single
<1>4. IdPart(q) = IdParam(q, q.oid)
  BY <1>1 DEF IdPart, IdParam, ParamIf, Single
<1>5. GrepPart(q) = ParamIf(q.grep # None /\ q.search # None, "qt", q.grep)
  BY DEF GrepPart, ParamIf, Single
<1>6. SearchPart(q) = ParamIf(q.grep # None /\ q.search # None, "q", q.search)
  BY DEF SearchPart, ParamIf, Single
<1>7. OfsPart(q) = ParamIf(q.ofs > 0, "ofs", q.ofs)
  BY DEF OfsPart, ParamIf, Single
<1>8. ShowmsgPart(q) = ParamIf(q.showmsg # 0, "showmsg", 1)
  BY DEF ShowmsgPart, ParamIf, Single
<1>9. FollowPart(q) = ParamIf(q.follow # 0, "follow", 1)
  BY DEF FollowPart, ParamIf, Single
<1>10. Id2Part(q) = {} /\ TypePart(q) = {} /\ ContextPart(q) = {} /\ IgnorePart(q) = {}
  BY <1>1, Zenon DEF Id2Part, TypePart, ContextPart, IgnorePart
<1>11. link.params = HeadPart(site, q) \cup (IdPart(q) \cup GrepPart(q) \cup SearchPart(q)
                         \cup OfsPart(q) \cup ShowmsgPart(q) \cup FollowPart(q))
  <2>1. link.params
            = ParamIf(q.head # None /\ q.head # site.repos[site.repo].defbranch, "h", q.head)
            \cup (IdParam(q, q.oid)
                  \cup ParamIf(q.grep # None /\ q.search # None, "qt", q.grep)
                  \cup ParamIf(q.grep # None /\ q.search # None, "q", q.search)
                  \cup ParamIf(q.ofs > 0, "ofs", q.ofs)
                  \cup ParamIf(q.showmsg # 0, "showmsg", 1)
                  \cup ParamIf(q.follow # 0, "follow", 1))
    BY DEF LogLink, With, Repolink
  <2> QED BY <2>1, <1>3, <1>4, <1>5, <1>6, <1>7, <1>8, <1>9, Zenon
<1>12. AllParts(site, q) = HeadPart(site, q) \cup (IdPart(q) \cup GrepPart(q) \cup SearchPart(q)
                         \cup OfsPart(q) \cup ShowmsgPart(q) \cup FollowPart(q))
  BY <1>10 DEF AllParts
<1> QED BY <1>2, <1>11, <1>12

\* What the links to a commit and to a diff add.
LEMMA DiffParamsAre ==
    ASSUME NEW q, q.page \in Diffs
    PROVE  /\ DiffParams(q) =
                  TypePart(q) \cup ContextPart(q) \cup IgnorePart(q) \cup FollowPart(q)
           /\ OfsPart(q) = {} /\ GrepPart(q) = {} /\ SearchPart(q) = {} /\ ShowmsgPart(q) = {}
<1>1. q.page # "log"
  BY Zenon DEF Diffs
<1>2. TypePart(q) = ParamIf(q.difftype \notin {None, 0}, "dt", q.difftype)
  BY DEF TypePart, ParamIf, Single
<1>3. ContextPart(q) = ParamIf(q.context > 0 /\ q.context # 3, "context", q.context)
  BY DEF ContextPart, ParamIf, Single
<1>4. IgnorePart(q) = ParamIf(q.ignorews # 0, "ignorews", 1)
  BY DEF IgnorePart, ParamIf, Single
<1>5. FollowPart(q) = ParamIf(q.follow # 0, "follow", 1)
  BY DEF FollowPart, ParamIf, Single
<1>6. DiffParams(q) = TypePart(q) \cup ContextPart(q) \cup IgnorePart(q) \cup FollowPart(q)
  BY <1>2, <1>3, <1>4, <1>5, Zenon DEF DiffParams
<1> QED BY <1>1, <1>6, Zenon DEF OfsPart, GrepPart, SearchPart, ShowmsgPart

\* The link of a commit.
LEMMA CommitParams ==
    ASSUME NEW site, NEW q, NEW path, q.page = "commit"
    PROVE  /\ SelfLink(site, q, path) = CommitLink(site, q, q.head, q.oid, path)
           /\ SelfLink(site, q, path).params = AllParts(site, q)
<1> DEFINE link == CommitLink(site, q, q.head, q.oid, path)
<1>1. q.page \in Diffs /\ q.page # "stats" /\ q.page # "diff"
  BY Zenon DEF Diffs
<1>2. SelfLink(site, q, path) = link
  BY Zenon DEF SelfLink
<1>3. HeadPart(site, q)
          = ParamIf(q.head # None /\ q.head # site.repos[site.repo].defbranch, "h", q.head)
  BY DEF HeadPart, ParamIf, Single
<1>4. IdPart(q) = IdParam(q, q.oid)
  BY <1>1 DEF IdPart, IdParam, ParamIf, Single
<1>5. Id2Part(q) = {}
  BY <1>1, Zenon DEF Id2Part
<1>6. link.params = HeadPart(site, q) \cup (IdPart(q) \cup DiffParams(q))
  <2>1. link.params
            = ParamIf(q.head # None /\ q.head # site.repos[site.repo].defbranch, "h", q.head)
            \cup (IdParam(q, q.oid) \cup DiffParams(q))
    BY DEF CommitLink, With, Repolink
  <2> QED BY <2>1, <1>3, <1>4, Zenon
<1>7. AllParts(site, q) = HeadPart(site, q) \cup (IdPart(q) \cup DiffParams(q))
  BY <1>1, <1>5, DiffParamsAre DEF AllParts
<1> QED BY <1>2, <1>6, <1>7

\* The link of a diff carries the other revision too.
LEMMA DiffLinkParams ==
    ASSUME NEW site, NEW q, NEW path, q.page = "diff"
    PROVE  /\ SelfLink(site, q, path) = DiffLink(site, q, q.head, q.oid, q.oid2, path)
           /\ SelfLink(site, q, path).params = AllParts(site, q)
<1> DEFINE link == DiffLink(site, q, q.head, q.oid, q.oid2, path)
<1>1. q.page \in Diffs /\ q.page # "stats"
  BY Zenon DEF Diffs
<1>2. SelfLink(site, q, path) = link
  BY Zenon DEF SelfLink
<1>3. HeadPart(site, q)
          = ParamIf(q.head # None /\ q.head # site.repos[site.repo].defbranch, "h", q.head)
  BY DEF HeadPart, ParamIf, Single
<1>4. IdPart(q) = IdParam(q, q.oid)
  BY <1>1 DEF IdPart, IdParam, ParamIf, Single
<1>5. Id2Part(q) = ParamIf(q.oid2 # None, "id2", q.oid2)
  BY DEF Id2Part, ParamIf, Single
<1>6. link.params = HeadPart(site, q) \cup (IdPart(q) \cup Id2Part(q) \cup DiffParams(q))
  <2>1. link.params
            = ParamIf(q.head # None /\ q.head # site.repos[site.repo].defbranch, "h", q.head)
            \cup (IdParam(q, q.oid) \cup ParamIf(q.oid2 # None, "id2", q.oid2)
                  \cup DiffParams(q))
    BY DEF DiffLink, With, Repolink
  <2> QED BY <2>1, <1>3, <1>4, <1>5, Zenon
<1>7. AllParts(site, q) = HeadPart(site, q) \cup (IdPart(q) \cup Id2Part(q) \cup DiffParams(q))
  BY <1>1, DiffParamsAre DEF AllParts
<1> QED BY <1>2, <1>6, <1>7

\* The pages that can be asked for again by their link
Kept == OfRevision \cup Diffs \cup {"log", "stats"}

\* The link of each of these pages, in one form.
LEMMA SelfParams ==
    ASSUME NEW site, NEW q, NEW path, q.page \in Kept, q.page # None
    PROVE  /\ SelfLink(site, q, path).url
                  = site.repos[site.repo].url \o (<<Seg(q.page)>> \o path)
           /\ SelfLink(site, q, path).params = AllParts(site, q)
<1> DEFINE Url == site.repos[site.repo].url \o (<<Seg(q.page)>> \o path)
<1>1. CASE q.page \in OfRevision
  <2>1. Reporevlink(site, q, q.page, q.head, q.oid, path).url = Url
    BY DEF Reporevlink, With, Repolink
  <2> QED BY <1>1, <2>1, RevisionParams
<1>2. CASE q.page = "stats"
  <2>1. Reporevlink(site, q, q.page, q.head, None, path).url = Url
    BY DEF Reporevlink, With, Repolink
  <2> QED BY <1>2, <2>1, StatsParams
<1>3. CASE q.page = "log"
  <2>1. LogLink(site, q, q.head, q.oid, path, q.ofs, q.grep, q.search, q.showmsg,
                q.follow).url = Url
    BY <1>3 DEF LogLink, With, Repolink
  <2> QED BY <1>3, <2>1, LogParams
<1>4. CASE q.page = "commit"
  <2>1. CommitLink(site, q, q.head, q.oid, path).url = Url
    BY <1>4 DEF CommitLink, With, Repolink
  <2> QED BY <1>4, <2>1, CommitParams
<1>5. CASE q.page = "diff"
  <2>1. DiffLink(site, q, q.head, q.oid, q.oid2, path).url = Url
    BY <1>5 DEF DiffLink, With, Repolink
  <2> QED BY <1>5, <2>1, DiffLinkParams
<1>6. q.page \in OfRevision \/ q.page = "commit" \/ q.page = "diff"
      \/ q.page = "log" \/ q.page = "stats"
  BY Zenon DEF Kept, Diffs
<1> QED BY <1>1, <1>2, <1>3, <1>4, <1>5, <1>6

\* The url of the repository that the page is of
Own(site) == site.repos[site.repo].url

Fits(site, url) == {k \in 1 .. Len(url) : GetRepoinfo(site, SubSeq(url, 1, k)) # None}
Longest(site, url) == CHOOSE i \in Fits(site, url) : \A j \in Fits(site, url) : i >= j

\* cgit_parse_url, by the longest part of the url that is a repository.
LEMMA ParseMeans ==
    ASSUME NEW site, NEW url
    PROVE  ParseUrl(site, url) =
               IF Fits(site, url) = {} THEN [repo |-> None, page |-> None, path |-> <<>>]
               ELSE [repo |-> GetRepoinfo(site, SubSeq(url, 1, Longest(site, url))),
                     page |-> IF Longest(site, url) < Len(url)
                              THEN url[Longest(site, url) + 1].n ELSE None,
                     path |-> SubSeq(url, Longest(site, url) + 2, Len(url))]
BY Zenon DEF ParseUrl, Fits, Longest

\* The repository's url, a page and a path come apart again, if no longer part of the whole
\* is a repository's.
LEMMA Parsed ==
    ASSUME NEW S, NEW site, Own(site) \in Seq(S), Own(site) # <<>>, NEW seg \in S,
           NEW path \in Seq(S), site.repo # None, GetRepoinfo(site, Own(site)) = site.repo,
           NEW url, url = Own(site) \o (<<seg>> \o path), ~Shadowed(site, url)
    PROVE  ParseUrl(site, url) = [repo |-> site.repo, page |-> seg.n, path |-> path]
<1> DEFINE o == Own(site)
           t == <<seg>> \o path
           n == Len(o)
<1>1. o \in Seq(S) /\ <<seg>> \in Seq(S) /\ Len(<<seg>>) = 1
      /\ t \in Seq(S) /\ o \o <<seg>> \in Seq(S)
  BY ConcatProperties
<1>2. n \in Nat /\ n >= 1
  BY <1>1, EmptySeq, LenProperties
<1>3. Len(t) = 1 + Len(path) /\ Len(path) \in Nat /\ t[1] = seg
  BY <1>1, ConcatProperties, LenProperties
<1>4. /\ Len(url) = n + Len(t)
      /\ url[n + 1] = seg
      /\ url \in Seq(S)
  BY <1>1, <1>2, <1>3, ConcatProperties
<1>5. SubSeq(url, 1, n) = o
  <2>1. IsPrefix(o, url)
    BY <1>1, DropFront
  <2>2. SubSeq(o, 1, n) = o
    BY <1>1
  <2> QED BY <2>1, <2>2 DEF IsPrefix
<1>6. SubSeq(url, n + 2, Len(url)) = path
  <2>1. url = (o \o <<seg>>) \o path
    BY <1>1
  <2>2. Len(o \o <<seg>>) = n + 1
    BY <1>1, ConcatProperties
  <2>3. SubSeq((o \o <<seg>>) \o path, Len(o \o <<seg>>) + 1, Len((o \o <<seg>>) \o path))
            = path
    BY <1>1, DropFront
  <2>4. n + 1 + 1 = n + 2
    BY <1>2
  <2> QED BY <2>1, <2>2, <2>3, <2>4
<1>7. \A k \in n + 1 .. Len(url) : GetRepoinfo(site, SubSeq(url, 1, k)) = None
  BY DEF Shadowed, Own
<1> HIDE DEF o, t, n
<1>8. n \in Fits(site, url)
  <2>1. n \in 1 .. Len(url)
    BY <1>2, <1>3, <1>4
  <2>2. GetRepoinfo(site, SubSeq(url, 1, n)) # None
    BY <1>5 DEF o
  <2> QED BY <2>1, <2>2 DEF Fits
<1>9. \A k \in Fits(site, url) : k \in Nat /\ k <= n
  <2> SUFFICES ASSUME NEW k \in Fits(site, url) PROVE k \in Nat /\ k <= n
    OBVIOUS
  <2>1. k \in 1 .. Len(url) /\ GetRepoinfo(site, SubSeq(url, 1, k)) # None
    BY DEF Fits
  <2>2. k \notin n + 1 .. Len(url)
    BY <1>7, <2>1
  <2> QED BY <1>2, <1>3, <1>4, <2>1, <2>2
<1>10. Longest(site, url) = n
  <2>1. \A i \in Fits(site, url) : (\A j \in Fits(site, url) : i >= j) => i = n
    <3> SUFFICES ASSUME NEW i \in Fits(site, url), \A j \in Fits(site, url) : i >= j
                 PROVE  i = n
      OBVIOUS
    <3>1. i \in Nat /\ i <= n
      BY <1>9
    <3>2. i >= n
      BY <1>8
    <3> QED BY <1>2, <3>1, <3>2
  <2>2. \A j \in Fits(site, url) : n >= j
    BY <1>2, <1>9
  <2> QED BY <1>8, <2>1, <2>2, Zenon DEF Longest
<1>11. n < Len(url)
  BY <1>2, <1>3, <1>4
<1>12. ParseUrl(site, url) = [repo |-> GetRepoinfo(site, SubSeq(url, 1, n)),
                              page |-> url[n + 1].n,
                              path |-> SubSeq(url, n + 2, Len(url))]
  BY <1>8, <1>10, <1>11, ParseMeans, Zenon
<1> QED BY <1>4, <1>5, <1>6, <1>12 DEF o

-----------------------------------------------------------------------------

\* The queries for these pages
Query(Seqs, Values) ==
    [repo : Int, page : Kept, path : Seqs, head : Values, oid : Values \cup {None},
     oid2 : Values \cup {None}, difftype : {None, 0, 1}, context : Int, ignorews : {0, 1},
     follow : {0, 1}, ofs : Nat, grep : Values \cup {None}, search : Values \cup {None},
     showmsg : {0, 1}]

\* The request r is what querystring_cb makes of page, path and P
Reads(r, site, page, path, P) ==
    /\ r.repo = site.repo /\ r.page = page /\ r.path = path
    /\ r.head = Given(P, "h", DefaultHead(site))
    /\ r.oid = Given(P, "id", None) /\ r.oid2 = Given(P, "id2", None)
    /\ r.difftype = Given(P, "dt", None) /\ r.context = Given(P, "context", 0)
    /\ r.ignorews = Given(P, "ignorews", 0) /\ r.follow = Given(P, "follow", 0)
    /\ r.ofs = Given(P, "ofs", 0) /\ r.grep = Given(P, "qt", None)
    /\ r.search = Given(P, "q", None) /\ r.showmsg = Given(P, "showmsg", 0)

\* The request that comes of a link, field by field.
LEMMA RequestOfLink ==
    ASSUME NEW S, NEW site, Own(site) \in Seq(S), Own(site) # <<>>, NEW seg \in S,
           NEW path \in Seq(S), site.repo # None, GetRepoinfo(site, Own(site)) = site.repo,
           NEW link, link.url = Own(site) \o (<<seg>> \o path), ~Shadowed(site, link.url),
           seg.n # None
    PROVE  Reads(RequestOf(site, link), site, seg.n, path, link.params)
<1>1. ParseUrl(site, link.url) = [repo |-> site.repo, page |-> seg.n, path |-> path]
  BY Parsed
<1>2. /\ ParseUrl(site, link.url).repo = site.repo
      /\ ParseUrl(site, link.url).page = seg.n
      /\ ParseUrl(site, link.url).path = path
  BY <1>1
<1> QED BY <1>2 DEF RequestOf, Reads

\* The parts have their names,
LEMMA PartsOwn ==
    ASSUME NEW site, NEW q
    PROVE  /\ Owns(HeadPart(site, q), "h")
           /\ Owns(IdPart(q), "id")
           /\ Owns(Id2Part(q), "id2")
           /\ Owns(TypePart(q), "dt")
           /\ Owns(ContextPart(q), "context")
           /\ Owns(IgnorePart(q), "ignorews")
           /\ Owns(FollowPart(q), "follow")
           /\ Owns(OfsPart(q), "ofs")
           /\ Owns(GrepPart(q), "qt")
           /\ Owns(SearchPart(q), "q")
           /\ Owns(ShowmsgPart(q), "showmsg")
<1>1. Owns(HeadPart(site, q), "h")
  BY SingleOwns DEF HeadPart
<1>2. Owns(IdPart(q), "id")
  BY SingleOwns DEF IdPart
<1>3. Owns(Id2Part(q), "id2")
  BY SingleOwns DEF Id2Part
<1>4. Owns(TypePart(q), "dt")
  BY SingleOwns DEF TypePart
<1>5. Owns(ContextPart(q), "context")
  BY SingleOwns DEF ContextPart
<1>6. Owns(IgnorePart(q), "ignorews")
  BY SingleOwns DEF IgnorePart
<1>7. Owns(FollowPart(q), "follow")
  BY SingleOwns DEF FollowPart
<1>8. Owns(OfsPart(q), "ofs")
  BY SingleOwns DEF OfsPart
<1>9. Owns(GrepPart(q), "qt")
  BY SingleOwns DEF GrepPart
<1>10. Owns(SearchPart(q), "q")
  BY SingleOwns DEF SearchPart
<1>11. Owns(ShowmsgPart(q), "showmsg")
  BY SingleOwns DEF ShowmsgPart
<1> QED BY <1>1, <1>2, <1>3, <1>4, <1>5, <1>6, <1>7, <1>8, <1>9, <1>10, <1>11

\* so each parameter of a link is that of its part,
LEMMA GivenAll ==
    ASSUME NEW site, NEW q, NEW d
    PROVE  /\ Given(AllParts(site, q), "h", d) = Given(HeadPart(site, q), "h", d)
           /\ Given(AllParts(site, q), "id", d) = Given(IdPart(q), "id", d)
           /\ Given(AllParts(site, q), "id2", d) = Given(Id2Part(q), "id2", d)
           /\ Given(AllParts(site, q), "dt", d) = Given(TypePart(q), "dt", d)
           /\ Given(AllParts(site, q), "context", d) = Given(ContextPart(q), "context", d)
           /\ Given(AllParts(site, q), "ignorews", d) = Given(IgnorePart(q), "ignorews", d)
           /\ Given(AllParts(site, q), "follow", d) = Given(FollowPart(q), "follow", d)
           /\ Given(AllParts(site, q), "ofs", d) = Given(OfsPart(q), "ofs", d)
           /\ Given(AllParts(site, q), "qt", d) = Given(GrepPart(q), "qt", d)
           /\ Given(AllParts(site, q), "q", d) = Given(SearchPart(q), "q", d)
           /\ Given(AllParts(site, q), "showmsg", d) = Given(ShowmsgPart(q), "showmsg", d)
BY PartsOwn, GivenApart DEF AllParts

\* which is the value of the query or what the next request assumes.
LEMMA GivenValues ==
    ASSUME NEW site, NEW q
    PROVE  /\ Given(AllParts(site, q), "h", DefaultHead(site)) =
                  IF q.head # None /\ q.head # site.repos[site.repo].defbranch
                  THEN q.head ELSE DefaultHead(site)
           /\ Given(AllParts(site, q), "id", None) =
                  IF q.page # "stats" /\ q.oid # None /\ q.head # None /\ q.oid # q.head
                  THEN q.oid ELSE None
           /\ Given(AllParts(site, q), "id2", None) =
                  IF q.page = "diff" /\ q.oid2 # None
                  THEN q.oid2 ELSE None
           /\ Given(AllParts(site, q), "dt", None) =
                  IF q.page \in Diffs /\ q.difftype \notin {None, 0}
                  THEN q.difftype ELSE None
           /\ Given(AllParts(site, q), "context", 0) =
                  IF q.page \in Diffs /\ q.context > 0 /\ q.context # 3
                  THEN q.context ELSE 0
           /\ Given(AllParts(site, q), "ignorews", 0) =
                  IF q.page \in Diffs /\ q.ignorews # 0
                  THEN 1 ELSE 0
           /\ Given(AllParts(site, q), "follow", 0) =
                  IF (q.page \in Diffs \/ q.page = "log") /\ q.follow # 0
                  THEN 1 ELSE 0
           /\ Given(AllParts(site, q), "ofs", 0) =
                  IF q.page = "log" /\ q.ofs > 0
                  THEN q.ofs ELSE 0
           /\ Given(AllParts(site, q), "qt", None) =
                  IF q.page = "log" /\ q.grep # None /\ q.search # None
                  THEN q.grep ELSE None
           /\ Given(AllParts(site, q), "q", None) =
                  IF q.page = "log" /\ q.grep # None /\ q.search # None
                  THEN q.search ELSE None
           /\ Given(AllParts(site, q), "showmsg", 0) =
                  IF q.page = "log" /\ q.showmsg # 0
                  THEN 1 ELSE 0
<1>1. Given(HeadPart(site, q), "h", DefaultHead(site)) =
          IF q.head # None /\ q.head # site.repos[site.repo].defbranch
          THEN q.head ELSE DefaultHead(site)
  BY GivenSingle, GivenNone DEF HeadPart
<1>2. Given(IdPart(q), "id", None) =
          IF q.page # "stats" /\ q.oid # None /\ q.head # None /\ q.oid # q.head
          THEN q.oid ELSE None
  BY GivenSingle, GivenNone DEF IdPart
<1>3. Given(Id2Part(q), "id2", None) =
          IF q.page = "diff" /\ q.oid2 # None THEN q.oid2 ELSE None
  BY GivenSingle, GivenNone DEF Id2Part
<1>4. Given(TypePart(q), "dt", None) =
          IF q.page \in Diffs /\ q.difftype \notin {None, 0} THEN q.difftype ELSE None
  BY GivenSingle, GivenNone DEF TypePart
<1>5. Given(ContextPart(q), "context", 0) =
          IF q.page \in Diffs /\ q.context > 0 /\ q.context # 3 THEN q.context ELSE 0
  BY GivenSingle, GivenNone DEF ContextPart
<1>6. Given(IgnorePart(q), "ignorews", 0) =
          IF q.page \in Diffs /\ q.ignorews # 0 THEN 1 ELSE 0
  BY GivenSingle, GivenNone DEF IgnorePart
<1>7. Given(FollowPart(q), "follow", 0) =
          IF (q.page \in Diffs \/ q.page = "log") /\ q.follow # 0 THEN 1 ELSE 0
  BY GivenSingle, GivenNone DEF FollowPart
<1>8. Given(OfsPart(q), "ofs", 0) =
          IF q.page = "log" /\ q.ofs > 0 THEN q.ofs ELSE 0
  BY GivenSingle, GivenNone DEF OfsPart
<1>9. Given(GrepPart(q), "qt", None) =
          IF q.page = "log" /\ q.grep # None /\ q.search # None THEN q.grep ELSE None
  BY GivenSingle, GivenNone DEF GrepPart
<1>10. Given(SearchPart(q), "q", None) =
          IF q.page = "log" /\ q.grep # None /\ q.search # None THEN q.search ELSE None
  BY GivenSingle, GivenNone DEF SearchPart
<1>11. Given(ShowmsgPart(q), "showmsg", 0) =
          IF q.page = "log" /\ q.showmsg # 0 THEN 1 ELSE 0
  BY GivenSingle, GivenNone DEF ShowmsgPart
<1>12. Given(AllParts(site, q), "h", DefaultHead(site))
           = Given(HeadPart(site, q), "h", DefaultHead(site))
  BY GivenAll
<1>13. Given(AllParts(site, q), "id", None) = Given(IdPart(q), "id", None)
  BY GivenAll
<1>14. Given(AllParts(site, q), "id2", None) = Given(Id2Part(q), "id2", None)
  BY GivenAll
<1>15. Given(AllParts(site, q), "dt", None) = Given(TypePart(q), "dt", None)
  BY GivenAll
<1>16. Given(AllParts(site, q), "context", 0) = Given(ContextPart(q), "context", 0)
  BY GivenAll
<1>17. Given(AllParts(site, q), "ignorews", 0) = Given(IgnorePart(q), "ignorews", 0)
  BY GivenAll
<1>18. Given(AllParts(site, q), "follow", 0) = Given(FollowPart(q), "follow", 0)
  BY GivenAll
<1>19. Given(AllParts(site, q), "ofs", 0) = Given(OfsPart(q), "ofs", 0)
  BY GivenAll
<1>20. Given(AllParts(site, q), "qt", None) = Given(GrepPart(q), "qt", None)
  BY GivenAll
<1>21. Given(AllParts(site, q), "q", None) = Given(SearchPart(q), "q", None)
  BY GivenAll
<1>22. Given(AllParts(site, q), "showmsg", 0) = Given(ShowmsgPart(q), "showmsg", 0)
  BY GivenAll
<1> QED BY <1>1, <1>2, <1>3, <1>4, <1>5, <1>6, <1>7, <1>8, <1>9, <1>10, <1>11,
          <1>12, <1>13, <1>14, <1>15, <1>16, <1>17, <1>18, <1>19, <1>20, <1>21, <1>22, Zenon

\* What Shows makes of a query
RevOf(q) == IF q.page = "stats" \/ q.oid = None THEN q.head ELSE q.oid
OldOf(q) == IF q.page = "diff" THEN q.oid2 ELSE None
SideOf(site, q) ==
    IF q.page \notin Diffs THEN FALSE
    ELSE IF q.difftype = None THEN site.ssdiff ELSE q.difftype = 1
ContextOf(q) == IF q.page \notin Diffs THEN 0 ELSE IF q.context > 0 THEN q.context ELSE 3
IgnoreOf(q) == q.page \in Diffs /\ q.ignorews # 0
FollowOf(q) == (q.page \in Diffs \/ q.page = "log") /\ q.follow # 0
SearchedOf(q) == q.search # None /\ q.grep # None
GrepOf(q) == IF q.search # None THEN q.grep ELSE None
PatternOf(q) == IF q.grep # None THEN q.search ELSE None
LogOf(q) ==
    IF q.page = "log"
    THEN <<q.ofs, q.showmsg, SearchedOf(q), GrepOf(q), PatternOf(q)>> ELSE <<>>

\* Shows, field by field.
LEMMA ShowsMeans ==
    ASSUME NEW site, NEW q
    PROVE  Shows(site, q) =
               [repo |-> q.repo, page |-> q.page, path |-> q.path, head |-> q.head,
                rev |-> RevOf(q), old |-> OldOf(q), ssdiff |-> SideOf(site, q),
                context |-> ContextOf(q), ignorews |-> IgnoreOf(q), follow |-> FollowOf(q),
                log |-> LogOf(q)]
BY Zenon DEF Shows, RevOf, OldOf, SideOf, ContextOf, IgnoreOf, FollowOf, LogOf, SearchedOf,
             GrepOf, PatternOf, Diffs

\* Two queries that agree on what is shown show the same.
LEMMA SameShown ==
    ASSUME NEW site, NEW a, NEW b,
           a.repo = b.repo, a.page = b.page, a.path = b.path, a.head = b.head,
           RevOf(a) = RevOf(b), OldOf(a) = OldOf(b), SideOf(site, a) = SideOf(site, b),
           ContextOf(a) = ContextOf(b), IgnoreOf(a) = IgnoreOf(b), FollowOf(a) = FollowOf(b),
           LogOf(a) = LogOf(b)
    PROVE  Shows(site, a) = Shows(site, b)
BY ShowsMeans, Zenon

\* What the lemmas need of a query
Sound(q) ==
    /\ q.page # None /\ q.head # None
    /\ q.difftype = None \/ q.difftype = 0 \/ q.difftype = 1
    /\ q.context \in Int /\ q.ofs \in Nat
    /\ q.showmsg = 0 \/ q.showmsg = 1

\* RequestOfLink, for a segment that is the name of a page,
LEMMA FieldsOfLink ==
    ASSUME NEW S, NEW site, Own(site) \in Seq(S), Own(site) # <<>>,
           NEW page, page # None, Seg(page) \in S, NEW path \in Seq(S),
           site.repo # None, GetRepoinfo(site, Own(site)) = site.repo,
           NEW link, link.url = Own(site) \o (<<Seg(page)>> \o path), ~Shadowed(site, link.url)
    PROVE  Reads(RequestOf(site, link), site, page, path, link.params)
<1> DEFINE seg == Seg(page)
<1>1. seg.n = page
  BY DEF Seg
<1>2. link.url = Own(site) \o (<<seg>> \o path) /\ seg \in S
  OBVIOUS
<1> HIDE DEF seg
<1> QED BY <1>1, <1>2, RequestOfLink

\* and for the link of a page to itself.
LEMMA SelfFields ==
    ASSUME NEW S, NEW site, Own(site) \in Seq(S), Own(site) # <<>>,
           NEW q, q.page \in Kept, q.page # None, Seg(q.page) \in S, NEW path \in Seq(S),
           site.repo # None, GetRepoinfo(site, Own(site)) = site.repo,
           ~Shadowed(site, SelfLink(site, q, path).url)
    PROVE  Reads(RequestOf(site, SelfLink(site, q, path)), site, q.page, path, AllParts(site, q))
<1>1. /\ SelfLink(site, q, path).url = Own(site) \o (<<Seg(q.page)>> \o path)
      /\ SelfLink(site, q, path).params = AllParts(site, q)
  BY SelfParams DEF Own
<1> QED BY <1>1, FieldsOfLink

\* The link of a page shows what the page shows: a revision is left out if it is the
\* branch, the branch if it is the default, a context of three lines, a search without a
\* pattern, and each of them is what the page would make of its absence.
LEMMA LinkShows ==
    ASSUME NEW S, NEW site, Own(site) \in Seq(S), Own(site) # <<>>, site.ssdiff \in BOOLEAN,
           NEW q, q.page \in Kept, Sound(q), Seg(q.page) \in S, NEW path \in Seq(S),
           q.repo = site.repo, site.repo # None, GetRepoinfo(site, Own(site)) = site.repo,
           site.repos[site.repo].defbranch \in Range(site.branches), 1 # None,
           ~Shadowed(site, SelfLink(site, q, path).url),
           ~(q.page \in Diffs /\ q.difftype = 0 /\ site.ssdiff),
           NEW b, b.path = path,
           /\ b.repo = q.repo /\ b.page = q.page /\ b.head = q.head /\ b.oid = q.oid
           /\ b.oid2 = q.oid2 /\ b.difftype = q.difftype /\ b.context = q.context
           /\ b.ignorews = q.ignorews /\ b.follow = q.follow /\ b.ofs = q.ofs
           /\ b.grep = q.grep /\ b.search = q.search /\ b.showmsg = q.showmsg
    PROVE  Shows(site, RequestOf(site, SelfLink(site, q, path))) = Shows(site, b)
<1> DEFINE P == AllParts(site, q)
           r == RequestOf(site, SelfLink(site, q, path))
<1>3. /\ r.repo = site.repo /\ r.page = q.page /\ r.path = path
      /\ r.head = Given(P, "h", DefaultHead(site))
      /\ r.oid = Given(P, "id", None) /\ r.oid2 = Given(P, "id2", None)
      /\ r.difftype = Given(P, "dt", None) /\ r.context = Given(P, "context", 0)
      /\ r.ignorews = Given(P, "ignorews", 0) /\ r.follow = Given(P, "follow", 0)
      /\ r.ofs = Given(P, "ofs", 0) /\ r.grep = Given(P, "qt", None)
      /\ r.search = Given(P, "q", None) /\ r.showmsg = Given(P, "showmsg", 0)
  <2>1. q.page # None
    BY DEF Sound
  <2>2. Reads(r, site, q.page, path, P)
    BY <2>1, SelfFields
  <2> HIDE DEF P, r
  <2> QED BY <2>2 DEF Reads
<1> HIDE DEF P, r
<1>4. r.head = q.head
  <2>1. r.head = IF q.head # None /\ q.head # site.repos[site.repo].defbranch
                  THEN q.head ELSE DefaultHead(site)
    BY <1>3, GivenValues DEF P
  <2>2. DefaultHead(site) = site.repos[site.repo].defbranch
    BY DEF DefaultHead
  <2> QED BY <2>1, <2>2 DEF Sound
<1>5. RevOf(r) = RevOf(b)
  <2>1. r.oid = IF q.page # "stats" /\ q.oid # None /\ q.head # None /\ q.oid # q.head
                  THEN q.oid ELSE None
    BY <1>3, GivenValues DEF P
  <2> QED BY <1>3, <1>4, <2>1 DEF RevOf, Sound
<1>6. OldOf(r) = OldOf(b)
  <2>1. r.oid2 = IF q.page = "diff" /\ q.oid2 # None THEN q.oid2 ELSE None
    BY <1>3, GivenValues DEF P
  <2> QED BY <1>3, <2>1 DEF OldOf
<1>7. SideOf(site, r) = SideOf(site, b)
  <2>1. r.difftype = IF q.page \in Diffs /\ q.difftype \notin {None, 0}
                     THEN q.difftype ELSE None
    BY <1>3, GivenValues DEF P
  <2>2. CASE q.page \notin Diffs
    BY <1>3, <2>2, Zenon DEF SideOf
  <2>3. CASE q.page \in Diffs /\ q.difftype = None
    BY <1>3, <2>1, <2>3, Zenon DEF SideOf
  <2>4. CASE q.page \in Diffs /\ q.difftype = 0 /\ q.difftype # None
    <3>1. SideOf(site, r) = site.ssdiff
      BY <1>3, <2>1, <2>4, Zenon DEF SideOf
    <3>2. SideOf(site, b) = (0 = 1)
      BY <2>4, Zenon DEF SideOf
    <3>3. site.ssdiff = FALSE
      BY <2>4, Zenon
    <3>4. (0 = 1) = FALSE
      OBVIOUS
    <3> QED BY <3>1, <3>2, <3>3, <3>4, Zenon
  <2>5. CASE q.page \in Diffs /\ q.difftype = 1
    <3>1. 1 # 0
      OBVIOUS
    <3>2. r.difftype = q.difftype
      BY <2>1, <2>5, <3>1, Zenon
    <3> QED BY <1>3, <3>2, Zenon DEF SideOf
  <2> QED BY <2>2, <2>3, <2>4, <2>5, Zenon DEF Sound
<1>8. ContextOf(r) = ContextOf(b)
  <2>1. r.context = IF q.page \in Diffs /\ q.context > 0 /\ q.context # 3
                    THEN q.context ELSE 0
    BY <1>3, GivenValues DEF P
  <2> QED BY <1>3, <2>1 DEF ContextOf, Sound
<1>9. IgnoreOf(r) = IgnoreOf(b)
  <2>1. r.ignorews = IF q.page \in Diffs /\ q.ignorews # 0 THEN 1 ELSE 0
    BY <1>3, GivenValues DEF P
  <2> QED BY <1>3, <2>1 DEF IgnoreOf
<1>10. FollowOf(r) = FollowOf(b)
  <2>1. r.follow = IF (q.page \in Diffs \/ q.page = "log") /\ q.follow # 0 THEN 1 ELSE 0
    BY <1>3, GivenValues DEF P
  <2> QED BY <1>3, <2>1 DEF FollowOf
<1>11. LogOf(r) = LogOf(b)
  <2>1. CASE q.page # "log"
    BY <1>3, <2>1, Zenon DEF LogOf
  <2>2. CASE q.page = "log"
    <3>1. r.ofs = q.ofs
      <4>1. r.ofs = IF q.page = "log" /\ q.ofs > 0 THEN q.ofs ELSE 0
        BY <1>3, GivenValues DEF P
      <4> QED BY <2>2, <4>1 DEF Sound
    <3>2. r.showmsg = q.showmsg
      <4>1. r.showmsg = IF q.page = "log" /\ q.showmsg # 0 THEN 1 ELSE 0
        BY <1>3, GivenValues DEF P
      <4> QED BY <2>2, <4>1 DEF Sound
    <3>3. r.grep = IF q.grep # None /\ q.search # None THEN q.grep ELSE None
      <4>1. r.grep = IF q.page = "log" /\ q.grep # None /\ q.search # None
                     THEN q.grep ELSE None
        BY <1>3, GivenValues DEF P
      <4> QED BY <2>2, <4>1, Zenon
    <3>4. r.search = IF q.grep # None /\ q.search # None THEN q.search ELSE None
      <4>1. r.search = IF q.page = "log" /\ q.grep # None /\ q.search # None
                       THEN q.search ELSE None
        BY <1>3, GivenValues DEF P
      <4> QED BY <2>2, <4>1, Zenon
    <3>5. SearchedOf(r) = SearchedOf(b)
      BY <3>3, <3>4 DEF SearchedOf
    <3>6. GrepOf(r) = GrepOf(b)
      BY <3>3, <3>4 DEF GrepOf
    <3>7. PatternOf(r) = PatternOf(b)
      BY <3>3, <3>4 DEF PatternOf
    <3> QED BY <1>3, <3>1, <3>2, <3>5, <3>6, <3>7, Zenon DEF LogOf
  <2> QED BY <2>1, <2>2
<1>12. r.repo = b.repo /\ r.page = b.page /\ r.path = b.path /\ r.head = b.head
  BY <1>3, <1>4
<1>13. Shows(site, r) = Shows(site, b)
  BY <1>5, <1>6, <1>7, <1>8, <1>9, <1>10, <1>11, <1>12, SameShown
<1> QED BY <1>13 DEF r

SwitchForm(site, q, b) == FormRequest(site, q, q.page, FALSE, TRUE, {<<"h", b>>})

\* The form for another branch leads to the page, the path and the revisions of this one.
LEMMA SwitchFields ==
    ASSUME NEW S, NEW site, Own(site) \in Seq(S), Own(site) # <<>>,
           NEW q, q.page # None, Seg(q.page) \in S, q.path \in Seq(S),
           site.repo # None, GetRepoinfo(site, Own(site)) = site.repo,
           ~Shadowed(site, Own(site) \o <<Seg(q.page)>> \o q.path), NEW b
    PROVE  LET form == SwitchForm(site, q, b)
           IN  /\ form.repo = site.repo /\ form.page = q.page /\ form.path = q.path
               /\ form.head = b /\ form.oid = q.oid /\ form.oid2 = q.oid2
               /\ form.showmsg = IF q.showmsg # 0 THEN 1 ELSE 0
               /\ form.grep = q.grep /\ form.search = q.search
<1> DEFINE H == Single("h", b)
           I == IF q.oid # None THEN Single("id", q.oid) ELSE {}
           I2 == IF q.oid2 # None THEN Single("id2", q.oid2) ELSE {}
           M == IF q.showmsg # 0 THEN Single("showmsg", 1) ELSE {}
           G == IF q.grep # None THEN Single("qt", q.grep) ELSE {}
           K == IF q.search # None THEN Single("q", q.search) ELSE {}
           P == H \cup I \cup I2 \cup M \cup G \cup K
           link == [url |-> Own(site) \o <<Seg(q.page)>> \o q.path, params |-> P]
           form == SwitchForm(site, q, b)
<1>1. form = RequestOf(site, link)
  <2>1. form = RequestOf(site,
          [url |-> Own(site) \o <<Seg(q.page)>> \o q.path,
           params |-> {<<"h", b>>} \cup {}
             \cup ParamIf(q.oid # None, "id", q.oid) \cup ParamIf(q.oid2 # None, "id2", q.oid2)
             \cup ParamIf(q.showmsg # 0, "showmsg", 1)
             \cup ParamIf(q.grep # None, "qt", q.grep)
             \cup ParamIf(q.search # None, "q", q.search)])
    BY DEF SwitchForm, FormRequest, Own, ParamIf
  <2>2. {<<"h", b>>} \cup {} = H
    BY DEF Single
  <2>3. ParamIf(q.oid # None, "id", q.oid) = I
    BY DEF ParamIf, Single
  <2>4. ParamIf(q.oid2 # None, "id2", q.oid2) = I2
    BY DEF ParamIf, Single
  <2>5. ParamIf(q.showmsg # 0, "showmsg", 1) = M
    BY DEF ParamIf, Single
  <2>6. ParamIf(q.grep # None, "qt", q.grep) = G
    BY DEF ParamIf, Single
  <2>7. ParamIf(q.search # None, "q", q.search) = K
    BY DEF ParamIf, Single
  <2> QED BY <2>1, <2>2, <2>3, <2>4, <2>5, <2>6, <2>7, Zenon
<1>2. link.params = P /\ link.url = (Own(site) \o <<Seg(q.page)>>) \o q.path
  OBVIOUS
<1>3. link.url = Own(site) \o (<<Seg(q.page)>> \o q.path)
  <2> DEFINE seg == <<Seg(q.page)>>
  <2>1. seg \in Seq(S)
    OBVIOUS
  <2>2. link.url = (Own(site) \o seg) \o q.path
    BY <1>2
  <2> HIDE DEF link, P, seg
  <2>3. (Own(site) \o seg) \o q.path = Own(site) \o (seg \o q.path)
    <3> DEFINE o == Own(site)
               p == q.path
    <3>1. o \in Seq(S) /\ p \in Seq(S)
      OBVIOUS
    <3> HIDE DEF o, p
    <3>2. (o \o seg) \o p = o \o (seg \o p)
      BY <2>1, <3>1
    <3> QED BY <3>2 DEF o, p
  <2>4. link.url = Own(site) \o (seg \o q.path)
    BY <2>2, <2>3
  <2> QED BY <2>4 DEF seg
<1>4. Owns(H, "h") /\ Owns(I, "id") /\ Owns(I2, "id2") /\ Owns(M, "showmsg") /\ Owns(G, "qt")
      /\ Owns(K, "q")
  <2>1. Owns(H, "h")
    BY SingleOwns
  <2>2. Owns(I, "id")
    BY SingleOwns
  <2>3. Owns(I2, "id2")
    BY SingleOwns
  <2>4. Owns(M, "showmsg")
    BY SingleOwns
  <2>5. Owns(G, "qt")
    BY SingleOwns
  <2>6. Owns(K, "q")
    BY SingleOwns
  <2> QED BY <2>1, <2>2, <2>3, <2>4, <2>5, <2>6
<1>5. Given(H, "h", DefaultHead(site)) = b
  BY GivenSingle
<1>6. Given(I, "id", None) = q.oid
  BY GivenSingle, GivenNone
<1>7. Given(I2, "id2", None) = q.oid2
  BY GivenSingle, GivenNone
<1>8. Given(M, "showmsg", 0) = IF q.showmsg # 0 THEN 1 ELSE 0
  BY GivenSingle, GivenNone
<1>9. Given(G, "qt", None) = q.grep
  BY GivenSingle, GivenNone
<1>10. Given(K, "q", None) = q.search
  BY GivenSingle, GivenNone
<1>11. ~Shadowed(site, link.url)
  BY <1>2
<1> HIDE DEF H, I, I2, M, G, K, link, form
<1>12. /\ Owns({}, "dt") /\ Owns({}, "context") /\ Owns({}, "ignorews") /\ Owns({}, "follow")
       /\ Owns({}, "ofs")
  BY DEF Owns
<1>13. P = H \cup I \cup I2 \cup {} \cup {} \cup {} \cup {} \cup {} \cup G \cup K \cup M
  OBVIOUS
<1> HIDE DEF P
<1>14. \A d : /\ Given(P, "h", d) = Given(H, "h", d) /\ Given(P, "id", d) = Given(I, "id", d)
              /\ Given(P, "id2", d) = Given(I2, "id2", d)
              /\ Given(P, "qt", d) = Given(G, "qt", d)
              /\ Given(P, "q", d) = Given(K, "q", d)
              /\ Given(P, "showmsg", d) = Given(M, "showmsg", d)
  BY <1>4, <1>12, <1>13, GivenApart
<1>15. Reads(form, site, q.page, q.path, P)
  BY <1>1, <1>2, <1>3, <1>11, FieldsOfLink
<1>16. /\ form.repo = site.repo /\ form.page = q.page /\ form.path = q.path
       /\ form.head = Given(P, "h", DefaultHead(site))
       /\ form.oid = Given(P, "id", None) /\ form.oid2 = Given(P, "id2", None)
       /\ form.grep = Given(P, "qt", None)
       /\ form.search = Given(P, "q", None) /\ form.showmsg = Given(P, "showmsg", 0)
  BY <1>15 DEF Reads
<1> QED
  <2>1. /\ form.head = b /\ form.oid = q.oid /\ form.oid2 = q.oid2
        /\ form.showmsg = IF q.showmsg # 0 THEN 1 ELSE 0
        /\ form.grep = q.grep /\ form.search = q.search
    BY <1>5, <1>6, <1>7, <1>8, <1>9, <1>10, <1>14, <1>16, Zenon
  <2> QED BY <1>16, <2>1, Zenon DEF form

\* A query with another path is the same otherwise.
LEMMA QueryEdit ==
    ASSUME NEW A1, NEW A2, NEW A3, NEW A4, NEW A5, NEW A6, NEW A7,
           NEW A8, NEW A9, NEW A10, NEW A11, NEW A12, NEW A13, NEW A14,
           NEW q \in [repo : A1, page : A2, path : A3, head : A4, oid : A5, oid2 : A6,
                      difftype : A7,
                      context : A8, ignorews : A9, follow : A10, ofs : A11, grep : A12,
                      search : A13, showmsg : A14],
           NEW path
    PROVE  LET b == [q EXCEPT !.path = path]
           IN  /\ b.path = path
               /\ b.repo = q.repo /\ b.page = q.page /\ b.head = q.head /\ b.oid = q.oid
               /\ b.oid2 = q.oid2 /\ b.difftype = q.difftype /\ b.context = q.context
               /\ b.ignorews = q.ignorews /\ b.follow = q.follow /\ b.ofs = q.ofs
               /\ b.grep = q.grep /\ b.search = q.search /\ b.showmsg = q.showmsg
OBVIOUS

\* The fields of a query are of its type.
LEMMA QueryFields ==
    ASSUME NEW A1, NEW A2, NEW A3, NEW A4, NEW A5, NEW A6, NEW A7,
           NEW A8, NEW A9, NEW A10, NEW A11, NEW A12, NEW A13, NEW A14,
           NEW q \in [repo : A1, page : A2, path : A3, head : A4, oid : A5, oid2 : A6,
                      difftype : A7,
                      context : A8, ignorews : A9, follow : A10, ofs : A11, grep : A12,
                      search : A13, showmsg : A14]
    PROVE  /\ q.repo \in A1
           /\ q.page \in A2
           /\ q.path \in A3
           /\ q.head \in A4
           /\ q.oid \in A5
           /\ q.oid2 \in A6
           /\ q.difftype \in A7
           /\ q.context \in A8
           /\ q.ignorews \in A9
           /\ q.follow \in A10
           /\ q.ofs \in A11
           /\ q.grep \in A12
           /\ q.search \in A13
           /\ q.showmsg \in A14
OBVIOUS

\* The query of a page of the site: of a repository that its own url leads to.  S is the
\* set of segments, Values that of revisions, branches and patterns.
PageOf(S, Values, site, q) ==
    /\ q \in Query(Seq(S), Values)
    /\ Seg(q.page) \in S /\ Own(site) \in Seq(S) /\ Own(site) # <<>>
    /\ site.ssdiff \in BOOLEAN
    /\ q.repo = site.repo /\ GetRepoinfo(site, Own(site)) = site.repo

NoneApart(Values) == None \notin Int /\ None \notin Kept /\ None \notin Values

\* What the lemmas need of a query follows from its type.
LEMMA PageSound ==
    ASSUME NEW S, NEW Values, NoneApart(Values), NEW site, NEW q, PageOf(S, Values, site, q)
    PROVE  /\ Sound(q) /\ q.page \in Kept /\ q.path \in Seq(S) /\ q.repo = site.repo
           /\ site.repo # None /\ 1 # None
<1>1. /\ q.repo \in Int /\ q.page \in Kept /\ q.path \in Seq(S) /\ q.head \in Values
      /\ q.difftype \in {None, 0, 1} /\ q.context \in Int /\ q.ofs \in Nat
      /\ q.showmsg \in {0, 1}
  BY QueryFields DEF PageOf, Query
<1>2. q.page # None /\ q.head # None
  BY <1>1, Zenon DEF NoneApart
<1>3. q.difftype = None \/ q.difftype = 0 \/ q.difftype = 1
  BY <1>1, Zenon
<1>4. q.showmsg = 0 \/ q.showmsg = 1
  BY <1>1, Zenon
<1>5. q.repo = site.repo
  BY DEF PageOf
<1>6. site.repo # None
  BY <1>1, <1>5, Zenon DEF NoneApart
<1>7. 1 # None
  <2>1. 1 \in Int
    OBVIOUS
  <2> QED BY <2>1, Zenon DEF NoneApart
<1>8. Sound(q)
  BY <1>1, <1>2, <1>3, <1>4, Zenon DEF Sound
<1> QED BY <1>1, <1>5, <1>6, <1>7, <1>8, Zenon

\* The links of a page and the forms for its branches lead to what is shown.
LEMMA PageShown ==
    ASSUME NEW S, NEW Values, NoneApart(Values), NEW site, NEW q, PageOf(S, Values, site, q),
           NEW branches
    PROVE  /\ SelfLinkShowsPage(site, q)
           /\ \A b \in branches : SwitchKeepsPage(site, q, b)
<1>1. /\ Sound(q) /\ q.page \in Kept /\ q.path \in Seq(S) /\ q.repo = site.repo
      /\ site.repo # None /\ 1 # None
  BY PageSound
<1>2. /\ Seg(q.page) \in S /\ Own(site) \in Seq(S) /\ Own(site) # <<>>
      /\ site.ssdiff \in BOOLEAN /\ GetRepoinfo(site, Own(site)) = site.repo
  BY Zenon DEF PageOf
<1>3. q.page # None /\ q.head # None
  BY <1>1, Zenon DEF Sound
<1>4. SelfLinkShowsPage(site, q)
  <2> SUFFICES ASSUME NEW k \in 0 .. Len(q.path),
                      site.repos[site.repo].defbranch \in Range(site.branches),
                      ~Shadowed(site, SelfLink(site, q, SubSeq(q.path, 1, k)).url),
                      ~(q.page \in {"commit", "diff"} /\ q.difftype = 0 /\ site.ssdiff)
               PROVE  Shows(site, RequestOf(site, SelfLink(site, q, SubSeq(q.path, 1, k))))
                          = Shows(site, [q EXCEPT !.path = SubSeq(q.path, 1, k)])
    BY Zenon DEF SelfLinkShowsPage
  <2> DEFINE path == SubSeq(q.path, 1, k)
             b == [q EXCEPT !.path = path]
  <2>1. path \in Seq(S)
    <3>1. Len(q.path) \in Nat
      BY <1>1, LenProperties
    <3>2. \A i \in 1 .. k : q.path[i] \in S
      BY <1>1, <3>1
    <3>3. 1 \in Int /\ k \in Int
      BY <3>1
    <3> HIDE DEF path
    <3> QED BY <3>2, <3>3, SubSeqProperties DEF path
  <2>2. /\ b.path = path
        /\ b.repo = q.repo /\ b.page = q.page /\ b.head = q.head /\ b.oid = q.oid
        /\ b.oid2 = q.oid2 /\ b.difftype = q.difftype /\ b.context = q.context
        /\ b.ignorews = q.ignorews /\ b.follow = q.follow /\ b.ofs = q.ofs
        /\ b.grep = q.grep /\ b.search = q.search /\ b.showmsg = q.showmsg
    <3> HIDE DEF path
    <3> QED BY QueryEdit DEF PageOf, Query
  <2>3. ~(q.page \in Diffs /\ q.difftype = 0 /\ site.ssdiff)
    BY Zenon DEF Diffs
  <2> HIDE DEF path, b
  <2>4. ~Shadowed(site, SelfLink(site, q, path).url)
    BY Zenon DEF path
  <2>5. Shows(site, RequestOf(site, SelfLink(site, q, path))) = Shows(site, b)
    BY <1>1, <1>2, <2>1, <2>2, <2>3, <2>4, LinkShows
  <2> QED BY <2>5 DEF path, b
<1>5. ASSUME NEW b \in branches
      PROVE  SwitchKeepsPage(site, q, b)
  <2> SUFFICES ASSUME ~Shadowed(site, Own(site) \o <<Seg(q.page)>> \o q.path)
               PROVE  LET form == SwitchForm(site, q, b)
                      IN  /\ <<form.repo, form.page, form.path, form.head>>
                                 = <<q.repo, q.page, q.path, b>>
                          /\ <<form.oid, form.oid2, form.showmsg, form.grep, form.search>>
                                 = <<q.oid, q.oid2, q.showmsg, q.grep, q.search>>
    BY Zenon DEF SwitchKeepsPage, SwitchForm, Own
  <2> DEFINE form == SwitchForm(site, q, b)
  <2>1. /\ form.repo = site.repo /\ form.page = q.page /\ form.path = q.path
        /\ form.head = b /\ form.oid = q.oid /\ form.oid2 = q.oid2
        /\ form.showmsg = IF q.showmsg # 0 THEN 1 ELSE 0
        /\ form.grep = q.grep /\ form.search = q.search
    BY <1>1, <1>2, <1>3, SwitchFields
  <2> HIDE DEF form
  <2>2. form.showmsg = q.showmsg
    BY <1>1, <2>1 DEF Sound
  <2>3. form.repo = q.repo
    BY <1>1, <2>1
  <2> QED BY <2>1, <2>2, <2>3, Zenon DEF form
<1> QED BY <1>4, <1>5

\* LinkShowsPage: for every list of repositories and every query for one of these pages, the
\* links of the path above the page and the form for another branch lead to what is shown.
THEOREM LinksKeepPage ==
    ASSUME NEW S, NEW Values, NoneApart(Values),
           visit # None => PageOf(S, Values, visit[1], visit[2])
    PROVE  LinkShowsPage
<1> SUFFICES ASSUME visit # None
             PROVE  /\ SelfLinkShowsPage(visit[1], visit[2])
                    /\ \A b \in Range(visit[1].branches) :
                          SwitchKeepsPage(visit[1], visit[2], b)
  BY Zenon DEF LinkShowsPage
<1> QED BY PageShown, Zenon

\* SnapshotRoundTrip: for every set of tokens and digits, every repository and every ref or
\* id, a link to a snapshot is answered with the commit of that ref, unless another ref or
\* an object id has taken the name.
THEOREM RoundTrip ==
    ASSUME NEW T,
           download # None =>
               /\ TokenRepo(T, download[1])
               /\ download[3] \in Seq(T) /\ download[3] # <<>> /\ download[3] # None
    PROVE  SnapshotRoundTrip
<1> SUFFICES ASSUME download # None
             PROVE  FileFindsCommit(download[1], download[2], download[3])
  BY Zenon DEF SnapshotRoundTrip
<1> QED BY FileFound, Zenon
=============================================================================
