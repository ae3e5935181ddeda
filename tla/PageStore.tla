----------------------------- MODULE PageStore -----------------------------
(***************************************************************************)
(* What the page cache promises, without files, locks or descriptors       *)
(* (the comment at the head of cache.c): a slot holds one page or none, a  *)
(* request is answered with a page that was generated for its own key, and *)
(* a page goes into its slot in one step, over a page that nobody has      *)
(* replaced meanwhile.  PageCacheRefinement shows that PageCache keeps it. *)
(***************************************************************************)
EXTENDS Integers

CONSTANTS
    Proc,       \* CGI processes, each of which serves one request
    Past,       \* an earlier process
    Key,
    Slot,
    SlotOf,     \* the slot of a key
    Length,     \* lengths of a page: pages of one process differ in it
    None

VARIABLES
    key,        \* the key a process asks for
    store,      \* slot -> the page in it, or None
    seen,       \* the page a process has found, or stored itself, or None
    answer,     \* the page its client has got, or None
    sound       \* whether the locks have worked so far

vars == <<key, store, seen, answer, sound>>

Page == [by : Proc \cup {Past}, key : Key, of : Length]
OwnPages(p) == {g \in Page : g.by = p /\ g.key = key[p]}

Init ==
    /\ key \in [Proc -> Key]
    /\ store \in [Slot -> Page \cup {None}]
    /\ \A s \in Slot :
          store[s] # None => store[s].by = Past /\ SlotOf[store[s].key] = s
    /\ seen = [p \in Proc |-> None]
    /\ answer = [p \in Proc |-> None]
    /\ sound = TRUE

\* The slot holds a page for the key of p
Find(p) ==
    /\ answer[p] = None /\ seen[p] = None
    /\ store[SlotOf[key[p]]] # None
    /\ store[SlotOf[key[p]]].key = key[p]
    /\ seen' = [seen EXCEPT ![p] = store[SlotOf[key[p]]]]
    /\ UNCHANGED <<key, store, answer, sound>>

\* p puts a page of its own into the slot: over the page it has found, or, when
\* it has found none for its key, over whatever is there
Store(p) ==
    /\ answer[p] = None
    /\ seen[p] \in {None, store[SlotOf[key[p]]]}
    /\ \E g \in OwnPages(p) :
          /\ store' = [store EXCEPT ![SlotOf[key[p]]] = g]
          /\ seen' = [seen EXCEPT ![p] = g]
    /\ UNCHANGED <<key, answer, sound>>

\* The client gets the page that p has found or stored ...
Answer(p) ==
    /\ seen[p] # None
    /\ answer' = [answer EXCEPT ![p] = seen[p]]
    /\ seen' = [seen EXCEPT ![p] = None]
    /\ UNCHANGED <<key, store, sound>>

\* ... or one that is stored nowhere
AnswerUnstored(p) ==
    /\ answer[p] = None /\ seen[p] = None
    /\ \E g \in OwnPages(p) : answer' = [answer EXCEPT ![p] = g]
    /\ UNCHANGED <<key, store, seen, sound>>

\* p dies or fails and answers nothing, or looks no further at what it has found
Forget(p) ==
    /\ seen' = [seen EXCEPT ![p] = None]
    /\ UNCHANGED <<key, store, answer, sound>>

\* When a lock does not hold nothing is promised any more
Unsound == ~sound'

Next ==
    \/ Unsound
    \/ \E p \in Proc :
          Find(p) \/ Store(p) \/ Answer(p) \/ AnswerUnstored(p) \/ Forget(p)

Spec == Init /\ [][Next]_vars
=============================================================================
