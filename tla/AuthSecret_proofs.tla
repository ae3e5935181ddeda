-------------------------- MODULE AuthSecret_proofs --------------------------
(***************************************************************************)
(* Processes that load or make the secret at the same time all get one.    *)
(***************************************************************************)
EXTENDS AuthSecret, TLAPS

(***************************************************************************)
(* OneSecret is not inductive: a process reads the file, and signs with    *)
(* what it holds, only at places where there is something to read and to   *)
(* hold.  Before the file is there nobody holds a secret, so that the step *)
(* that makes it the file cannot part anyone from it.                      *)
(***************************************************************************)
Typed ==
    /\ auth_pc \in [Procs -> {"idle", "secret", "write", "link", "unlink", "reopen", "read",
                            "use"}]
    /\ secret \in [Procs -> Int \cup {None}]
    /\ tmp \in [Procs -> Int \cup {None}]
    /\ DOMAIN req = Procs
    /\ drawn \in Int /\ file \in Int \cup {None}

Held == \A p \in Procs : /\ auth_pc[p] = "read" => file # None
                         /\ auth_pc[p] = "use" => secret[p] # None
                         /\ auth_pc[p] = "link" => tmp[p] # None

Given == \A t \in tokens : t.key # None

Inv == Typed /\ Held /\ Given /\ OneSecret

\* Nothing is there at first, and nobody holds anything (get_secret of no process yet)
LEMMA InvInit == AuthInit => Inv
BY SecretNoneAssumption, SMT DEF AuthInit, Inv, Typed, Held, Given, OneSecret

\* Each step of get_secret and of those that call it keeps the invariant
LEMMA InvNext == Inv /\ [AuthNext]_authvars => Inv'
<1> SUFFICES ASSUME Inv, [AuthNext]_authvars PROVE Inv'
    OBVIOUS
<1> USE SecretNoneAssumption DEF Inv, Typed, Held, Given, OneSecret, At, Goto
<1>1. CASE UNCHANGED authvars
    BY <1>1 DEF authvars
<1>2. ASSUME NEW p \in Procs, Begin(p) PROVE Inv'
    BY <1>2 DEF Begin
<1>3. ASSUME NEW p \in Procs, InMemory(p) PROVE Inv'
    BY <1>3 DEF InMemory
<1>4. ASSUME NEW p \in Procs, Open(p) PROVE Inv'
    BY <1>4 DEF Open
<1>5. ASSUME NEW p \in Procs, WriteSecret(p) PROVE Inv'
    BY <1>5 DEF WriteSecret
<1>6. ASSUME NEW p \in Procs, Link(p) PROVE Inv'
    BY <1>6 DEF Link
<1>7. ASSUME NEW p \in Procs, Unlink(p) PROVE Inv'
    BY <1>7 DEF Unlink
<1>8. ASSUME NEW p \in Procs, Reopen(p) PROVE Inv'
    BY <1>8 DEF Reopen
<1>9. ASSUME NEW p \in Procs, Read(p) PROVE Inv'
    BY <1>9 DEF Read
<1>10. ASSUME NEW p \in Procs, Exit(p) PROVE Inv'
    BY <1>10 DEF Exit, Ends
<1>11. ASSUME NEW p \in Procs, Accepts(p) PROVE Inv'
    BY <1>11 DEF Accepts, Ends
<1>12. ASSUME NEW p \in Procs, Refuses(p) PROVE Inv'
    BY <1>12 DEF Refuses, Ends
<1>13. ASSUME NEW p \in Procs, Sign(p) PROVE Inv'
    BY <1>13 DEF Sign, Ends
<1>14. ASSUME NEW p \in Procs, Crash(p) PROVE Inv'
    BY <1>14 DEF Crash, Ends
<1> QED
    BY <1>1, <1>2, <1>3, <1>4, <1>5, <1>6, <1>7, <1>8, <1>9, <1>10, <1>11, <1>12, <1>13,
       <1>14 DEF AuthNext

\* However many processes load or make the secret at once, and wherever they are
\* killed, all sign with the one in the file (get_secret)
THEOREM OneSecretAlways == AuthSpec => []OneSecret
<1>1. AuthInit => Inv
    BY InvInit
<1>2. Inv /\ [AuthNext]_authvars => Inv'
    BY InvNext
<1>3. Inv => OneSecret
    BY DEF Inv
<1> QED
    BY <1>1, <1>2, <1>3, PTL DEF AuthSpec
=============================================================================
