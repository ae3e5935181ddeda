----------------------------- MODULE AuthSecret -----------------------------
(***************************************************************************)
(* The secret of the authentication filters                                *)
(* (filters/simple-authentication.lua; the other two have the same         *)
(* get_secret).  Each request is a process of its own, loads the secret    *)
(* from a file or makes one when there is none, and checks and signs with  *)
(* it the tokens the requests pass on to each other through the browser:   *)
(* the redirect of the login form and the cookie.                          *)
(*                                                                         *)
(* A secret is a number, 0 for one that was cut short when it was written. *)
(***************************************************************************)
EXTENDS NoValue, Integers

CONSTANTS
    Procs,
    MaxSecrets      \* the number of secrets that are drawn at most

ASSUME SecretNoneAssumption == None \notin Int

VARIABLES
    file,           \* the secret file
    tmp,            \* the temporary file of a process; its name is used only once
    drawn,          \* the number of secrets drawn so far
    auth_pc,        \* of a process, "idle" for none
    req,            \* its request: the kind, and the token that came with it
    secret,         \* what get_secret keeps in memory
    tokens          \* what the browsers have been given

authvars == <<file, tmp, drawn, auth_pc, req, secret, tokens>>

AuthInit ==
    /\ file = None /\ drawn = 0 /\ tokens = {}
    /\ tmp = [p \in Procs |-> None] /\ auth_pc = [p \in Procs |-> "idle"]
    /\ req = [p \in Procs |-> None] /\ secret = [p \in Procs |-> None]

At(p, from) == auth_pc[p] = from
Goto(p, to) == auth_pc' = [auth_pc EXCEPT ![p] = to]

\* The process ends, also by os.exit
Ends(p) ==
    /\ Goto(p, "idle")
    /\ req' = [req EXCEPT ![p] = None]
    /\ secret' = [secret EXCEPT ![p] = None]
    /\ tmp' = [tmp EXCEPT ![p] = None]

Field(kind) == IF kind = "post" THEN "redirect" ELSE "username"

\* A page is asked for, with a cookie or not, or the login form is sent; a cookie may
\* be late, more than a week old.  Without a token validate_value returns before it
\* needs the secret.
Begin(p) ==
    /\ At(p, "idle")
    /\ \E kind \in {"get", "post"} :
          \E t \in {[field |-> Field(kind), key |-> None]}
                       \cup {u \in tokens : u.field = Field(kind)} :
             /\ kind = "post" => t.key # None
             /\ \E late \in {FALSE, kind = "get" /\ t.key # None} :
                   req' = [req EXCEPT ![p] = [kind |-> kind, key |-> t.key, late |-> late]]
             /\ Goto(p, "secret")
    /\ UNCHANGED <<file, tmp, drawn, secret, tokens>>

-----------------------------------------------------------------------------
(* get_secret *)

InMemory(p) ==
    /\ At(p, "secret") /\ secret[p] # None
    /\ Goto(p, "use")
    /\ UNCHANGED <<file, tmp, drawn, req, secret, tokens>>

Open(p) ==
    /\ At(p, "secret") /\ secret[p] = None
    /\ Goto(p, IF file # None THEN "read" ELSE "write")
    /\ UNCHANGED <<file, tmp, drawn, req, secret, tokens>>

\* The result of write is not looked at
WriteSecret(p) ==
    /\ At(p, "write") /\ drawn < MaxSecrets
    /\ drawn' = drawn + 1
    /\ \E content \in {0, drawn + 1} : tmp' = [tmp EXCEPT ![p] = content]
    /\ Goto(p, "link")
    /\ UNCHANGED <<file, req, secret, tokens>>

\* Mutant of Link: rename instead, which replaces the file of another process
LinkReplaces(p) ==
    /\ At(p, "link")
    /\ file' = tmp[p]
    /\ Goto(p, "unlink")
    /\ UNCHANGED <<tmp, drawn, req, secret, tokens>>

\* link fails if the file is there, or for a reason of its own
Link(p) ==
    /\ At(p, "link")
    /\ file' \in IF file = None THEN {None, tmp[p]} ELSE {file}
    /\ Goto(p, "unlink")
    /\ UNCHANGED <<tmp, drawn, req, secret, tokens>>

Unlink(p) ==
    /\ At(p, "unlink")
    /\ tmp' = [tmp EXCEPT ![p] = None]
    /\ Goto(p, "reopen")
    /\ UNCHANGED <<file, drawn, req, secret, tokens>>

Reopen(p) ==
    /\ At(p, "reopen") /\ file # None
    /\ Goto(p, "read")
    /\ UNCHANGED <<file, tmp, drawn, req, secret, tokens>>

Read(p) ==
    /\ At(p, "read") /\ file # 0
    /\ secret' = [secret EXCEPT ![p] = file]
    /\ Goto(p, "use")
    /\ UNCHANGED <<file, tmp, drawn, req, tokens>>

\* os.exit(177): no temporary file, no secret file after all, or not a whole secret
Exit(p) ==
    /\ At(p, "write") \/ (At(p, "reopen") /\ file = None) \/ (At(p, "read") /\ file = 0)
    /\ Ends(p)
    /\ UNCHANGED <<file, drawn, tokens>>

-----------------------------------------------------------------------------
(* authenticate_cookie, authenticate_post and body *)

\* validate_value finds that the token is good: the page is shown, or the form sends
\* the browser back, with a cookie if the password is right
Accepts(p) ==
    /\ At(p, "use") /\ req[p].key = secret[p] /\ ~req[p].late
    /\ \/ Ends(p)
       \/ /\ req[p].kind = "post"
          /\ Goto(p, "secret")
          /\ req' = [req EXCEPT ![p].key = None]
          /\ UNCHANGED <<tmp, secret>>
    /\ UNCHANGED <<file, drawn, tokens>>

\* It is not: another try at a login, or "404 Not Found"
Refuses(p) ==
    /\ At(p, "use") /\ req[p].key # None
    /\ req[p].key # secret[p] \/ req[p].late
    /\ \/ /\ req[p].kind = "get"
          /\ Goto(p, "secret")
          /\ req' = [req EXCEPT ![p].key = None]
          /\ UNCHANGED <<tmp, secret>>
       \/ req[p].kind = "post" /\ Ends(p)
    /\ UNCHANGED <<file, drawn, tokens>>

\* secure_value: the redirect of the form, or the cookie
Sign(p) ==
    /\ At(p, "use") /\ req[p].key = None
    /\ tokens' = tokens \cup
           {[field |-> IF req[p].kind = "get" THEN "redirect" ELSE "username",
             key |-> secret[p]]}
    /\ Ends(p)
    /\ UNCHANGED <<file, drawn>>

\* The process is killed, and leaves its temporary file behind
Crash(p) ==
    /\ ~At(p, "idle")
    /\ Ends(p)
    /\ UNCHANGED <<file, drawn, tokens>>

AuthNext ==
    \E p \in Procs :
        \/ Begin(p) \/ InMemory(p) \/ Open(p) \/ WriteSecret(p) \/ Link(p) \/ Unlink(p)
        \/ Reopen(p) \/ Read(p) \/ Exit(p)
        \/ Accepts(p) \/ Refuses(p) \/ Sign(p) \/ Crash(p)

AuthSpec == AuthInit /\ [][AuthNext]_authvars

-----------------------------------------------------------------------------

(***************************************************************************)
(* Processes that make the secret at the same time end up with one, and    *)
(* whatever is killed or fails in between, no token that was given out is  *)
(* refused later: "Intentionally fails in the case that another process is *)
(* doing the same".                                                        *)
(***************************************************************************)
OneSecret ==
    /\ \A p \in Procs : secret[p] \in {None, file}
    /\ \A t \in tokens : t.key = file
=============================================================================
