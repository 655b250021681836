------------------------------ MODULE WebSessions ------------------------------
(***************************************************************************)
(* The page's login (internal/auth) and `qilla passwd`: a signed cookie that   *)
(* outlives the process that gave it out - serve exits when it is idle - and   *)
(* not the password it was given out for.  Its key is a file that a process     *)
(* reads when it starts, or creates; passwd writes the new hash into qilla.toml *)
(* and then removes the key, and asks for a restart of serve.                 *)
(***************************************************************************)
EXTENDS Naturals, FiniteSets

CONSTANTS
    Attempts,   \* logins under way at a time
    SessionTTL, FailWindow, MaxFailures,
    MaxTime, MaxHash, MaxKeys, MaxCookies   \* bounds: ticks, passwords, keys, logins

VARIABLES
    now,
    file,       \* password_hash of qilla.toml, by number
    keyFile,    \* web-session.key, by number, 0: none
    keys,       \* keys made so far
    passwd,     \* the command: "idle", "key"; what it wrote and could not follow up
    serve,      \* the process: pc, its hash and key, whether it could keep the key
    fails,      \* its failed logins: their times, each with a number
    attempt,    \* per login: "none", or "compare" and whether the password is right
    cookies     \* given out

vars == <<now, file, keyFile, keys, passwd, serve, fails, attempt, cookies>>

Down == [pc |-> "down", hash |-> 0, key |-> 0, kept |-> FALSE, fresh |-> FALSE, quiet |-> FALSE]

Init ==
    /\ now = 0 /\ file = 1 /\ keyFile = 0 /\ keys = 0
    /\ passwd = [pc |-> "idle", pending |-> FALSE]
    /\ serve = Down /\ fails = {}
    /\ attempt = [a \in Attempts |-> "none"]
    /\ cookies = {}

-----------------------------------------------------------------------------
(* qilla passwd.                                                             *)

WriteHash == file' = file + 1 /\ UNCHANGED keyFile
RemoveKey == keyFile' = 0 /\ UNCHANGED file

\* Mutant: the key goes before the hash.
PasswdSteps_KeyFirst(first) == IF first THEN RemoveKey ELSE WriteHash

PasswdSteps(first) == IF first THEN WriteHash ELSE RemoveKey

\* setPasswordHash, into qilla.toml.
Passwd ==
    /\ passwd.pc = "idle" /\ file < MaxHash
    /\ PasswdSteps(TRUE)
    /\ passwd' = [pc |-> "key", pending |-> TRUE]
    /\ UNCHANGED <<now, keys, serve, fails, attempt, cookies>>

\* Or an error: the sessions stay, and the user is told.
InvalidateSessions ==
    /\ passwd.pc = "key"
    /\ \/ PasswdSteps(FALSE) /\ passwd' = [pc |-> "idle", pending |-> FALSE]
       \/ passwd' = [passwd EXCEPT !.pc = "idle"] /\ UNCHANGED <<file, keyFile>>
    /\ UNCHANGED <<now, keys, serve, fails, attempt, cookies>>

-----------------------------------------------------------------------------
(* serve.                                                                    *)

\* The configuration is loaded.
Start ==
    /\ serve.pc = "down"
    /\ serve' = [Down EXCEPT !.pc = "starting", !.hash = file]
    /\ UNCHANGED <<now, file, keyFile, keys, passwd, fails, attempt, cookies>>

\* History: its password is still the one of the file when it has its key; and no change
\* was under way then, or had gone half way.
Fresh == serve.hash = file
Quiet == Fresh /\ ~passwd.pending

\* loadOrCreateKey, NewPersistent; New, when the key cannot be kept.
LoadOrCreateKey ==
    /\ serve.pc = "starting"
    /\ IF keyFile # 0
       THEN /\ serve' = [serve EXCEPT !.pc = "up", !.key = keyFile, !.kept = TRUE,
                                      !.fresh = Fresh, !.quiet = Quiet]
            /\ UNCHANGED <<keyFile, keys>>
       ELSE /\ keys < MaxKeys /\ keys' = keys + 1
            /\ \E kept \in BOOLEAN :
                 /\ serve' = [serve EXCEPT !.pc = "up", !.key = keys + 1, !.kept = kept,
                                           !.fresh = Fresh, !.quiet = Quiet]
                 /\ keyFile' = IF kept THEN keys + 1 ELSE 0
    /\ UNCHANGED <<now, file, passwd, fails, attempt, cookies>>

\* It exits, or dies.
Stop ==
    /\ serve.pc # "down"
    /\ serve' = Down
    /\ fails' = {} /\ attempt' = [a \in Attempts |-> "none"]
    /\ UNCHANGED <<now, file, keyFile, keys, passwd, cookies>>

-----------------------------------------------------------------------------
(* A login.                                                                  *)

Recent(t) == t + FailWindow > now
Kept == {f \in fails : Recent(f.at)}

\* tooMany: failures of the window are kept, and too many of them are an answer.
TooMany(a) ==
    /\ serve.pc = "up" /\ attempt[a] = "none"
    /\ fails' = Kept
    /\ \/ Cardinality(Kept) >= MaxFailures /\ UNCHANGED attempt
       \/ /\ Cardinality(Kept) < MaxFailures
          /\ \E password \in {"right", "wrong"} : attempt' = [attempt EXCEPT ![a] = password]
    /\ UNCHANGED <<now, file, keyFile, keys, passwd, serve, cookies>>

\* fail.
Wrong(a) ==
    /\ attempt[a] = "wrong"
    /\ LET n == CHOOSE m \in 1..(Cardinality(fails) + 1) : ~\E f \in fails : f.n = m
       IN  fails' = fails \cup {[n |-> n, at |-> now]}
    /\ attempt' = [attempt EXCEPT ![a] = "none"]
    /\ UNCHANGED <<now, file, keyFile, keys, passwd, serve, cookies>>

\* clear, token: a cookie for the password the process goes by.
Right(a) ==
    /\ attempt[a] = "right"
    /\ \E n \in 1..MaxCookies : ~\E c \in cookies : c.n = n
    /\ LET n == CHOOSE m \in 1..MaxCookies : ~\E c \in cookies : c.n = m
       IN  cookies' = cookies \cup {[n |-> n, hash |-> serve.hash, key |-> serve.key,
                                     exp |-> now + SessionTTL, kept |-> serve.kept,
                                     fresh |-> serve.fresh, quiet |-> serve.quiet]}
    /\ fails' = {}
    /\ attempt' = [attempt EXCEPT ![a] = "none"]
    /\ UNCHANGED <<now, file, keyFile, keys, passwd, serve>>

\* logout: the browser forgets it.
Logout(c) ==
    /\ serve.pc = "up"
    /\ cookies' = cookies \ {c}
    /\ UNCHANGED <<now, file, keyFile, keys, passwd, serve, fails, attempt>>

\* valid: the signature, and the time.
Valid(c) == serve.pc = "up" /\ c.key = serve.key /\ now < c.exp

Tick ==
    /\ now < MaxTime
    /\ now' = now + 1
    /\ UNCHANGED <<file, keyFile, keys, passwd, serve, fails, attempt, cookies>>

Next ==
    \/ Passwd \/ InvalidateSessions
    \/ Start \/ LoadOrCreateKey \/ Stop
    \/ \E a \in Attempts : TooMany(a) \/ Wrong(a) \/ Right(a)
    \/ \E c \in cookies : Logout(c)
    \/ Tick

Spec == Init /\ [][Next]_vars

-----------------------------------------------------------------------------
(* Properties.                                                              *)

TypeOK ==
    /\ now \in 0..MaxTime /\ file \in 1..MaxHash /\ keyFile \in 0..keys /\ keys \in 0..MaxKeys
    /\ serve.pc \in {"down", "starting", "up"} /\ serve.key \in 0..keys /\ serve.hash \in 0..file
    /\ \A a \in Attempts : attempt[a] \in {"none", "right", "wrong"}
    /\ \A c \in cookies : c.key \in 1..keys /\ c.hash \in 1..file

\* auth.go: "sessions survive process restarts"; passwd.go: "every existing session ... is
\* invalidated by the password change".  Over any number of restarts and changes, a
\* process that started with no change under way accepts a cookie that has not expired
\* only if it was given out for the password the process goes by - or by one that lost
\* a race with the change, the old password in hand and the new key - and accepts it if it
\* was, by one that had started so too, and their key could be kept.
SessionsFollowThePassword ==
    \A c \in cookies :
        serve.pc = "up" /\ serve.quiet /\ now < c.exp =>
            /\ Valid(c) /\ c.fresh => c.hash = serve.hash
            /\ c.hash = serve.hash /\ c.quiet /\ c.kept /\ serve.kept => Valid(c)

\* Logins that were let in together may all be wrong: the failures of a window exceed
\* the limit by no more than the logins under way.
LimitOvershoot ==
    Cardinality(Kept) < MaxFailures + Cardinality(Attempts)
=============================================================================
