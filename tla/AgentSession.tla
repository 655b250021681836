---------------------------- MODULE AgentSession ----------------------------
(***************************************************************************)
(* Which Claude session an agent is attached to (internal/session; its       *)
(* callers: Worker.run of a resumed routine or an ask, and `qilla chat`).    *)
(*                                                                         *)
(* The live row is read, the transcript's age is looked up, and a session    *)
(* idle for too long is retired and the row repointed at a fresh id: a       *)
(* statement each, in no transaction.  A worker then runs claude for minutes *)
(* and writes the row again; a chat replaces itself by claude and never      *)
(* does.  The supervisor's worker, a `qilla run` by hand and a chat share    *)
(* the row of one agent.                                                     *)
(***************************************************************************)
EXTENDS Naturals, FiniteSets

CONSTANTS
    Workers,    \* runs that set the row when claude has answered
    Chats,      \* interactive launches
    MaxIdle,    \* [chat].session_max_idle, in ticks
    MaxId,      \* bound: session ids
    MaxFaults   \* bound: runs of claude that fail

Launches == Workers \cup Chats
None == 0
Ids == 1..MaxId

VARIABLES
    live,       \* the agent's row in `sessions`
    stamp,      \* its `updated`, as ticks ago (up to one more than MaxIdle)
    successor,  \* sessions_retired: per retired id the id that came after it
    age,        \* per session with a transcript: ticks since the last turn
    launch,     \* per launch: program counter and locals
    minted,     \* ids used so far
    failures,
    (* history, read by properties only *)
    raced       \* a row was written that had changed since its writer read it

vars == <<live, stamp, successor, age, launch, minted, failures, raced>>

\* Ids are random (NewID, or claude's own): fresh every time.
Fresh == minted + 1
CanMint == minted < MaxId
Idle == MaxIdle + 1

AtRest == [pc |-> "off", seen |-> None, resume |-> None, new |-> None]

Init ==
    /\ live = None /\ stamp = Idle
    /\ successor = [i \in {} |-> None]
    /\ age = [i \in {} |-> 0]
    /\ launch = [l \in Launches |-> AtRest]
    /\ minted = 0 /\ failures = 0
    /\ raced = FALSE

-----------------------------------------------------------------------------
(* Attach.                                                                  *)

\* Current.  Without a row claude starts a session of its own; --new does so
\* whatever the row says.
Attach(l, fresh) ==
    /\ launch[l].pc = "off"
    /\ fresh => l \in Chats
    /\ launch' = [launch EXCEPT ![l] = [AtRest EXCEPT
         !.seen = live,
         !.pc = IF live = None \/ fresh THEN "claude" ELSE "age"]]
    /\ UNCHANGED <<live, stamp, successor, age, minted, failures, raced>>

\* lastActivity: the age of the transcript, or else of the row as it is now.
LastActivity(sid) == IF sid \in DOMAIN age THEN age[sid] ELSE stamp

KeepOrRotate(l) ==
    LET sid == launch[l].seen
        rotates == LastActivity(sid) > MaxIdle
    IN  /\ launch[l].pc = "age"
        /\ rotates => CanMint
        /\ launch' = [launch EXCEPT ![l] =
             IF rotates THEN [@ EXCEPT !.pc = "retire", !.new = Fresh]
                        ELSE [@ EXCEPT !.pc = "claude", !.resume = sid]]
        /\ minted' = IF rotates THEN Fresh ELSE minted
        /\ UNCHANGED <<live, stamp, successor, age, failures, raced>>

\* rotate, its two statements.
Retire(l) ==
    /\ launch[l].pc = "retire"
    /\ successor' = [i \in DOMAIN successor \cup {launch[l].seen} |->
                       IF i = launch[l].seen THEN launch[l].new ELSE successor[i]]
    /\ launch' = [launch EXCEPT ![l].pc = "repoint"]
    /\ UNCHANGED <<live, stamp, age, minted, failures, raced>>

WriteRow(l, sid) ==
    /\ live' = sid /\ stamp' = 0
    /\ raced' = (raced \/ live # launch[l].seen)

Repoint(l) ==
    /\ launch[l].pc = "repoint"
    /\ WriteRow(l, launch[l].new)
    /\ launch' = [launch EXCEPT ![l].pc = "claude", ![l].seen = launch[l].new]
    /\ UNCHANGED <<successor, age, minted, failures>>

-----------------------------------------------------------------------------
(* claude, with --resume or --session-id, or with neither.                   *)

\* Mutant: the rotated id is not handed on.
SessionOf_Own(l) == IF launch[l].resume # None THEN launch[l].resume ELSE Fresh

SessionOf(l) ==
    CASE launch[l].resume # None -> launch[l].resume
      [] launch[l].resume = None /\ launch[l].new # None -> launch[l].new
      [] OTHER -> Fresh

\* A session can be resumed when somebody has spoken in it.
Answers(l) ==
    LET sid == SessionOf(l)
    IN  /\ launch[l].pc = "claude"
        /\ launch[l].resume # None => launch[l].resume \in DOMAIN age
        /\ sid = Fresh => CanMint
        /\ minted' = IF sid = Fresh THEN Fresh ELSE minted
        /\ age' = [i \in DOMAIN age \cup {sid} |-> IF i = sid THEN 0 ELSE age[i]]
        /\ launch' = [launch EXCEPT ![l] =
             IF l \in Workers THEN [@ EXCEPT !.pc = "set", !.resume = sid]
                              ELSE [@ EXCEPT !.pc = "talk", !.resume = sid]]
        /\ UNCHANGED <<live, stamp, successor, failures, raced>>

\* claude cannot be run, dies, hits its limit, or has no such session.  What a
\* rotation wrote stays.
Fails(l) ==
    /\ launch[l].pc = "claude"
    /\ \/ launch[l].resume # None /\ launch[l].resume \notin DOMAIN age
          /\ UNCHANGED failures
       \/ failures < MaxFaults /\ failures' = failures + 1
    /\ launch' = [launch EXCEPT ![l] = AtRest]
    /\ UNCHANGED <<live, stamp, successor, age, minted, raced>>

\* The conversation of a chat goes on, and ends.
Talks(c) ==
    /\ launch[c].pc = "talk"
    /\ age' = [age EXCEPT ![launch[c].resume] = 0]
    /\ UNCHANGED <<live, stamp, successor, launch, minted, failures, raced>>

Leaves(c) ==
    /\ launch[c].pc = "talk"
    /\ launch' = [launch EXCEPT ![c] = AtRest]
    /\ UNCHANGED <<live, stamp, successor, age, minted, failures, raced>>

\* Set.  Its second statement looks for a retired row without a successor:
\* rotate leaves none.
SetSession(w) ==
    /\ launch[w].pc = "set"
    /\ WriteRow(w, launch[w].resume)
    /\ launch' = [launch EXCEPT ![w] = AtRest]
    /\ UNCHANGED <<successor, age, minted, failures>>

Tick ==
    /\ stamp < Idle \/ \E i \in DOMAIN age : age[i] < Idle
    /\ stamp' = IF stamp < Idle THEN stamp + 1 ELSE stamp
    /\ age' = [i \in DOMAIN age |-> IF age[i] < Idle THEN age[i] + 1 ELSE age[i]]
    /\ UNCHANGED <<live, successor, launch, minted, failures, raced>>

Next ==
    \/ \E l \in Launches :
         \/ \E fresh \in BOOLEAN : Attach(l, fresh)
         \/ KeepOrRotate(l) \/ Retire(l) \/ Repoint(l) \/ Answers(l) \/ Fails(l)
    \/ \E c \in Chats : Talks(c) \/ Leaves(c)
    \/ \E w \in Workers : SetSession(w)
    \/ Tick

Spec == Init /\ [][Next]_vars

-----------------------------------------------------------------------------
(* Properties.                                                              *)

TypeOK ==
    /\ live \in Ids \cup {None} /\ stamp \in 0..Idle
    /\ DOMAIN successor \subseteq Ids /\ \A i \in DOMAIN successor : successor[i] \in Ids
    /\ DOMAIN age \subseteq Ids /\ \A i \in DOMAIN age : age[i] \in 0..Idle
    /\ launch \in [Launches -> [pc: {"off", "age", "retire", "repoint", "claude", "talk", "set"},
                                seen: Ids \cup {None}, resume: Ids \cup {None},
                                new: Ids \cup {None}]]
    /\ minted \in 0..MaxId /\ failures \in 0..MaxFaults /\ raced \in BOOLEAN

\* j comes after i, or is i: no set that has i, and with a session its successor, is
\* without j.
Leads(after, i, j) ==
    \A T \in SUBSET Ids :
        i \in T /\ (\A k \in T \cap DOMAIN after : after[k] \in T) => j \in T

\* session.go: "so every entry point lands on the same new session; the old row
\* is kept, never deleted", "so the history chains".  From each retired session
\* the successors lead to the live one, and to no other, until somebody writes
\* the row over a change that came after their reading of it.
HistoryChains ==
    ~raced => \A i \in DOMAIN successor :
        \/ Leads(successor, i, live)
        \/ \E l \in Launches : launch[l].pc = "repoint" /\ Leads(successor, i, launch[l].new)
=============================================================================
