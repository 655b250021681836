-------------------------------- MODULE Serve --------------------------------
(* The supervisor's process and what it answers for: its loop (Supervisor), and *)
(* what lives beside it - the configuration it runs on, the agents' sessions,    *)
(* the chat feed of its page and the page's login, a gather step and the         *)
(* decisions it asks for, and the answer the engine gives an agent host.  They   *)
(* share no state, so that a behaviour moves one component only (`which`).      *)
EXTENDS Supervisor, Integers, Sequences, FiniteSets

CONSTANTS
    \* AgentSession
    Workers, Chats, MaxIdle, MaxId, SessionFaults,
    \* ChatFeed
    MaxTurn, Plumbing, Buffer, Replay, PageTurns, MaxLoads, MaxEvents,
    \* ConfigHolder
    Texts, Blank, MaxClock, MaxEdits, MaxHups,
    \* Decisions
    Askers, Requests, SystemAnswers, ChatAnswers, Failures, DailyMax, MaxAsks, MaxDay,
    \* Gather
    Manifests, Calls, Hosts, Tools, Old, MaxHops, MaxCalls,
    \* EngineCheck
    RecentWindow, StaleRunning, EngineTime, EngineRuns,
    \* WebSessions
    Attempts, SessionTTL, FailWindow, MaxFailures, LoginTime, MaxHash, MaxKeys, MaxCookies

ASSUME SessionAssumption ==
    MaxIdle \in Nat /\ MaxId \in Nat /\ SessionFaults \in Nat /\ Workers \cap Chats = {}
ASSUME ChatAssumption ==
    /\ MaxTurn \in Nat /\ Buffer \in Nat /\ Replay \in Nat /\ PageTurns \in Nat
    /\ MaxLoads \in Nat /\ MaxEvents \in Nat
ASSUME ConfigAssumption ==
    Blank \in Texts /\ MaxClock \in Nat /\ MaxEdits \in Nat /\ MaxHups \in Nat
ASSUME DecisionAssumption ==
    /\ IsFiniteSet(Askers) /\ Askers # {} /\ DailyMax \in Nat /\ MaxAsks \in Nat /\ MaxDay \in Nat
    /\ \A r \in Requests : r.options \in Seq(STRING)
    /\ \A ans \in SystemAnswers : ans.score \in STRING /\ \A o \in DOMAIN ans.dist : ans.dist[o] \in Nat
    /\ \A c \in ChatAnswers :
         /\ c.score \in STRING /\ c.words \in Seq([is : STRING, opens : SUBSET STRING])
         /\ \A i \in DOMAIN c.at : \A o \in DOMAIN c.at[i] : c.at[i][o] \in Nat
         /\ DOMAIN c.at \subseteq Nat
ASSUME GatherAssumption ==
    /\ MaxHops \in Nat /\ MaxCalls \in Nat
    /\ \A c \in Calls :
         /\ c.is = "http" => c = [is |-> "http", host |-> c.host, method |-> c.method]
         /\ c.is = "write" => c.path \in Seq(STRING)
    /\ \A m \in Manifests : \A d \in m.paths : d.at \in Seq(STRING)
ASSUME EngineAssumption ==
    RecentWindow \in Nat /\ StaleRunning \in Nat /\ EngineTime \in Nat /\ EngineRuns \in Nat
ASSUME LoginAssumption ==
    /\ IsFiniteSet(Attempts) /\ Attempts # {} /\ MaxFailures \in Nat
    /\ FailWindow \in Nat /\ SessionTTL \in Nat
    /\ LoginTime \in Nat /\ MaxHash \in Nat \ {0} /\ MaxKeys \in Nat /\ MaxCookies \in Nat

VARIABLES
    which,
    \* AgentSession
    live, stamp, successor, age, launch, minted, failures, raced,
    \* ChatFeed
    chatSid, file, written, cursor, recent, page, events, rewound, excused,
    \* ConfigHolder
    toml, clock, hold, lock, sup, run, edits, hups, seen, unseen, forced,
    \* Decisions
    asker, trace, today, asks, answered,
    \* Gather
    manifest, dry, pc, call, hops, late, cancelled, vault, tmp, sent, spawned, dirtied,
    bookmarks, actions, result, script,
    \* EngineCheck
    manual, hour, jobs, ledger, runs, inquiry,
    \* WebSessions
    tomlHash, keyFile, keys, passwd, server, fails, attempt, cookies, day

loopVars == vars
sessionVars == <<live, stamp, successor, age, launch, minted, failures, raced>>
chatVars == <<chatSid, file, written, cursor, recent, page, events, rewound, excused>>
configVars == <<toml, clock, hold, lock, sup, run, edits, hups, seen, unseen, forced>>
decideVars == <<asker, trace, today, asks, answered>>
gatherVars == <<manifest, dry, pc, call, hops, late, cancelled, vault, tmp, sent, spawned,
                dirtied, bookmarks, actions, result, script>>
engineVars == <<manual, hour, jobs, ledger, runs, inquiry>>
loginVars == <<tomlHash, keyFile, keys, passwd, server, fails, attempt, cookies, day>>

S == INSTANCE AgentSession WITH MaxFaults <- SessionFaults
F == INSTANCE ChatFeed WITH live <- chatSid, Recent <- Replay
H == INSTANCE ConfigHolder WITH file <- toml
D == INSTANCE Decisions WITH day <- today, Answers <- SystemAnswers, Chats <- ChatAnswers
G == INSTANCE Gather
E == INSTANCE EngineCheck WITH
    now <- hour, call <- inquiry,
    Recent <- RecentWindow, Stale <- StaleRunning, MaxTime <- EngineTime, MaxRuns <- EngineRuns
W == INSTANCE WebSessions WITH
    now <- day, file <- tomlHash, serve <- server, MaxTime <- LoginTime

-----------------------------------------------------------------------------

ServeInit ==
    /\ which \in {"loop", "sessions", "chat", "config", "decisions", "gather", "engine", "login"}
    /\ Init /\ S!Init /\ F!Init /\ H!Init /\ D!Init /\ G!Init /\ E!Init /\ W!Init
    /\ which # "config" => toml.text = Blank
    /\ which # "gather" => ~manifest.readable /\ ~dry
    /\ which # "engine" => ~manual

ServeNext ==
    \/ /\ which = "loop" /\ Next
       /\ UNCHANGED <<which, sessionVars, chatVars, configVars, decideVars,
                      gatherVars, engineVars, loginVars>>
    \/ /\ which = "sessions" /\ S!Next
       /\ UNCHANGED <<which, loopVars, chatVars, configVars, decideVars, gatherVars,
                      engineVars, loginVars>>
    \/ /\ which = "chat" /\ F!Next
       /\ UNCHANGED <<which, loopVars, sessionVars, configVars, decideVars,
                      gatherVars, engineVars, loginVars>>
    \/ /\ which = "config" /\ H!Next
       /\ UNCHANGED <<which, loopVars, sessionVars, chatVars, decideVars, gatherVars,
                      engineVars, loginVars>>
    \/ /\ which = "decisions" /\ D!Next
       /\ UNCHANGED <<which, loopVars, sessionVars, chatVars, configVars, gatherVars,
                      engineVars, loginVars>>
    \/ /\ which = "gather" /\ G!Next
       /\ UNCHANGED <<which, loopVars, sessionVars, chatVars, configVars, decideVars,
                      engineVars, loginVars>>
    \/ /\ which = "engine" /\ E!Next
       /\ UNCHANGED <<which, loopVars, sessionVars, chatVars, configVars, decideVars,
                      gatherVars, loginVars>>
    \/ /\ which = "login" /\ W!Next
       /\ UNCHANGED <<which, loopVars, sessionVars, chatVars, configVars, decideVars,
                      gatherVars, engineVars>>

serveVars == <<which, loopVars, sessionVars, chatVars, configVars, decideVars,
               gatherVars, engineVars, loginVars>>

ServeSpec == ServeInit /\ [][ServeNext]_serveVars

\* The properties of the parts, each stated and explained in its module; with each, the
\* types of its part.

\* Loop: a wake-up is not lost, and no work is left behind when the process exits.
NoneIsMissed == TypeOK /\ NoMissedWake /\ NothingLeftBehind

\* Sessions: the successors of a retired session lead to the live one.
HistoryChains == which = "sessions" => S!TypeOK /\ S!HistoryChains

\* Chat: a page with nothing on its way shows the newest turns.
QuietPageIsComplete == which = "chat" => F!TypeOK /\ F!QuietPageIsComplete

\* Configuration: once looked at, an edit is in the holder; and a run has one
\* configuration, with its agent in it.
ConfigIsWhole == which = "config" => H!TypeOK /\ H!EditIsSeen /\ H!RunIsOfOneConfig

\* Decisions: an option that was asked for, and nothing private sent out; and jev's lines
\* of a day keep to the cap, but for one per asker.
DecisionsKeepTheRules ==
    which = "decisions" => D!TypeOK /\ D!DecisionsAreSound /\ D!CallsOnRecordWithinCap

\* Gather: what a script does to the world was declared.
EffectsAreDeclared == which = "gather" => G!TypeOK /\ G!EffectsAreDeclared

\* Gather: a dry run changes nothing and lists what it would have.
DryRunIsListed == which = "gather" => G!DryRunIsListed

\* Engine: what an agent is allowed to run the engine is not at.
EngineIsNotAtIt == which = "engine" => E!TypeOK /\ E!EngineIsNotAtIt

\* Login: a session lasts as long as its password, whatever restarts; and the failures of
\* a window go over the limit by no more than the logins under way.
LoginIsGuarded ==
    which = "login" => W!TypeOK /\ W!SessionsFollowThePassword /\ W!LimitOvershoot
=============================================================================
