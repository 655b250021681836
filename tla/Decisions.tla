------------------------------ MODULE Decisions ------------------------------
(***************************************************************************)
(* `decide ask`: typed decisions of small models (internal/decide: ask.go,   *)
(* trace.go).  A request is routed to jev, which is remote, to kev or to the *)
(* old local chat server; what comes back is an answer above the floor or    *)
(* `unknown`.  Every decision is a line of the trace, and the lines of today *)
(* that took route jev are what the daily cap of remote calls goes by.       *)
(* Gather steps, `qilla fetch` and the command line ask at the same time.    *)
(*                                                                         *)
(* Probabilities are per cent.  What a server says is a distribution over    *)
(* the options (a function), or the way it failed.                           *)
(***************************************************************************)
EXTENDS Integers, Sequences, SequencesExt, FiniteSets, FiniteSetsExt

CONSTANTS
    Askers,
    Requests,   \* kind, options, route, public, default, jev (enabled, with its key),
                \* kev (has a URL), floor
    Answers,    \* what a System One server may answer, see Answer
    Chats,      \* what the old chat server may answer, see Chat
    Failures,   \* how a server may fail: "unreachable", "5xx", "4xx", "bad response"
    DailyMax,   \* jev_daily_max
    MaxAsks,    \* bound: requests
    MaxDay      \* bound: midnights

Unknown == "unknown"
NoConf == -1

VARIABLES
    asker,      \* per asker: program counter, request, server, label; whether it took
                \* a trace with lines for an empty one (`blind`, history)
    trace,      \* decisions.jsonl: today's lines of route jev
    day, asks,
    (* history, read by properties only *)
    answered    \* those of today's lines whose decision counted the trace and posted to jev

vars == <<asker, trace, day, asks, answered>>

Nothing == [label |-> Unknown, conf |-> 0, error |-> ""]
AtRest == [pc |-> "idle", req |-> <<>>, server |-> "", again |-> TRUE, sent |-> FALSE,
           blind |-> FALSE, label |-> Unknown]

Init ==
    /\ asker = [a \in Askers |-> AtRest]
    /\ trace = 0
    /\ day = 0 /\ asks = 0
    /\ answered = 0

-----------------------------------------------------------------------------
(* The request.                                                             *)

\* The options in their order, `unknown` last.
WithUnknown(options) ==
    LET kept == {i \in DOMAIN options : options[i] # Unknown}
        place(i) == Cardinality({j \in kept : j <= i})
    IN  [k \in 1..Cardinality(kept) |-> options[CHOOSE i \in kept : place(i) = k]] \o <<Unknown>>

AskOptions(r) == WithUnknown(IF r.kind = "noul" THEN <<"yes", "no">> ELSE r.options)

Validate(r) ==
    /\ r.kind \in {"choice", "score", "noul"}
    /\ r.kind = "choice" => Len(WithUnknown(r.options)) >= 2
    /\ r.route \in {"", "auto", "local", "jev"}
    /\ r.route = "jev" => r.public

\* Mutant: what is not public goes out all the same.
ResolveRoute_Any(r) ==
    IF r.route \in {"local", "jev"} THEN r.route
    ELSE IF r.default # "local" /\ r.jev THEN "jev" ELSE "local"

ResolveRoute(r) ==
    IF r.route \in {"local", "jev"} THEN r.route
    ELSE IF r.default # "local" /\ r.public /\ r.jev THEN "jev" ELSE "local"

LocalEndpoint(r) == IF r.kev THEN "kev" ELSE "lemonade"

-----------------------------------------------------------------------------
(* Answers.                                                                 *)

\* The first option of the greatest mass; what has none counts as 0.
Mass(dist, o) == IF o \in DOMAIN dist THEN dist[o] ELSE 0
ArgMax(dist, options) ==
    LET best == {i \in DOMAIN options :
                   \A j \in DOMAIN options : Mass(dist, options[j]) <= Mass(dist, options[i])}
    IN  IF options = <<>> THEN Unknown ELSE options[Min(best)]

\* Answer: [dist, conf, score] - a distribution (for `noul` over "yes"; over the
\* score's levels for `score`), the confidence when stated, the score's value.
JevAnswer(r, ans) ==
    LET stated == ans.conf # NoConf
        good(label, conf) == [label |-> label, conf |-> IF stated THEN ans.conf ELSE conf, error |-> ""]
        bad == [Nothing EXCEPT !.error = "bad response"]
        named == [o \in DOMAIN ans.dist \cap Range(r.options) |-> ans.dist[o]]
        yesNo == [yes |-> ans.dist["yes"], no |-> 100 - ans.dist["yes"]]
    IN  CASE r.kind = "noul" /\ "yes" \in DOMAIN ans.dist ->
               LET l == ArgMax(yesNo, <<"yes", "no">>) IN good(l, yesNo[l])
          [] r.kind = "score" /\ ans.score # "" ->
               good(ans.score, Max({0} \cup {ans.dist[o] : o \in DOMAIN ans.dist}))
          [] r.kind = "choice" /\ DOMAIN named # {} ->
               LET l == ArgMax(named, r.options) IN good(l, Mass(named, l))
          [] OTHER -> bad

\* Chat: [at, words, score, scoreConf] - per generated position the mass its candidate
\* tokens give to the options they open; the words of the text, as the options
\* each is or opens; the last integer in range and its token's probability.
\* The first position that names an option decides, or else the last word that
\* is an option, or else the last that opens one, at 60 per cent.
ScanLogprobs(at) == {i \in DOMAIN at : \E o \in DOMAIN at[i] : at[i][o] > 0}
Total(mass) == FoldFunction(+, 0, mass)
TextConf == 60

ChatAnswer(r, chat) ==
    LET options == AskOptions(r)
        hits == ScanLogprobs(chat.at)
        mass == chat.at[Min(hits)]
        exact == {i \in DOMAIN chat.words : chat.words[i].is \in Range(options)}
        opens == {i \in DOMAIN chat.words : chat.words[i].opens \cap Range(options) # {}}
        first(S) == options[Min({i \in DOMAIN options : options[i] \in S})]
    IN  CASE r.kind = "score" ->
               IF chat.score = "" THEN Nothing
               ELSE [label |-> chat.score, error |-> "",
                     conf |-> IF chat.scoreConf = NoConf THEN TextConf ELSE chat.scoreConf]
          [] r.kind # "score" /\ hits # {} ->
               LET l == ArgMax(mass, options)
               IN  [label |-> l, conf |-> (100 * Mass(mass, l)) \div Total(mass), error |-> ""]
          [] r.kind # "score" /\ hits = {} /\ exact # {} ->
               [label |-> chat.words[Max(exact)].is, conf |-> TextConf, error |-> ""]
          [] r.kind # "score" /\ hits = {} /\ exact = {} /\ opens # {} ->
               [label |-> first(chat.words[Max(opens)].opens), conf |-> TextConf, error |-> ""]
          [] OTHER -> Nothing

\* Below the floor, or with an error, nothing is decided.
Settled(r, res) == IF res.conf < r.floor \/ res.error # "" THEN Unknown ELSE res.label

-----------------------------------------------------------------------------
(* Ask.                                                                     *)

Set(a, new) == asker' = [asker EXCEPT ![a] = new]

\* A bad request is the caller's error; it is not traced.
Ask(a, r) ==
    /\ asker[a].pc = "idle" /\ asks < MaxAsks
    /\ asks' = asks + 1
    /\ Validate(r)
    /\ Set(a, IF ResolveRoute(r) = "jev"
              THEN [AtRest EXCEPT !.pc = "count", !.req = r, !.server = "jev"]
              ELSE [AtRest EXCEPT !.pc = "post", !.req = r, !.server = LocalEndpoint(r)])
    /\ UNCHANGED <<trace, day, answered>>

\* A jev failure worth one try on kev: unreachable, 5xx, over the cap.
FallsBack(r, error) ==
    /\ r.route \in {"", "auto"} /\ r.kev
    /\ error \in {"unreachable", "5xx", "daily cap"}

\* The answer, or the failure, of the server that was asked.
Answered(a, res) ==
    Set(a, IF asker[a].server = "jev" /\ FallsBack(asker[a].req, res.error)
           THEN [asker[a] EXCEPT !.pc = "post", !.server = "kev", !.again = TRUE, !.sent = FALSE]
           ELSE [asker[a] EXCEPT !.pc = "trace", !.label = Settled(asker[a].req, res),
                                 !.sent = asker[a].pc = "post" /\ asker[a].server = "jev"])
Fails(a, error) == Answered(a, [Nothing EXCEPT !.error = error])

\* CountRouteToday: a trace that cannot be read counts zero, "the cap never blocks a
\* decision because a file is absent".
Counted == {trace, 0}
OverCap(lines) == lines >= DailyMax

Count(a) ==
    /\ asker[a].pc = "count"
    /\ \E lines \in Counted :
         IF ~asker[a].req.jev THEN Fails(a, "not configured")
         ELSE IF OverCap(lines) THEN Fails(a, "daily cap")
         ELSE Set(a, [asker[a] EXCEPT !.pc = "post", !.blind = lines # trace])
    /\ UNCHANGED <<trace, day, asks, answered>>

\* One post to a System One server; a 429 is waited out and tried once more.
PostSystemOne(a) ==
    LET jev == asker[a].server = "jev"
    IN  /\ asker[a].pc = "post" /\ asker[a].server \in {"jev", "kev"}
        /\ \/ \E f \in Failures : Fails(a, f)
           \/ \E ans \in Answers : Answered(a, JevAnswer(asker[a].req, ans))
           \/ IF asker[a].again THEN Set(a, [asker[a] EXCEPT !.again = FALSE])
              ELSE Fails(a, "rate limited")
        /\ UNCHANGED <<trace, day, asks, answered>>

\* The old server: what it rejects is sent once more without the prefill.
PostChat(a) ==
    /\ asker[a].pc = "post" /\ asker[a].server = "lemonade"
    /\ \/ \E f \in Failures : Fails(a, f)
       \/ \E chat \in Chats : Answered(a, ChatAnswer(asker[a].req, chat))
       \/ asker[a].again /\ Set(a, [asker[a] EXCEPT !.again = FALSE])
    /\ UNCHANGED <<trace, day, asks, answered>>

\* AskAndTrace.  (What was not decided is copied to ask-escapes.jsonl, which
\* nothing reads.)
Trace(a) ==
    LET jev == asker[a].server = "jev"
    IN  /\ asker[a].pc = "trace"
        /\ trace' = trace + IF jev THEN 1 ELSE 0
        /\ answered' = answered + IF jev /\ asker[a].sent /\ ~asker[a].blind THEN 1 ELSE 0
        /\ Set(a, AtRest)
        /\ UNCHANGED <<day, asks>>

\* The trace cannot be written, or the process is killed: the answer stands, and
\* nothing tells of the call.
Untraced(a) ==
    /\ asker[a].pc \in {"post", "trace"}
    /\ Set(a, AtRest)
    /\ UNCHANGED <<trace, day, asks, answered>>

Midnight ==
    /\ day < MaxDay
    /\ day' = day + 1
    /\ trace' = 0 /\ answered' = 0
    /\ UNCHANGED <<asker, asks>>

Next ==
    \/ \E a \in Askers :
         \/ \E r \in Requests : Ask(a, r)
         \/ Count(a) \/ PostSystemOne(a) \/ PostChat(a) \/ Trace(a) \/ Untraced(a)
    \/ Midnight

Spec == Init /\ [][Next]_vars

-----------------------------------------------------------------------------
(* Properties.                                                              *)

TypeOK ==
    /\ \A a \in Askers :
         /\ asker[a].pc \in {"idle", "count", "post", "trace"}
         /\ asker[a].server \in {"", "jev", "kev", "lemonade"}
    /\ trace \in 0..MaxAsks /\ answered \in 0..trace
    /\ asks \in 0..MaxAsks /\ day \in 0..MaxDay

\* "an `unknown` is *undecided*, never a guess", "nothing sensitive goes off the
\* machine": what is decided is one of the options that were asked for, and what
\* is not public went to no remote server - whichever server answers, after a
\* second try or a fallback.
DecisionsAreSound ==
    \A a \in Askers :
        LET r == asker[a].req
            l == asker[a].label
        IN  /\ asker[a].pc = "trace" /\ l # Unknown /\ r.kind # "score" => l \in Range(AskOptions(r))
            /\ (asker[a].pc = "post" /\ asker[a].server = "jev") \/ asker[a].sent => r.public

\* The cap: of the decisions the trace of a day shows as jev's, those that posted
\* to it are at most the cap and one for every other asker, whose line was not
\* there yet when the last one counted.  Those that could not read the trace when
\* they counted are not held by the cap: they come on top.
CallsOnRecordWithinCap ==
    answered <= DailyMax + Cardinality(Askers) - 1
=============================================================================
