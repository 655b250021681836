------------------------------- MODULE MCServe -------------------------------
(* Serve on small instances, for TLC: the state spaces of its parts add up.  *)
EXTENDS Serve

CONSTANTS brief, ask

\* A resumed routine and a chat of one agent, three session ids.  The chat feed:
\* three lines, the first of them plumbing; a channel and a replay so
\* small that they overflow; one rotation, rewind or restart.

-----------------------------------------------------------------------------
\* The empty file, two valid texts of one size, a routine whose agent is missing,
\* and a field with a value that is not allowed.
ConfigText(size, settings, isScript, agent, odd) ==
    [size |-> size, settings |-> settings, routine |-> size > 0, script |-> isScript,
     agent |-> agent, agents |-> {"chief"}, odd |-> odd]
EmptyFile == ConfigText(0, 0, TRUE, "", {})

ConfigTexts ==
    {EmptyFile,
     ConfigText(2, 1, FALSE, "", {}), ConfigText(2, 2, FALSE, "", {}),
     ConfigText(3, 3, FALSE, "ghost", {}), ConfigText(3, 4, TRUE, "", {"input"})}

-----------------------------------------------------------------------------
\* A public choice that may fall back on kev, a yes-or-no that insists on jev, a
\* score and a choice that stay at home, each at its server.
Request(kind, options, route, public, default, kev) ==
    [kind |-> kind, options |-> options, route |-> route, public |-> public,
     default |-> default, jev |-> TRUE, kev |-> kev, floor |-> 85]

Asked ==
    {Request("choice", <<"keep", "drop">>, "auto", TRUE, "jev", TRUE),
     Request("noul", <<>>, "jev", TRUE, "local", TRUE),
     Request("score", <<>>, "auto", FALSE, "jev", TRUE),
     Request("choice", <<"keep", "drop">>, "", FALSE, "jev", FALSE)}

\* A distribution that decides, and one that names what was not asked for; a chat
\* answer with probabilities, and one in words.
Distributions ==
    {[dist |-> [keep |-> 90, drop |-> 10, yes |-> 50], conf |-> -1, score |-> "70"],
     [dist |-> [drop |-> 20, unknown |-> 20], conf |-> 95, score |-> ""]}
Texted ==
    {[at |-> <<[keep |-> 9, drop |-> 1]>>, words |-> <<>>, score |-> "", scoreConf |-> -1],
     [at |-> <<>>,
      words |-> <<[is |-> "drop", opens |-> {"drop"}], [is |-> "", opens |-> {"keep"}]>>,
      score |-> "", scoreConf |-> -1]}

-----------------------------------------------------------------------------
\* A manifest that cannot be read, one that declares nothing, one that may ask a host
\* and run jq, and one that may post, write below a directory, run a browser and open a
\* window.
Declared(readable, declares, hosts, methods, paths, exec, headed) ==
    [readable |-> readable, declares |-> declares, hosts |-> hosts, methods |-> methods,
     paths |-> paths, exec |-> exec, headed |-> headed]
Declarations ==
    {Declared(FALSE, {}, {}, {}, {}, {}, FALSE), Declared(TRUE, {}, {}, {}, {}, {}, TRUE),
     Declared(TRUE, {"http"}, {"home"}, {}, {}, {"jq"}, TRUE),
     Declared(TRUE, {"http", "write"}, {"home", "api"}, {"POST"},
              {[dir |-> TRUE, at |-> <<"notes">>]}, {"git", "agent-browser"}, TRUE)}

\* A call of each kind; a file gets its old text or a new one; a WITH that deletes.
ScriptCalls ==
    {[is |-> "http", host |-> "home", method |-> "GET"],
     [is |-> "http", host |-> "api", method |-> "POST"],
     [is |-> "write", path |-> <<"notes", "a">>, text |-> "new"],
     [is |-> "write", path |-> <<"notes", "a">>, text |-> "old"],
     [is |-> "write", path |-> <<"todo">>, text |-> "new"],
     [is |-> "run", program |-> "git"],
     [is |-> "fetch"], [is |-> "ask"], [is |-> "secret"], [is |-> "look"],
     [is |-> "query", sql |-> <<[begins |-> "WITH", writes |-> TRUE]>>],
     [is |-> "query", sql |-> <<[begins |-> "SELECT", writes |-> FALSE]>>]}

-----------------------------------------------------------------------------

\* Bound: of a retry, an error and a crash of the loop, any two.
TwoOfThree == retries + faults + crashes <= 2
=============================================================================
