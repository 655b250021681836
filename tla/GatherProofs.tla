----------------------------- MODULE GatherProofs -----------------------------
(* What a gather script does to the world, and what the deciders it asks answer, *)
(* for any manifests, calls, servers, programs and deciders, and scripts of any *)
(* length.                                                                    *)
EXTENDS Serve, FiniteSetTheorems, SequenceTheorems, WellFoundedInduction, TLAPS

-----------------------------------------------------------------------------
(* The script.                                                              *)

WrittenTexts == {Old} \cup {c.text : c \in {d \in Calls : d.is = "write"}}

GivenInv == manifest \in Manifests /\ hops \in Nat /\ vault \in [G!Paths -> WrittenTexts]

\* A request on its way goes to a declared host, by a declared method or redirected.
HttpInv ==
    pc = "http" =>
        /\ call = [is |-> "http", host |-> call.host, method |-> call.method]
        /\ "http" \in manifest.declares /\ G!HostAllowed(call.host)
        /\ G!MethodAllowed(call.method) \/ (hops > 0 /\ call.method = "GET")
        /\ dry => call.method = "GET"

\* A file is about to change only below a declared prefix, and not in a dry run.
WriteInv ==
    pc \in {"create", "rename"} =>
        /\ call \in Calls /\ call.is = "write"
        /\ "write" \in manifest.declares /\ G!WriteAllowed(call.path)
        /\ ~dry

SentInv ==
    \A q \in sent :
        /\ "http" \in manifest.declares /\ G!HostAllowed(q.host)
        /\ G!MethodAllowed(q.method) \/ (q.hop > 0 /\ q.method = "GET")
        /\ dry => q.method = "GET"

FilesInv ==
    /\ \A p \in G!Paths : vault[p] # Old => "write" \in manifest.declares /\ G!WriteAllowed(p) /\ ~dry
    /\ dry => tmp = {}

DisplayQuery == {p \in {"systemctl"} : manifest.headed /\ "agent-browser" \in manifest.exec}
ProgramsInv ==
    /\ manifest.exec # {} => spawned \subseteq manifest.exec \cup DisplayQuery
    /\ dirtied = FALSE
    /\ dry => ~bookmarks

GatherInv == GivenInv /\ HttpInv /\ WriteInv /\ SentInv /\ FilesInv /\ ProgramsInv

waits == {"http", "create", "rename"}

-----------------------------------------------------------------------------
(* Steps that leave the world as it is.                                      *)

LEMMA WorldStays ==
    ASSUME SentInv, FilesInv, ProgramsInv, UNCHANGED <<manifest, dry, G!world>>
    PROVE  SentInv' /\ FilesInv' /\ ProgramsInv'
BY DEF SentInv, FilesInv, ProgramsInv, DisplayQuery, G!world, G!HostAllowed, G!MethodAllowed, G!MethodList, G!WriteAllowed

\* Nothing is sent or written by a script that is not at such a call.
LEMMA NotWaiting == ASSUME pc' \notin waits PROVE HttpInv' /\ WriteInv'
BY DEF waits, HttpInv, WriteInv

LEMMA CallStays ==
    ASSUME HttpInv, WriteInv, UNCHANGED <<manifest, dry, pc, call, hops>>
    PROVE  HttpInv' /\ WriteInv'
BY DEF HttpInv, WriteInv, G!HostAllowed, G!MethodAllowed, G!MethodList, G!WriteAllowed

\* Every step leaves the manifest, and whether it is a dry run.
LEMMA GivenStays == ASSUME G!Next PROVE UNCHANGED <<manifest, dry>>
BY DEF G!Next, G!GatherStar, G!End, G!Deadline, G!Cancel, G!Cancelled, G!Dies, G!Http, G!Secret, G!Write, G!RunCommand, G!Fetch,
       G!Ask, G!SQLiteQuery, G!Look, G!Redirect, G!HttpReturns, G!CreateTemp, G!Rename, G!CommandReturns, G!Rung, G!PrepareDisplay,
       G!FetchReturns, G!AskReturns, G!Makes, G!given

LEMMA QuietStep ==
    ASSUME GatherInv, UNCHANGED <<manifest, dry, G!world>>, hops' \in Nat,
           pc' \notin waits \/ UNCHANGED <<pc, call, hops>>
    PROVE  GatherInv'
<1>1. GivenInv'
  BY DEF GatherInv, GivenInv, G!world
<1>2. HttpInv' /\ WriteInv'
  BY NotWaiting, CallStays DEF GatherInv
<1>. QED  BY <1>1, <1>2, WorldStays DEF GatherInv

LEMMA QuietActions ==
    ASSUME GatherInv,
           \/ G!GatherStar \/ G!End \/ G!Deadline \/ G!Cancel \/ G!Cancelled \/ G!Dies
           \/ G!HttpReturns \/ G!CommandReturns \/ G!FetchReturns \/ G!AskReturns
           \/ \E c \in Calls : G!Secret(c) \/ G!Fetch(c) \/ G!Ask(c) \/ G!Look(c)
    PROVE  GatherInv'
<1>1. UNCHANGED <<manifest, dry, G!world>>
  BY DEF G!GatherStar, G!End, G!Deadline, G!Cancel, G!Cancelled, G!Dies, G!Secret, G!Fetch, G!Ask, G!Look, G!HttpReturns,
         G!CommandReturns, G!FetchReturns, G!AskReturns, G!Makes, G!given, G!world
<1>2. hops' \in Nat
  BY DEF GatherInv, GivenInv, G!GatherStar, G!End, G!Deadline, G!Cancel, G!Cancelled, G!Dies, G!Secret, G!Fetch, G!Ask, G!Look,
         G!HttpReturns, G!CommandReturns, G!FetchReturns, G!AskReturns, G!Raise, G!Returns, G!Waits, G!Answered
<1>3. pc' \notin waits \/ UNCHANGED <<pc, call, hops>>
  BY DEF waits, G!GatherStar, G!End, G!Deadline, G!Cancel, G!Cancelled, G!Dies, G!Secret, G!Fetch, G!Ask, G!Look,
         G!HttpReturns, G!CommandReturns, G!FetchReturns, G!AskReturns, G!Raise, G!Returns, G!Waits, G!Answered, G!given
<1>. QED  BY <1>1, <1>2, <1>3, QuietStep

-----------------------------------------------------------------------------
(* Requests.                                                                 *)

\* One more request of which the rules hold.
LEMMA SendsKeeps ==
    ASSUME SentInv, UNCHANGED <<manifest, dry>>, NEW host, NEW method, NEW hop \in Nat,
           G!Sends(host, method, hop),
           "http" \in manifest.declares, G!HostAllowed(host),
           G!MethodAllowed(method) \/ (hop > 0 /\ method = "GET"),
           dry => method = "GET"
    PROVE  SentInv'
<1>1. ASSUME NEW q \in sent'
      PROVE  /\ "http" \in manifest.declares /\ G!HostAllowed(q.host)
             /\ G!MethodAllowed(q.method) \/ (q.hop > 0 /\ q.method = "GET")
             /\ dry => q.method = "GET"
  <2>1. CASE q \in sent
    BY <2>1 DEF SentInv
  <2>2. CASE q = [host |-> host, method |-> method, hop |-> hop]
    BY <2>2
  <2>. QED  BY <1>1, <2>1, <2>2 DEF G!Sends
<1>. QED  BY <1>1 DEF SentInv, G!HostAllowed, G!MethodAllowed, G!MethodList

LEMMA HttpKeeps ==
    ASSUME GatherInv, NEW c \in Calls, G!Http(c)
    PROVE  GatherInv'
<1>1. UNCHANGED <<manifest, dry, vault, tmp, spawned, dirtied, bookmarks>> /\ "http" \in manifest.declares
      /\ c.is = "http"
  BY DEF G!Http, G!Makes, G!given, G!Predeclared
<1>2. FilesInv' /\ ProgramsInv'
  BY <1>1 DEF GatherInv, FilesInv, ProgramsInv, DisplayQuery, G!WriteAllowed
<1>3. CASE UNCHANGED sent /\ (G!Raise \/ G!AddAction(c))
  <2>1. UNCHANGED G!world /\ hops' \in Nat /\ pc' \notin waits
    BY <1>1, <1>3 DEF G!world, GatherInv, GivenInv, G!Raise, G!AddAction, waits
  <2>. QED  BY <1>1, <2>1, QuietStep
<1>4. CASE /\ G!HostAllowed(c.host) /\ G!MethodAllowed(c.method) /\ ~(dry /\ c.method # "GET")
           /\ call' = c /\ G!Waits("http") /\ G!Sends(c.host, c.method, 0)
  <2>1. SentInv'
    BY <1>1, <1>4, SendsKeeps DEF GatherInv
  <2>2. HttpInv' /\ WriteInv'
    BY <1>1, <1>4, GatherAssumption DEF HttpInv, WriteInv, G!Waits, G!HostAllowed, G!MethodAllowed, G!MethodList
  <2>3. GivenInv'
    BY <1>1, <1>4 DEF GatherInv, GivenInv, G!Waits
  <2>. QED  BY <1>2, <2>1, <2>2, <2>3 DEF GatherInv
<1>. QED  BY <1>3, <1>4 DEF G!Http

\* A redirect keeps the method or asks again by GET, and only of a declared host.
LEMMA RedirectKeeps ==
    ASSUME GatherInv, NEW host \in Hosts, NEW method \in {"GET", "POST"}, G!Redirect(host, method)
    PROVE  GatherInv'
<1>1. UNCHANGED <<manifest, dry, vault, tmp, spawned, dirtied, bookmarks>>
  BY DEF G!Redirect, G!given
<1>2. FilesInv' /\ ProgramsInv'
  BY <1>1 DEF GatherInv, FilesInv, ProgramsInv, DisplayQuery, G!WriteAllowed
<1>3. CASE G!Returns /\ UNCHANGED sent
  <2>1. UNCHANGED G!world /\ hops' \in Nat /\ pc' \notin waits
    BY <1>1, <1>3 DEF G!world, G!Returns, waits
  <2>. QED  BY <1>1, <2>1, QuietStep
<1>4. CASE /\ G!Follows(host) /\ hops' = hops + 1 /\ G!Sends(host, method, hops + 1)
           /\ call' = [call EXCEPT !.host = host, !.method = method] /\ UNCHANGED pc
  <2>1. /\ pc = "http" /\ method \in {call.method, "GET"} /\ G!HostAllowed(host) /\ hops \in Nat
        /\ call = [is |-> "http", host |-> call.host, method |-> call.method]
        /\ "http" \in manifest.declares /\ (dry => call.method = "GET")
        /\ G!MethodAllowed(call.method) \/ call.method = "GET"
    BY <1>4 DEF G!Redirect, G!Follows, GatherInv, HttpInv, GivenInv
  <2>2. hops + 1 \in Nat /\ hops + 1 > 0
    BY <2>1
  <2>3. call' = [is |-> "http", host |-> host, method |-> method]
    <3>1. PICK h, m : call = [is |-> "http", host |-> h, method |-> m]
      BY <2>1
    <3>. QED  BY <1>4, <3>1
  <2>4. G!MethodAllowed(method) \/ method = "GET"
    BY <2>1
  <2>5. dry => method = "GET"
    BY <2>1
  <2>6. SentInv'
    BY <1>1, <1>4, <2>1, <2>2, <2>4, <2>5, SendsKeeps DEF GatherInv
  <2>7. HttpInv' /\ WriteInv'
    BY <1>1, <1>4, <2>1, <2>2, <2>3, <2>4, <2>5 DEF HttpInv, WriteInv, G!HostAllowed, G!MethodAllowed, G!MethodList
  <2>8. GivenInv'
    BY <1>1, <1>4, <2>2 DEF GatherInv, GivenInv
  <2>. QED  BY <1>2, <2>6, <2>7, <2>8 DEF GatherInv
<1>. QED  BY <1>3, <1>4 DEF G!Redirect

-----------------------------------------------------------------------------
(* Files, programs and databases.                                            *)

\* The check of the path comes before the file is made.
LEMMA WriteKeeps ==
    ASSUME GatherInv, NEW c \in Calls, G!Write(c)
    PROVE  GatherInv'
<1>1. UNCHANGED <<manifest, dry, G!world>> /\ "write" \in manifest.declares /\ c.is = "write"
  BY DEF G!Write, G!Makes, G!given, G!Predeclared
<1>2. CASE G!Raise \/ G!AddAction(c) \/ G!Answered(c)
  <2>1. hops' \in Nat /\ pc' \notin waits
    BY <1>2 DEF GatherInv, GivenInv, G!Raise, G!AddAction, G!Answered, waits
  <2>. QED  BY <1>1, <2>1, QuietStep
<1>3. CASE G!WriteAllowed(c.path) /\ ~dry /\ call' = c /\ G!Waits("create")
  <2>1. HttpInv' /\ WriteInv'
    BY <1>1, <1>3 DEF HttpInv, WriteInv, G!Waits, G!WriteAllowed
  <2>2. GivenInv'
    BY <1>1, <1>3 DEF GatherInv, GivenInv, G!Waits, G!world
  <2>. QED  BY <1>1, <2>1, <2>2, WorldStays DEF GatherInv
<1>. QED  BY <1>2, <1>3 DEF G!Write, G!Compare

LEMMA CreateTempKeeps == ASSUME GatherInv, G!CreateTemp PROVE GatherInv'
<1>1. /\ UNCHANGED <<manifest, dry, vault, sent, spawned, dirtied, bookmarks>> /\ pc = "create" /\ ~dry
      /\ hops' \in Nat
  BY DEF G!CreateTemp, G!given, GatherInv, GivenInv, WriteInv, G!Raise
<1>2. GivenInv' /\ SentInv' /\ FilesInv' /\ ProgramsInv'
  BY <1>1 DEF GatherInv, GivenInv, SentInv, FilesInv, ProgramsInv, DisplayQuery, G!WriteAllowed,
             G!HostAllowed, G!MethodAllowed, G!MethodList
<1>3. HttpInv' /\ WriteInv'
  <2>1. CASE pc' = "rename" /\ UNCHANGED call
    BY <1>1, <2>1 DEF GatherInv, HttpInv, WriteInv, G!WriteAllowed
  <2>2. CASE G!Raise
    BY <2>2, NotWaiting DEF G!Raise, waits
  <2>. QED  BY <2>1, <2>2 DEF G!CreateTemp
<1>. QED  BY <1>2, <1>3 DEF GatherInv

LEMMA RenameKeeps == ASSUME GatherInv, G!Rename PROVE GatherInv'
<1>1. /\ UNCHANGED <<manifest, dry, sent, spawned, dirtied, bookmarks>> /\ pc = "rename" /\ ~dry
      /\ call \in Calls /\ call.is = "write" /\ "write" \in manifest.declares /\ G!WriteAllowed(call.path)
  BY DEF G!Rename, G!given, GatherInv, WriteInv
<1>2. call.path \in G!Paths /\ call.text \in WrittenTexts
  BY <1>1 DEF G!Paths, WrittenTexts
<1>3. vault' = vault \/ vault' = [vault EXCEPT ![call.path] = call.text]
  BY DEF G!Rename
<1>4. vault' \in [G!Paths -> WrittenTexts]
  BY <1>2, <1>3 DEF GatherInv, GivenInv
<1>5. \A p \in G!Paths : vault'[p] # Old => G!WriteAllowed(p)
  BY <1>1, <1>2, <1>3 DEF GatherInv, GivenInv, FilesInv
<1>6. pc' \notin waits /\ hops' \in Nat
  BY DEF G!Rename, G!Returns, G!Raise, waits
<1>7. GivenInv' /\ FilesInv'
  BY <1>1, <1>4, <1>5, <1>6 DEF GatherInv, GivenInv, FilesInv, G!WriteAllowed
<1>8. SentInv' /\ ProgramsInv'
  BY <1>1 DEF GatherInv, SentInv, ProgramsInv, DisplayQuery, G!HostAllowed, G!MethodAllowed, G!MethodList
<1>. QED  BY <1>6, <1>7, <1>8, NotWaiting DEF GatherInv

\* What run() or a rung of fetch() starts may be started.
LEMMA ProgramsKeep ==
    ASSUME GatherInv, G!Rung \/ G!PrepareDisplay \/ \E c \in Calls : G!RunCommand(c)
    PROVE  GatherInv'
<1>1. UNCHANGED <<manifest, dry, vault, tmp, sent, dirtied>>
  BY DEF G!Rung, G!PrepareDisplay, G!RunCommand, G!Makes, G!given
<1>2. hops' \in Nat /\ (pc' \notin waits \/ UNCHANGED <<pc, call, hops>>)
  BY DEF GatherInv, GivenInv, G!Rung, G!PrepareDisplay, G!RunCommand, G!Raise, G!Waits, waits
<1>3. ProgramsInv'
  <2>1. ASSUME manifest.exec # {} PROVE spawned' \subseteq manifest.exec \cup DisplayQuery
    <3>1. CASE G!Rung
      BY <2>1, <3>1 DEF GatherInv, ProgramsInv, G!Rung, G!ExecAllowed
    <3>0. CASE G!PrepareDisplay
      BY <2>1, <3>0 DEF GatherInv, ProgramsInv, DisplayQuery, G!PrepareDisplay, G!ExecAllowed
    <3>2. CASE \E c \in Calls : G!RunCommand(c)
      BY <2>1, <3>2 DEF GatherInv, ProgramsInv, G!RunCommand, G!ExecAllowed, G!Starts
    <3>. QED  BY <3>0, <3>1, <3>2
  <2>2. dry => ~bookmarks'
    BY DEF GatherInv, ProgramsInv, G!Rung, G!PrepareDisplay, G!RunCommand
  <2>. QED  BY <1>1, <2>1, <2>2 DEF GatherInv, ProgramsInv, DisplayQuery
<1>4. GivenInv' /\ SentInv' /\ FilesInv'
  BY <1>1, <1>2 DEF GatherInv, GivenInv, SentInv, FilesInv, G!WriteAllowed, G!HostAllowed, G!MethodAllowed, G!MethodList
<1>5. HttpInv' /\ WriteInv'
  BY <1>1, <1>2, NotWaiting, CallStays DEF GatherInv
<1>. QED  BY <1>3, <1>4, <1>5 DEF GatherInv

\* A statement that writes is not answered.
LEMMA SQLiteQueryKeeps ==
    ASSUME GatherInv, NEW c \in Calls, G!SQLiteQuery(c)
    PROVE  GatherInv'
<1>1. dirtied' = dirtied
  <2>1. dirtied = FALSE
    BY DEF GatherInv, ProgramsInv
  <2>2. CASE ~\E i \in DOMAIN c.sql : c.sql[i].writes
    BY <2>1, <2>2, Zenon DEF G!SQLiteQuery
  <2>3. CASE ~G!Takes(c.sql)
    BY <2>3, Zenon DEF G!SQLiteQuery
  <2>. QED  BY <2>2, <2>3 DEF G!Takes
<1>2. UNCHANGED <<manifest, dry, G!world>>
  BY <1>1 DEF G!SQLiteQuery, G!Makes, G!given, G!world
<1>3. hops' \in Nat /\ pc' \notin waits
  BY DEF GatherInv, GivenInv, G!SQLiteQuery, G!Raise, G!Answered, waits
<1>. QED  BY <1>2, <1>3, QuietStep

-----------------------------------------------------------------------------
(* The invariant.                                                            *)

LEMMA GatherInitHolds == ASSUME G!Init PROVE GatherInv
<1>1. GivenInv
  BY DEF G!Init, GivenInv, WrittenTexts
<1>2. HttpInv /\ WriteInv /\ SentInv /\ FilesInv /\ ProgramsInv
  BY DEF G!Init, HttpInv, WriteInv, SentInv, FilesInv, ProgramsInv
<1>. QED  BY <1>1, <1>2 DEF GatherInv

LEMMA GatherKeeps == ASSUME GatherInv, [G!Next]_(G!vars) PROVE GatherInv'
<1>1. CASE UNCHANGED G!vars
  BY <1>1, QuietStep DEF G!vars, G!world, GatherInv, GivenInv
<1>. QED
  BY <1>1, QuietActions, HttpKeeps, RedirectKeeps, WriteKeeps, CreateTempKeeps, RenameKeeps,
     ProgramsKeep, SQLiteQueryKeeps DEF G!Next

\* A path that is allowed begins with a declared one.
LEMMA AllowedBegins ==
    ASSUME manifest \in Manifests, NEW p \in G!Paths, G!WriteAllowed(p)
    PROVE  \E d \in manifest.paths : Len(p) >= Len(d.at) /\ SubSeq(p, 1, Len(d.at)) = d.at
<1>1. p \in Seq(STRING) /\ \A d \in manifest.paths : d.at \in Seq(STRING)
  BY GatherAssumption DEF G!Paths
<1>2. PICK d \in manifest.paths : p = d.at \/ G!IsPrefix(d.at, p)
  BY DEF G!WriteAllowed
<1>3. SubSeq(d.at, 1, Len(d.at)) = d.at /\ Len(d.at) \in Nat /\ Len(p) \in Nat
  BY <1>1, SubSeqFull
<1>4. CASE p = d.at
  BY <1>3, <1>4
<1>5. CASE G!IsPrefix(d.at, p)
  BY <1>3, <1>5 DEF G!IsPrefix
<1>. QED  BY <1>2, <1>4, <1>5

LEMMA GatherImplies == ASSUME GatherInv PROVE G!EffectsAreDeclared
<1>1. \A q \in sent :
        /\ "http" \in manifest.declares /\ q.host \in manifest.hosts
        /\ q.method \in G!MethodList \/ (q.hop > 0 /\ q.method = "GET")
  BY DEF GatherInv, SentInv, G!HostAllowed, G!MethodAllowed
<1>2. \A p \in G!Paths : vault[p] # Old =>
        /\ "write" \in manifest.declares
        /\ \E d \in manifest.paths : Len(p) >= Len(d.at) /\ SubSeq(p, 1, Len(d.at)) = d.at
  BY AllowedBegins DEF GatherInv, GivenInv, FilesInv
<1>. QED  BY <1>1, <1>2 DEF GatherInv, ProgramsInv, DisplayQuery, G!EffectsAreDeclared

-----------------------------------------------------------------------------
(* What a dry run lists.                                                     *)

Places == {"idle", "script", "http", "create", "rename", "run", "fetch", "ask", "ended"}

ScriptTyped ==
    /\ pc \in Places /\ (call \in Calls \cup {G!NoCall} \/ pc = "http")
    /\ hops \in 0..MaxHops /\ late \in BOOLEAN /\ cancelled \in BOOLEAN /\ (cancelled => late)
    /\ script \in Seq(Calls) /\ Len(script) <= MaxCalls /\ actions \in Seq(Calls)

\* The actions are those of the script so far that a dry run keeps from the world; the
\* result has them when the script has ended.
ListInv ==
    /\ IF dry THEN G!Lists(actions, script) ELSE actions = <<>>
    /\ result.ok => pc = "ended" /\ result.actions = actions

\* One more call, in the list or not.
LEMMA ListGrows ==
    ASSUME NEW list \in Seq(Calls), NEW calls \in Seq(Calls), NEW c \in Calls, G!Lists(list, calls)
    PROVE  /\ G!Mutates(c) => G!Lists(Append(list, c), Append(calls, c))
           /\ ~G!Mutates(c) => G!Lists(list, Append(calls, c))
<1>. DEFINE n == Len(list)
            m == Len(calls)
            more == Append(calls, c)
            longer == Append(list, c)
<1>1. /\ n \in Nat /\ m \in Nat /\ DOMAIN list = 1..n /\ DOMAIN calls = 1..m
      /\ DOMAIN more = 1..(m + 1) /\ more[m + 1] = c /\ \A k \in 1..m : more[k] = calls[k]
      /\ DOMAIN longer = 1..(n + 1) /\ longer[n + 1] = c /\ \A k \in 1..n : longer[k] = list[k]
  OBVIOUS
<1>2. PICK at \in [1..n -> 1..m] :
        /\ \A i, j \in 1..n : i < j => at[i] < at[j]
        /\ {at[i] : i \in 1..n} = {k \in 1..m : G!Mutates(calls[k])}
        /\ \A i \in 1..n : list[i] = calls[at[i]]
  BY <1>1, Zenon DEF G!Lists
<1>. HIDE DEF n, m, more, longer
<1>3. CASE G!Mutates(c)
  <2>. DEFINE to == [i \in 1..(n + 1) |-> IF i = n + 1 THEN m + 1 ELSE at[i]]
  <2>1. to \in [1..(n + 1) -> 1..(m + 1)]
    BY <1>1, <1>2
  <2>2. \A i, j \in 1..(n + 1) : i < j => to[i] < to[j]
    BY <1>1, <1>2
  <2>3. \A i \in 1..(n + 1) : longer[i] = more[to[i]]
    BY <1>1, <1>2
  <2>4. {to[i] : i \in 1..(n + 1)} = {k \in 1..(m + 1) : G!Mutates(more[k])}
    <3>1. ASSUME NEW i \in 1..(n + 1) PROVE to[i] \in 1..(m + 1) /\ G!Mutates(more[to[i]])
      <4>1. CASE i = n + 1
        BY <1>1, <1>3, <4>1
      <4>2. CASE i \in 1..n
        <5>1. to[i] = at[i] /\ at[i] \in 1..m
          BY <1>1, <1>2, <4>2
        <5>2. G!Mutates(calls[at[i]])
          BY <1>2, <4>2
        <5>3. more[to[i]] = calls[at[i]]
          BY <1>1, <5>1
        <5>. QED  BY <2>1, <5>2, <5>3
      <4>. QED  BY <1>1, <4>1, <4>2
    <3>2. ASSUME NEW k \in 1..(m + 1), G!Mutates(more[k]) PROVE \E i \in 1..(n + 1) : to[i] = k
      <4>1. CASE k = m + 1
        BY <1>1, <4>1
      <4>2. CASE k \in 1..m
        <5>1. calls[k] = more[k]
          BY <1>1, <4>2
        <5>2. k \in {at[i] : i \in 1..n}
          BY <1>2, <3>2, <4>2, <5>1
        <5>3. PICK i \in 1..n : at[i] = k
          BY <5>2
        <5>. QED  BY <1>1, <5>3
      <4>. QED  BY <1>1, <4>1, <4>2
    <3>. HIDE DEF to
    <3>. QED  BY <3>1, <3>2
  <2>. HIDE DEF to
  <2>5. G!Lists(longer, more)
    BY <1>1, <2>1, <2>2, <2>3, <2>4, Zenon DEF G!Lists
  <2>. QED  BY <1>3, <2>5 DEF longer, more
<1>4. CASE ~G!Mutates(c)
  <2>1. at \in [1..n -> 1..(m + 1)]
    BY <1>1, <1>2
  <2>2. \A i \in 1..n : list[i] = more[at[i]]
    BY <1>1, <1>2
  <2>3. {k \in 1..(m + 1) : G!Mutates(more[k])} = {k \in 1..m : G!Mutates(calls[k])}
    <3>1. ASSUME NEW k \in 1..(m + 1), G!Mutates(more[k]) PROVE k \in 1..m /\ G!Mutates(calls[k])
      <4>1. k # m + 1
        BY <1>1, <1>4, <3>1
      <4>2. k \in 1..m
        BY <1>1, <4>1
      <4>3. more[k] = calls[k]
        BY <1>1, <4>2
      <4>. QED  BY <3>1, <4>2, <4>3
    <3>2. ASSUME NEW k \in 1..m, G!Mutates(calls[k]) PROVE k \in 1..(m + 1) /\ G!Mutates(more[k])
      <4>1. more[k] = calls[k] /\ k \in 1..(m + 1)
        BY <1>1
      <4>. QED  BY <3>2, <4>1
    <3>. QED  BY <3>1, <3>2
  <2>4. G!Lists(list, more)
    BY <1>1, <1>2, <2>1, <2>2, <2>3, Zenon DEF G!Lists
  <2>. QED  BY <1>4, <2>4 DEF more
<1>. QED  BY <1>3, <1>4

\* What a step does to the script and the list.
Grows ==
    \E c \in Calls :
        /\ script' = Append(script, c) /\ Len(script) < MaxCalls
        /\ \/ actions' = actions /\ (dry => ~G!Mutates(c))
           \/ actions' = Append(actions, c) /\ dry /\ G!Mutates(c)

LEMMA CallsGrow ==
    ASSUME NEW c \in Calls,
           G!Http(c) \/ G!Secret(c) \/ G!Write(c) \/ G!RunCommand(c) \/ G!Fetch(c) \/ G!Ask(c)
             \/ G!SQLiteQuery(c) \/ G!Look(c)
    PROVE  UNCHANGED <<script, actions>> \/ Grows
<1>1. Len(script) < MaxCalls
  BY DEF G!Http, G!Secret, G!Write, G!RunCommand, G!Fetch, G!Ask, G!SQLiteQuery, G!Look, G!Makes
<1>2. CASE G!Http(c) \/ G!Write(c)
  BY <1>1, <1>2 DEF G!Http, G!Write, G!Compare, G!Makes, G!Raise, G!AddAction, G!Waits, G!Answered,
                    G!Mutates, Grows
<1>3. CASE G!Secret(c) \/ G!RunCommand(c) \/ G!Fetch(c) \/ G!Ask(c) \/ G!SQLiteQuery(c) \/ G!Look(c)
  BY <1>1, <1>3 DEF G!Secret, G!RunCommand, G!Fetch, G!Ask, G!SQLiteQuery, G!Look, G!Makes, G!Raise,
                    G!Waits, G!Answered, G!Mutates, Grows
<1>. QED  BY <1>2, <1>3

\* A script that has ended does nothing more; when it ends well, the result has the list.
LEMMA EndsOnce ==
    ASSUME G!Next
    PROVE  /\ pc # "ended" /\ (dry' <=> dry)
           /\ \/ UNCHANGED result
              \/ result' = G!NoResult
              \/ pc' = "ended" /\ UNCHANGED actions /\ result' = [ok |-> TRUE, actions |-> actions]
<1>1. dry' = dry
  BY GivenStays
<1>2. dry' <=> dry
  BY Zenon, <1>1
<1>3. /\ pc # "ended"
      /\ \/ UNCHANGED result
         \/ result' = G!NoResult
         \/ pc' = "ended" /\ UNCHANGED actions /\ result' = [ok |-> TRUE, actions |-> actions]
  BY DEF G!Next, G!GatherStar, G!End, G!Deadline, G!Cancel, G!Cancelled, G!Dies, G!Http, G!Secret, G!Write,
       G!Compare, G!RunCommand, G!Fetch, G!Ask, G!SQLiteQuery, G!Look, G!Redirect, G!HttpReturns,
       G!CreateTemp, G!Rename, G!CommandReturns, G!Rung, G!PrepareDisplay, G!FetchReturns, G!AskReturns, G!Makes, G!given,
       G!Raise, G!Returns, G!Waits, G!Answered, G!AddAction
<1>. QED  BY Zenon, <1>2, <1>3

LEMMA ScriptGrows == ASSUME G!Next PROVE UNCHANGED <<script, actions>> \/ Grows
<1>1. CASE \E c \in Calls : G!Http(c) \/ G!Secret(c) \/ G!Write(c) \/ G!RunCommand(c) \/ G!Fetch(c)
                              \/ G!Ask(c) \/ G!SQLiteQuery(c) \/ G!Look(c)
  BY <1>1, CallsGrow
<1>2. CASE ~\E c \in Calls : G!Http(c) \/ G!Secret(c) \/ G!Write(c) \/ G!RunCommand(c) \/ G!Fetch(c)
                               \/ G!Ask(c) \/ G!SQLiteQuery(c) \/ G!Look(c)
  BY <1>2 DEF G!Next, G!GatherStar, G!End, G!Deadline, G!Cancel, G!Cancelled, G!Dies, G!Redirect,
       G!HttpReturns, G!CreateTemp, G!Rename, G!CommandReturns, G!Rung, G!PrepareDisplay, G!FetchReturns, G!AskReturns,
       G!Raise, G!Returns
<1>. QED  BY <1>1, <1>2

LEMMA ListKeeps == ASSUME ScriptTyped, ListInv, [G!Next]_(G!vars) PROVE ListInv'
<1>1. CASE UNCHANGED G!vars
  <2>1. UNCHANGED <<dry, pc, script, actions, result>>
    BY <1>1 DEF G!vars
  <2>. QED  BY <2>1 DEF ListInv, G!Lists, G!Mutates
<1>2. CASE G!Next
  <2>1. /\ pc # "ended" /\ (dry' <=> dry)
        /\ \/ UNCHANGED result
           \/ result' = G!NoResult
           \/ pc' = "ended" /\ UNCHANGED actions /\ result' = [ok |-> TRUE, actions |-> actions]
    BY Zenon, <1>2, EndsOnce
  <2>2. result'.ok => pc' = "ended" /\ result'.actions = actions'
    BY <2>1 DEF ListInv, G!NoResult
  <2>3. dry => G!Lists(actions', script')
    <3>1. CASE UNCHANGED <<script, actions>>
      BY <3>1 DEF ListInv
    <3>2. CASE Grows
      BY <3>2, ListGrows DEF ListInv, ScriptTyped, Grows
    <3>. QED  BY <1>2, <3>1, <3>2, ScriptGrows
  <2>4. ~dry => actions' = <<>>
    BY <1>2, ScriptGrows DEF ListInv, Grows
  <2>5. IF dry' THEN G!Lists(actions', script') ELSE actions' = <<>>
    BY Zenon, <2>1, <2>3, <2>4
  <2>. QED  BY <2>2, <2>5, Zenon DEF ListInv, G!Lists, G!Mutates
<1>. QED  BY <1>1, <1>2

LEMMA ScriptTypedKeeps == ASSUME ScriptTyped, [G!Next]_(G!vars) PROVE ScriptTyped'
<1>1. CASE UNCHANGED G!vars
  BY <1>1 DEF G!vars, ScriptTyped
<1>2. CASE G!Next
  <2>1. script' \in Seq(Calls) /\ Len(script') <= MaxCalls /\ actions' \in Seq(Calls)
    <3>1. CASE UNCHANGED <<script, actions>>
      BY <3>1 DEF ScriptTyped
    <3>2. CASE Grows
      <4>1. PICK c \in Calls : /\ script' = Append(script, c) /\ Len(script) < MaxCalls
                               /\ (actions' = actions \/ actions' = Append(actions, c))
        BY <3>2 DEF Grows
      <4>2. script \in Seq(Calls) /\ actions \in Seq(Calls)
        BY DEF ScriptTyped
      <4>. QED  BY <4>1, <4>2, GatherAssumption
    <3>. QED  BY <1>2, <3>1, <3>2, ScriptGrows
  <2>2. late' \in BOOLEAN /\ cancelled' \in BOOLEAN /\ (cancelled' => late')
    <3>1. \/ late' = late /\ cancelled' = cancelled
          \/ late' = TRUE /\ cancelled' = cancelled
          \/ cancelled' = TRUE /\ late /\ late' = late
      BY <1>2 DEF G!Next, G!GatherStar, G!End, G!Deadline, G!Cancel, G!Cancelled, G!Dies,
         G!Http, G!Secret, G!Write, G!RunCommand, G!Fetch, G!Ask, G!SQLiteQuery, G!Look, G!Redirect,
         G!HttpReturns, G!CreateTemp, G!Rename, G!CommandReturns, G!Rung, G!PrepareDisplay, G!FetchReturns, G!AskReturns,
         G!Makes, G!given
    <3>2. late \in BOOLEAN /\ cancelled \in BOOLEAN /\ (cancelled => late)
      BY Zenon DEF ScriptTyped
    <3>3. CASE late' = late /\ cancelled' = cancelled
      BY Zenon, <3>2, <3>3
    <3>4. CASE late' = TRUE /\ cancelled' = cancelled
      <4>1. late' \in BOOLEAN /\ late'
        BY Zenon, <3>4
      <4>2. cancelled' \in BOOLEAN
        BY Zenon, <3>2, <3>4
      <4>. QED  BY Zenon, <4>1, <4>2
    <3>5. CASE cancelled' = TRUE /\ late /\ late' = late
      <4>1. cancelled' \in BOOLEAN
        BY Zenon, <3>5
      <4>2. late' \in BOOLEAN /\ late'
        BY Zenon, <3>2, <3>5
      <4>. QED  BY Zenon, <4>1, <4>2
    <3>. QED  BY Zenon, <3>1, <3>3, <3>4, <3>5
  <2>3. pc' \in Places /\ (call' \in Calls \cup {G!NoCall} \/ pc' = "http") /\ hops' \in 0..MaxHops
    <3>1. pc' \in Places /\ (call' \in Calls \cup {G!NoCall} \/ pc' = "http")
      <4>0. pc \in Places /\ (call \in Calls \cup {G!NoCall} \/ pc = "http")
        BY DEF ScriptTyped
      <4>1. CASE \/ G!GatherStar \/ G!End \/ G!Deadline \/ G!Cancel \/ G!Cancelled \/ G!Dies
                 \/ G!HttpReturns \/ G!CommandReturns \/ G!Rung \/ G!PrepareDisplay \/ G!FetchReturns \/ G!AskReturns
        BY <4>0, <4>1
           DEF Places, G!GatherStar, G!End, G!Deadline, G!Cancel, G!Cancelled, G!Dies,
             G!HttpReturns, G!CommandReturns, G!Rung, G!PrepareDisplay, G!FetchReturns, G!AskReturns, G!Raise, G!Returns
      <4>2. CASE G!CreateTemp \/ G!Rename \/ \E host \in Hosts, method \in {"GET", "POST"} : G!Redirect(host, method)
        BY <4>0, <4>2 DEF Places, G!Redirect, G!CreateTemp, G!Rename, G!Raise, G!Returns
      <4>3. ASSUME NEW c \in Calls, G!Http(c) \/ G!Write(c) PROVE pc' \in Places /\ (call' \in Calls \cup {G!NoCall} \/ pc' = "http")
        BY <4>0, <4>3 DEF Places, G!Http, G!Write, G!Compare, G!Makes, G!Raise, G!Waits, G!Answered, G!AddAction
      <4>4. ASSUME NEW c \in Calls,
                   G!Secret(c) \/ G!RunCommand(c) \/ G!Fetch(c) \/ G!Ask(c) \/ G!SQLiteQuery(c) \/ G!Look(c)
            PROVE  pc' \in Places /\ (call' \in Calls \cup {G!NoCall} \/ pc' = "http")
        BY <4>0, <4>4 DEF Places, G!Secret, G!RunCommand, G!Fetch, G!Ask, G!SQLiteQuery, G!Look, G!Makes,
                          G!Raise, G!Waits, G!Answered
      <4>. QED  BY <1>2, <4>1, <4>2, <4>3, <4>4 DEF G!Next
    <3>2. hops' = hops \/ hops' = 0 \/ (hops < MaxHops /\ hops' = hops + 1)
      BY <1>2
         DEF G!Next, G!GatherStar, G!End, G!Deadline, G!Cancel, G!Cancelled, G!Dies,
           G!Http, G!Secret, G!Write, G!Compare, G!RunCommand, G!Fetch, G!Ask, G!SQLiteQuery, G!Look,
           G!Redirect, G!Follows, G!HttpReturns, G!CreateTemp, G!Rename, G!CommandReturns, G!Rung, G!PrepareDisplay,
           G!FetchReturns, G!AskReturns, G!Raise, G!Returns, G!Waits, G!Answered, G!AddAction
    <3>3. hops \in 0..MaxHops /\ MaxHops \in Nat
      BY GatherAssumption DEF ScriptTyped
    <3>. QED  BY <3>1, <3>2, <3>3
  <2>. QED  BY <2>1, <2>2, <2>3 DEF ScriptTyped
<1>. QED  BY <1>1, <1>2

LEMMA ScriptInit == ASSUME G!Init PROVE ScriptTyped /\ ListInv
<1>1. /\ pc = "idle" /\ call = G!NoCall /\ hops = 0 /\ late = FALSE /\ cancelled = FALSE
      /\ actions = <<>> /\ script = <<>> /\ result = G!NoResult
  BY Zenon DEF G!Init
<1>2. ScriptTyped
  <2>1. late \in BOOLEAN /\ cancelled \in BOOLEAN /\ (cancelled => late)
    BY Zenon, <1>1
  <2>2. /\ pc \in Places /\ (call \in Calls \cup {G!NoCall} \/ pc = "http") /\ hops \in 0..MaxHops
        /\ script \in Seq(Calls) /\ Len(script) <= MaxCalls /\ actions \in Seq(Calls)
    BY <1>1, GatherAssumption DEF Places
  <2>. QED  BY Zenon, <2>1, <2>2 DEF ScriptTyped
<1>3. G!Lists(<<>>, <<>>)
  <2>1. DOMAIN <<>> = {}
    OBVIOUS
  <2>2. <<>> \in [{} -> {}]
    OBVIOUS
  <2>. QED  BY <2>1, <2>2 DEF G!Lists
<1>. QED  BY <1>1, <1>2, <1>3 DEF ListInv, G!NoResult

LEMMA ListImplies == ASSUME GatherInv, ScriptTyped, ListInv PROVE G!TypeOK /\ G!DryRunIsListed
<1>1. G!TypeOK
  BY DEF ScriptTyped, Places, G!TypeOK
<1>2. dry => /\ \A p \in G!Paths : vault[p] = Old
             /\ tmp = {} /\ ~bookmarks
             /\ \A q \in sent : q.method = "GET"
  BY DEF GatherInv, SentInv, FilesInv, ProgramsInv
<1>3. result.ok => IF dry THEN G!Lists(result.actions, script) ELSE result.actions = <<>>
  BY DEF ListInv
<1>. QED  BY <1>1, <1>2, <1>3 DEF G!DryRunIsListed

-----------------------------------------------------------------------------
LEMMA GatherMoves == ASSUME [ServeNext]_serveVars PROVE [G!Next]_(G!vars)
BY DEF ServeNext, serveVars, gatherVars, G!vars

GatherHolds == GatherInv /\ ScriptTyped /\ ListInv

LEMMA GatherHoldsAlways == ServeSpec => []GatherHolds
<1>1. ServeInit => GatherHolds
  BY GatherInitHolds, ScriptInit DEF ServeInit, GatherHolds
<1>2. GatherHolds /\ [ServeNext]_serveVars => GatherHolds'
  BY GatherMoves, GatherKeeps, ScriptTypedKeeps, ListKeeps DEF GatherHolds
<1>. QED  BY <1>1, <1>2, PTL DEF ServeSpec

\* "DECLARE OR STAY PURE": wherever servers redirect to, whatever fetch() starts and
\* whatever a statement goes on to say, a script does to the world what is declared; but
\* for the query of the display, before a declared browser opens a window that is allowed.
THEOREM EffectsAreDeclaredHolds == ServeSpec => []EffectsAreDeclared
<1>1. GatherHolds => EffectsAreDeclared
  BY GatherImplies, ListImplies DEF GatherHolds, EffectsAreDeclared
<1>. QED  BY GatherHoldsAlways, <1>1, PTL

\* A dry run changes no file, makes no bookmark and sends nothing but GETs, through
\* redirects too; and its list has each call that would have changed something, in their
\* order, and nothing else.
THEOREM DryRunIsListedHolds == ServeSpec => []DryRunIsListed
<1>1. GatherHolds => DryRunIsListed
  BY ListImplies DEF GatherHolds, DryRunIsListed
<1>. QED  BY GatherHoldsAlways, <1>1, PTL

-----------------------------------------------------------------------------
(* The deciders.                                                            *)

\* Numbers: a set of naturals has a least element, and a bounded one a greatest.
LEMMA Smallest == ASSUME NEW T \in SUBSET Nat, T # {} PROVE \E m \in T : \A n \in T : m <= n
<1>1. IsWellFoundedOn(OpToRel(<, Nat), Nat)
  BY NatLessThanWellFounded
<1>2. PICK x \in T : \A y \in T : ~ (<<y, x>> \in OpToRel(<, Nat))
  BY <1>1, WFMin
<1>3. \A y \in T : ~ (y < x)
  BY <1>2 DEF OpToRel
<1>. QED  BY <1>3

LEMMA Least == ASSUME NEW T \in SUBSET Nat, T # {} PROVE D!Min(T) \in T
BY Smallest DEF D!Min

LEMMA Greatest ==
    ASSUME NEW n \in Nat, NEW T \in SUBSET (0..n), T # {}
    PROVE  D!Max(T) \in T
<1>. DEFINE U == {m \in Nat : \E x \in T : m = n - x}
<1>1. U \in SUBSET Nat
  OBVIOUS
<1>2. U # {}
  <2>1. PICK x \in T : TRUE
    OBVIOUS
  <2>2. n - x \in Nat
    OBVIOUS
  <2>. QED  BY <2>1, <2>2
<1>3. PICK u \in U : \A v \in U : u <= v
  <2>. HIDE DEF U
  <2>. QED  BY <1>1, <1>2, Smallest
<1>4. PICK x \in T : u = n - x
  OBVIOUS
<1>5. ASSUME NEW y \in T PROVE x >= y
  <2>1. n - y \in U /\ x \in 0..n /\ y \in 0..n
    OBVIOUS
  <2>2. n - x <= n - y
    BY <1>3, <1>4, <2>1
  <2>. QED  BY <2>1, <2>2
<1>6. \E m \in T : \A y \in T : m >= y
  BY <1>5
<1>. QED  BY <1>6 DEF D!Max

\* Induction over the naturals, for a set.
LEMMA AllNaturals ==
    ASSUME NEW N \in SUBSET Nat, 0 \in N, \A n \in N : n + 1 \in N
    PROVE  N = Nat
<1>. SUFFICES ASSUME Nat \ N # {} PROVE FALSE
  OBVIOUS
<1>1. PICK m \in Nat \ N : \A n \in Nat \ N : m <= n
  BY Smallest
<1>2. m # 0 /\ m - 1 \in Nat /\ m - 1 \notin Nat \ N
  BY <1>1
<1>. QED  BY <1>1, <1>2

\* A function of numbers has a greatest value.
LEMMA Highest ==
    ASSUME NEW n \in Nat, n # 0, NEW f, \A i \in 1..n : f[i] \in Int
    PROVE  \E i \in 1..n : \A j \in 1..n : f[j] <= f[i]
<1>. DEFINE N == {m \in Nat : m \in 1..n => \E i \in 1..m : \A j \in 1..m : f[j] <= f[i]}
<1>1. 0 \in N
  OBVIOUS
<1>2. ASSUME NEW m \in N PROVE m + 1 \in N
  <2>. SUFFICES ASSUME m + 1 \in 1..n PROVE \E i \in 1..(m + 1) : \A j \in 1..(m + 1) : f[j] <= f[i]
    OBVIOUS
  <2>1. CASE m = 0
    BY <2>1
  <2>2. CASE m # 0
    <3>1. PICK i \in 1..m : \A j \in 1..m : f[j] <= f[i]
      BY <2>2
    <3>2. f[i] \in Int /\ f[m + 1] \in Int /\ \A j \in 1..m : f[j] \in Int
      OBVIOUS
    <3>3. CASE f[m + 1] <= f[i]
      BY <3>1, <3>3
    <3>4. CASE f[i] < f[m + 1]
      <4>1. \A j \in 1..m : f[j] <= f[m + 1]
        BY <3>1, <3>2, <3>4
      <4>2. \A j \in 1..(m + 1) : f[j] <= f[m + 1]
        BY <3>2, <4>1
      <4>. QED  BY <4>2
    <3>. QED  BY <3>2, <3>3, <3>4
  <2>. QED  BY <2>1, <2>2
<1>3. N = Nat
  <2>. HIDE DEF N
  <2>1. N \in SUBSET Nat
    BY DEF N
  <2>. QED  BY <1>1, <1>2, <2>1, AllNaturals
<1>4. n \in N /\ n \in 1..n
  <2>. HIDE DEF N
  <2>. QED  BY <1>3
<1>. QED  BY <1>4

LEMMA Counts == ASSUME NEW T PROVE D!Cardinality(T) = Cardinality(T)
BY DEF D!Cardinality, Cardinality

-----------------------------------------------------------------------------
\* The options that are asked over: those of the request, and `unknown`.
LEMMA AskedOver ==
    ASSUME NEW O, NEW options \in Seq(O)
    PROVE  /\ Len(D!WithUnknown(options)) \in Nat \ {0}
           /\ DOMAIN D!WithUnknown(options) = 1..Len(D!WithUnknown(options))
           /\ \A o \in D!Range(options) : o # "unknown" => o \in D!Range(D!WithUnknown(options))
<1>. DEFINE kept == {i \in DOMAIN options : options[i] # "unknown"}
            upto(i) == {j \in kept : j <= i}
            n == D!Cardinality(kept)
            s == [k \in 1..n |-> options[CHOOSE i \in kept : D!Cardinality(upto(i)) = k]]
            u == <<"unknown">>
<1>1. D!WithUnknown(options) = s \o u
  BY DEF D!WithUnknown, D!Unknown
<1>2. IsFiniteSet(kept) /\ n \in Nat /\ kept \subseteq Nat
  <2>1. IsFiniteSet(1..Len(options)) /\ kept \in SUBSET (1..Len(options))
    BY FS_Interval
  <2>2. IsFiniteSet(kept)
    BY <2>1, FS_Subset
  <2>. QED  BY <2>1, <2>2, FS_CardinalityType, Counts
<1>3. ASSUME NEW i \in kept
      PROVE  /\ IsFiniteSet(upto(i)) /\ D!Cardinality(upto(i)) \in 1..n
  <2>1. upto(i) \in SUBSET kept /\ i \in upto(i)
    BY <1>2
  <2>2. IsFiniteSet(upto(i)) /\ D!Cardinality(upto(i)) <= n
    BY <1>2, <2>1, FS_Subset, Counts
  <2>3. D!Cardinality(upto(i)) \in Nat /\ D!Cardinality(upto(i)) # 0
    BY <2>1, <2>2, FS_CardinalityType, FS_EmptySet, Counts
  <2>. QED  BY <1>2, <2>2, <2>3
<1>4. ASSUME NEW i \in kept, NEW j \in kept, D!Cardinality(upto(i)) = D!Cardinality(upto(j)), i <= j
      PROVE  i = j
  <2>1. upto(i) \in SUBSET upto(j)
    BY <1>2, <1>4
  <2>2. upto(i) = upto(j)
    BY <1>3, <1>4, <2>1, FS_Subset, Counts
  <2>. QED  BY <1>2, <1>4, <2>2
<1>5. ASSUME NEW i \in kept
      PROVE  D!Cardinality(upto(i)) \in 1..n /\ s[D!Cardinality(upto(i))] = options[i]
  <2>. DEFINE k == D!Cardinality(upto(i))
  <2>1. k \in 1..n
    BY <1>3
  <2>2. \A j \in kept : D!Cardinality(upto(j)) = k => j = i
    BY <1>2, <1>4
  <2>3. (CHOOSE j \in kept : D!Cardinality(upto(j)) = k) = i
    BY <2>2
  <2>. QED  BY <2>1, <2>3
<1>6. /\ Len(s \o u) = n + 1 /\ DOMAIN (s \o u) = 1..(n + 1)
      /\ \A k \in 1..n : (s \o u)[k] = s[k]
  <2>. DEFINE T == {s[k] : k \in 1..n} \cup {"unknown"}
  <2>1. s \in Seq(T) /\ Len(s) = n /\ u \in Seq(T) /\ Len(u) = 1
    <3>1. s \in [1..n -> T]
      OBVIOUS
    <3>. HIDE DEF s, n
    <3>. QED  BY <1>2, <3>1
  <2>. HIDE DEF s, n
  <2>. QED  BY <1>2, <2>1
<1>7. ASSUME NEW o \in D!Range(options), o # "unknown" PROVE o \in D!Range(s \o u)
  <2>1. PICK i \in DOMAIN options : o = options[i]
    BY DEF D!Range
  <2>2. i \in kept
    BY <1>7, <2>1
  <2>3. PICK k \in 1..n : s[k] = o
    BY <1>5, <2>1, <2>2
  <2>. HIDE DEF s, n
  <2>4. k \in DOMAIN (s \o u) /\ (s \o u)[k] = o
    BY <1>2, <1>6, <2>3
  <2>. QED  BY <2>4 DEF D!Range
<1>. HIDE DEF s, n
<1>. QED  BY <1>1, <1>2, <1>6, <1>7

LEMMA ArgMaxIsAnOption ==
    ASSUME NEW options, NEW n \in Nat \ {0}, DOMAIN options = 1..n,
           NEW dist, \A o \in DOMAIN dist : dist[o] \in Int
    PROVE  D!ArgMax(dist, options) \in D!Range(options)
<1>. DEFINE f == [i \in 1..n |-> D!Mass(dist, options[i])]
            best == {i \in DOMAIN options :
                       \A j \in DOMAIN options : D!Mass(dist, options[j]) <= D!Mass(dist, options[i])}
<1>1. \A i \in 1..n : f[i] \in Int
  BY DEF D!Mass
<1>2. \E i \in 1..n : \A j \in 1..n : f[j] <= f[i]
  <2>. HIDE DEF f
  <2>. QED  BY <1>1, Highest
<1>3. best \in SUBSET Nat /\ best # {}
  BY <1>2
<1>4. D!Min(best) \in best
  <2>. HIDE DEF best
  <2>. QED  BY <1>3, Least
<1>5. options # <<>>
  OBVIOUS
<1>6. D!ArgMax(dist, options) = options[D!Min(best)]
  BY <1>5 DEF D!ArgMax
<1>. QED  BY <1>4, <1>6 DEF D!Range

\* What a decision may be: not decided, or one of the options.
Fits(r, l) == r.kind # "score" => l = "unknown" \/ l \in D!Range(D!AskOptions(r))

LEMMA JevAnswersFit ==
    ASSUME NEW r \in Requests, NEW ans \in SystemAnswers
    PROVE  Fits(r, D!JevAnswer(r, ans).label)
<1>. SUFFICES ASSUME r.kind # "score", D!JevAnswer(r, ans).label # "unknown"
              PROVE  D!JevAnswer(r, ans).label \in D!Range(D!AskOptions(r))
  BY DEF Fits
<1>. DEFINE named == [o \in DOMAIN ans.dist \cap D!Range(r.options) |-> ans.dist[o]]
            yesNo == [yes |-> ans.dist["yes"], no |-> 100 - ans.dist["yes"]]
<1>1. r.options \in Seq(STRING) /\ \A o \in DOMAIN ans.dist : ans.dist[o] \in Nat
  BY DecisionAssumption
<1>2. CASE r.kind = "noul" /\ "yes" \in DOMAIN ans.dist
  <2>1. D!JevAnswer(r, ans).label = D!ArgMax(yesNo, <<"yes", "no">>)
    BY <1>2 DEF D!JevAnswer
  <2>2. DOMAIN <<"yes", "no">> = 1..2 /\ <<"yes", "no">> \in Seq({"yes", "no"}) /\ 2 \in Nat \ {0}
    OBVIOUS
  <2>3. ans.dist["yes"] \in Int
    BY <1>1, <1>2
  <2>4. \A o \in DOMAIN yesNo : yesNo[o] \in Int
    BY <2>3
  <2>5. D!ArgMax(yesNo, <<"yes", "no">>) \in D!Range(<<"yes", "no">>)
    <3>. HIDE DEF yesNo
    <3>. QED  BY <2>2, <2>4, ArgMaxIsAnOption
  <2>6. D!AskOptions(r) = D!WithUnknown(<<"yes", "no">>)
    BY <1>2 DEF D!AskOptions
  <2>. QED  BY <2>1, <2>2, <2>5, <2>6, AskedOver
<1>3. CASE r.kind = "choice" /\ DOMAIN named # {}
  <2>1. D!JevAnswer(r, ans).label = D!ArgMax(named, r.options)
    BY <1>3 DEF D!JevAnswer
  <2>2. r.options # <<>>
    BY <1>3 DEF D!Range
  <2>3. DOMAIN r.options = 1..Len(r.options) /\ Len(r.options) \in Nat \ {0}
    BY <1>1, <2>2
  <2>4. \A o \in DOMAIN named : named[o] \in Nat
    BY <1>1
  <2>5. D!ArgMax(named, r.options) \in D!Range(r.options)
    <3>. HIDE DEF named
    <3>. QED  BY <2>3, <2>4, ArgMaxIsAnOption
  <2>6. D!AskOptions(r) = D!WithUnknown(r.options)
    BY <1>3 DEF D!AskOptions
  <2>. QED  BY <1>1, <2>1, <2>5, <2>6, AskedOver
<1>4. CASE ~(r.kind = "noul" /\ "yes" \in DOMAIN ans.dist) /\ ~(r.kind = "choice" /\ DOMAIN named # {})
  <2>1. D!JevAnswer(r, ans) = [D!Nothing EXCEPT !.error = "bad response"]
    BY <1>4 DEF D!JevAnswer
  <2>2. D!JevAnswer(r, ans).label = "unknown"
    BY <2>1 DEF D!Nothing, D!Unknown
  <2>. QED  BY <2>2
<1>. QED  BY <1>2, <1>3, <1>4

LEMMA ChatAnswersFit ==
    ASSUME NEW r \in Requests, NEW c \in ChatAnswers
    PROVE  Fits(r, D!ChatAnswer(r, c).label)
<1>. SUFFICES ASSUME r.kind # "score", D!ChatAnswer(r, c).label # "unknown"
              PROVE  D!ChatAnswer(r, c).label \in D!Range(D!AskOptions(r))
  BY DEF Fits
<1>. DEFINE options == D!AskOptions(r)
            hits == D!ScanLogprobs(c.at)
            mass == c.at[D!Min(hits)]
            exact == {i \in DOMAIN c.words : c.words[i].is \in D!Range(options)}
            opens == {i \in DOMAIN c.words : c.words[i].opens \cap D!Range(options) # {}}
            first(T) == options[D!Min({i \in DOMAIN options : options[i] \in T})]
<1>1. Len(options) \in Nat \ {0} /\ DOMAIN options = 1..Len(options)
  <2>1. r.options \in Seq(STRING)
    BY DecisionAssumption
  <2>2. <<"yes", "no">> \in Seq({"yes", "no"})
    OBVIOUS
  <2>. QED  BY <2>1, <2>2, AskedOver DEF D!AskOptions
<1>2. /\ DOMAIN c.at \subseteq Nat /\ \A i \in DOMAIN c.at : \A o \in DOMAIN c.at[i] : c.at[i][o] \in Nat
      /\ c.words \in Seq([is : STRING, opens : SUBSET STRING])
  BY DecisionAssumption
<1>3. CASE hits # {}
  <2>1. D!ChatAnswer(r, c).label = D!ArgMax(mass, options)
    BY <1>3 DEF D!ChatAnswer
  <2>2. hits \in SUBSET Nat /\ hits \subseteq DOMAIN c.at
    BY <1>2 DEF D!ScanLogprobs
  <2>3. D!Min(hits) \in hits
    BY <1>3, <2>2, Least
  <2>4. \A o \in DOMAIN mass : mass[o] \in Int
    BY <1>2, <2>2, <2>3
  <2>5. D!ArgMax(mass, options) \in D!Range(options)
    <3>. HIDE DEF mass, options
    <3>. QED  BY <1>1, <2>4, ArgMaxIsAnOption
  <2>. QED  BY <2>1, <2>5
<1>4. CASE hits = {} /\ exact # {}
  <2>1. D!ChatAnswer(r, c).label = c.words[D!Max(exact)].is
    BY <1>4 DEF D!ChatAnswer
  <2>2. exact \in SUBSET (0..Len(c.words)) /\ Len(c.words) \in Nat
    BY <1>2
  <2>3. D!Max(exact) \in exact
    <3>. HIDE DEF exact
    <3>. QED  BY <1>4, <2>2, Greatest
  <2>. QED  BY <2>1, <2>3
<1>5. CASE hits = {} /\ exact = {} /\ opens # {}
  <2>1. D!ChatAnswer(r, c).label = first(c.words[D!Max(opens)].opens)
    BY <1>5 DEF D!ChatAnswer
  <2>2. opens \in SUBSET (0..Len(c.words)) /\ Len(c.words) \in Nat
    BY <1>2
  <2>3. D!Max(opens) \in opens
    <3>. HIDE DEF opens
    <3>. QED  BY <1>5, <2>2, Greatest
  <2>. DEFINE at == {i \in DOMAIN options : options[i] \in c.words[D!Max(opens)].opens}
  <2>4. at \in SUBSET Nat /\ at # {}
    <3>1. PICK o \in D!Range(options) : o \in c.words[D!Max(opens)].opens
      BY <2>3
    <3>2. PICK i \in DOMAIN options : o = options[i]
      BY <3>1 DEF D!Range
    <3>3. i \in at
      BY <3>1, <3>2
    <3>4. \A k \in DOMAIN options : k \in Nat
      <4>. HIDE DEF options
      <4>. QED  BY <1>1
    <3>. HIDE DEF options
    <3>. QED  BY <3>3, <3>4
  <2>5. D!Min(at) \in at
    <3>. HIDE DEF at
    <3>. QED  BY <2>4, Least
  <2>. QED  BY <2>1, <2>5 DEF D!Range
<1>6. CASE hits = {} /\ exact = {} /\ opens = {}
  <2>1. D!ChatAnswer(r, c) = D!Nothing
    BY <1>6 DEF D!ChatAnswer
  <2>2. D!Nothing.label = "unknown"
    BY DEF D!Nothing, D!Unknown
  <2>. QED  BY <2>1, <2>2
<1>. QED  BY <1>3, <1>4, <1>5, <1>6

-----------------------------------------------------------------------------
\* What an answer may say.
Labels ==
    {"unknown"} \cup {D!JevAnswer(r, ans).label : r \in Requests, ans \in SystemAnswers}
                \cup {D!ChatAnswer(r, c).label : r \in Requests, c \in ChatAnswers}

Record == [pc : {"idle", "count", "post", "trace"}, req : Requests \cup {<<>>},
           server : {"", "jev", "kev", "lemonade"}, again : BOOLEAN, sent : BOOLEAN,
           blind : BOOLEAN, label : Labels]

\* An asker: a request that is valid; at jev only what is public; and a decision that fits.
Asking(x) ==
    /\ x \in Record
    /\ x.pc = "idle" => x.server = ""
    /\ x.pc # "idle" => x.req \in Requests
    /\ x.pc = "count" => x.server = "jev"
    /\ x.server = "jev" => x.req.public
    /\ x.sent => x.pc = "trace" /\ x.server = "jev"
    /\ x.pc = "trace" => Fits(x.req, x.label)

\* A decision that counted the trace, has posted to jev, or will, and has no line yet; and
\* any under way.
InFlight(x) == x.server = "jev" /\ ~x.blind /\ (x.pc = "post" \/ (x.pc = "trace" /\ x.sent))
Flying(f) == {a \in Askers : InFlight(f[a])}
Busy(f) == {a \in Askers : f[a].pc # "idle"}

Lines ==
    /\ trace \in Nat /\ answered \in 0..trace /\ asks \in 0..MaxAsks /\ today \in 0..MaxDay
    /\ trace + Cardinality(Busy(asker)) <= asks
    /\ answered + Cardinality(Flying(asker)) <= DailyMax - 1 + Cardinality(Askers)
    /\ Flying(asker) # {} => DailyMax # 0

DecisionsInv == DOMAIN asker = Askers /\ (\A a \in Askers : Asking(asker[a])) /\ Lines

LEMMA AskersAreCounted ==
    ASSUME NEW T \in SUBSET Askers
    PROVE  IsFiniteSet(T) /\ Cardinality(T) \in Nat /\ Cardinality(T) <= Cardinality(Askers)
<1>1. IsFiniteSet(T) /\ Cardinality(T) <= Cardinality(Askers)
  BY DecisionAssumption, FS_Subset
<1>. QED  BY <1>1, FS_CardinalityType

LEMMA DecisionsImply ==
    ASSUME DecisionsInv
    PROVE  D!TypeOK /\ D!DecisionsAreSound /\ D!CallsOnRecordWithinCap
<1>1. Cardinality(Flying(asker)) \in Nat /\ Cardinality(Busy(asker)) \in Nat /\ Cardinality(Askers) \in Nat
  BY AskersAreCounted DEF Flying, Busy
<1>2. D!TypeOK
  <2>1. trace \in 0..MaxAsks
    BY <1>1, DecisionAssumption DEF DecisionsInv, Lines
  <2>. QED  BY <2>1 DEF DecisionsInv, Asking, Record, Lines, D!TypeOK
<1>3. D!CallsOnRecordWithinCap
  <2>1. answered <= DailyMax + Cardinality(Askers) - 1
    BY <1>1, DecisionAssumption DEF DecisionsInv, Lines
  <2>. QED  BY <2>1, Counts DEF D!CallsOnRecordWithinCap
<1>4. ASSUME NEW a \in Askers
      PROVE  /\ asker[a].pc = "trace" /\ asker[a].label # "unknown" /\ asker[a].req.kind # "score" =>
                  asker[a].label \in D!Range(D!AskOptions(asker[a].req))
             /\ (asker[a].pc = "post" /\ asker[a].server = "jev") \/ asker[a].sent => asker[a].req.public
  BY DEF DecisionsInv, Asking, Fits
<1>5. D!DecisionsAreSound
  BY <1>4 DEF D!DecisionsAreSound, D!Unknown
<1>. QED  BY <1>2, <1>3, <1>5

LEMMA DecisionsInitHold == ASSUME D!Init PROVE DecisionsInv
<1>1. /\ asker = [a \in Askers |-> D!AtRest] /\ trace = 0 /\ today = 0 /\ asks = 0 /\ answered = 0
  BY DEF D!Init
<1>2. Asking(D!AtRest) /\ D!AtRest.pc = "idle" /\ D!AtRest.server = ""
  <2>. DEFINE x == D!AtRest
  <2>0. D!Unknown \in Labels
    BY DEF D!Unknown, Labels
  <2>1. /\ x.pc = "idle" /\ x.server = "" /\ x.again = TRUE /\ x.sent = FALSE
        /\ x \in Record
    BY <2>0 DEF D!AtRest, Record
  <2>2. Asking(x)
    <3>. HIDE DEF x
    <3>. QED  BY <2>1 DEF Asking
  <2>. QED  BY <2>1, <2>2
<1>3. Busy(asker) = {} /\ Flying(asker) = {}
  BY <1>1, <1>2 DEF Busy, Flying, InFlight
<1>4. Cardinality({}) = 0 /\ Cardinality(Askers) \in Nat \ {0}
  BY DecisionAssumption, FS_EmptySet, FS_CardinalityType
<1>5. Lines
  <2>1. today \in 0..MaxDay /\ asks \in 0..MaxAsks /\ answered \in 0..trace /\ trace \in Nat
    BY <1>1, DecisionAssumption
  <2>2. trace + Cardinality(Busy(asker)) <= asks
    BY <1>1, <1>3, <1>4
  <2>3. answered + Cardinality(Flying(asker)) <= DailyMax - 1 + Cardinality(Askers)
    <3>1. DailyMax \in Nat
      BY DecisionAssumption
    <3>2. Cardinality(Flying(asker)) = 0 /\ answered = 0
      BY <1>1, <1>3, <1>4
    <3>. QED  BY <1>4, <3>1, <3>2
  <2>. QED  BY <1>3, <2>1, <2>2, <2>3 DEF Lines
<1>. QED  BY <1>1, <1>2, <1>5 DEF DecisionsInv

\* One asker moves.
LEMMA Counted ==
    ASSUME DecisionsInv, NEW a \in Askers, NEW x, asker' = [asker EXCEPT ![a] = x]
    PROVE  /\ DOMAIN asker' = Askers /\ asker'[a] = x
           /\ \A b \in Askers : b # a => asker'[b] = asker[b]
           /\ Flying(asker') = IF InFlight(x) THEN Flying(asker) \cup {a} ELSE Flying(asker) \ {a}
           /\ Busy(asker') = IF x.pc # "idle" THEN Busy(asker) \cup {a} ELSE Busy(asker) \ {a}
<1>1. /\ DOMAIN asker' = Askers /\ asker'[a] = x
      /\ \A b \in Askers : b # a => asker'[b] = asker[b]
  BY DEF DecisionsInv
<1>. QED  BY <1>1 DEF Flying, Busy

LEMMA AskerMoves ==
    ASSUME DecisionsInv, NEW a \in Askers, NEW x, asker' = [asker EXCEPT ![a] = x], Asking(x),
           UNCHANGED <<trace, today, asks, answered>>,
           x.pc # "idle" => asker[a].pc # "idle",
           InFlight(x) => InFlight(asker[a]) \/ trace < DailyMax
    PROVE  DecisionsInv'
<1>1. /\ DOMAIN asker' = Askers /\ asker'[a] = x
      /\ \A b \in Askers : b # a => asker'[b] = asker[b]
      /\ Flying(asker') = IF InFlight(x) THEN Flying(asker) \cup {a} ELSE Flying(asker) \ {a}
      /\ Busy(asker') = IF x.pc # "idle" THEN Busy(asker) \cup {a} ELSE Busy(asker) \ {a}
  BY Counted
<1>2. /\ Busy(asker) \in SUBSET Askers /\ Flying(asker) \in SUBSET Askers
      /\ Busy(asker') \in SUBSET Askers /\ Flying(asker') \in SUBSET Askers
  BY DEF Busy, Flying
<1>3. /\ Cardinality(Busy(asker)) \in Nat /\ Cardinality(Flying(asker)) \in Nat
      /\ Cardinality(Busy(asker')) \in Nat /\ Cardinality(Flying(asker')) \in Nat
      /\ IsFiniteSet(Busy(asker)) /\ IsFiniteSet(Flying(asker)) /\ IsFiniteSet(Askers)
      /\ Cardinality(Askers) \in Nat /\ Cardinality(Flying(asker')) <= Cardinality(Askers)
  BY <1>2, AskersAreCounted
<1>4. Busy(asker') \in SUBSET Busy(asker)
  BY <1>1 DEF Busy
<1>5. Cardinality(Busy(asker')) <= Cardinality(Busy(asker))
  BY <1>3, <1>4, FS_Subset
<1>6. /\ answered + Cardinality(Flying(asker')) <= DailyMax - 1 + Cardinality(Askers)
      /\ Flying(asker') # {} => DailyMax # 0
  <2>0. /\ answered \in Nat /\ trace \in Nat /\ answered <= trace /\ DailyMax \in Nat
        /\ answered + Cardinality(Flying(asker)) <= DailyMax - 1 + Cardinality(Askers)
        /\ Flying(asker) # {} => DailyMax # 0
    BY DecisionAssumption DEF DecisionsInv, Lines
  <2>1. CASE trace < DailyMax
    BY <1>3, <2>0, <2>1
  <2>2. CASE ~(trace < DailyMax)
    <3>1. Flying(asker') \in SUBSET Flying(asker)
      BY <1>1, <2>2 DEF Flying
    <3>2. Cardinality(Flying(asker')) <= Cardinality(Flying(asker))
      BY <1>3, <3>1, FS_Subset
    <3>3. answered + Cardinality(Flying(asker')) <= DailyMax - 1 + Cardinality(Askers)
      BY <1>3, <2>0, <3>2
    <3>. QED  BY <2>0, <3>1, <3>3
  <2>. QED  BY <2>1, <2>2
<1>7. Lines'
  <2>1. trace + Cardinality(Busy(asker)) <= asks /\ trace \in Nat /\ asks \in Nat
    BY DEF DecisionsInv, Lines
  <2>2. trace + Cardinality(Busy(asker')) <= asks
    BY <1>3, <1>5, <2>1
  <2>. QED  BY <1>6, <2>2 DEF DecisionsInv, Lines
<1>8. \A b \in Askers : Asking(asker'[b])
  BY <1>1 DEF DecisionsInv
<1>. QED  BY <1>1, <1>7, <1>8 DEF DecisionsInv

\* An answer, or a failure: a second try at the fallback, or a decision.
LEMMA AnsweredKeeps ==
    ASSUME DecisionsInv, NEW a \in Askers, NEW res, res.label \in Labels, Fits(asker[a].req, res.label),
           asker[a].pc \in {"count", "post"}, D!Answered(a, res),
           UNCHANGED <<trace, today, asks, answered>>
    PROVE  DecisionsInv'
<1>. DEFINE o == asker[a]
            again == [o EXCEPT !.pc = "post", !.server = "kev", !.again = TRUE, !.sent = FALSE]
            posted == o.pc = "post" /\ o.server = "jev"
            done == [o EXCEPT !.pc = "trace", !.label = D!Settled(o.req, res), !.sent = posted]
            x == IF o.server = "jev" /\ D!FallsBack(o.req, res.error) THEN again ELSE done
<1>1. asker' = [asker EXCEPT ![a] = x]
  BY DEF D!Answered, D!Set
<1>2. Asking(o)
  BY DEF DecisionsInv
<1>3. Fits(o.req, D!Settled(o.req, res)) /\ D!Settled(o.req, res) \in Labels
  <2>1. D!Settled(o.req, res) \in {"unknown", res.label}
    BY DEF D!Settled, D!Unknown
  <2>2. "unknown" \in Labels /\ Fits(o.req, "unknown")
    BY DEF Labels, Fits
  <2>. QED  BY <2>1, <2>2
<1>4. /\ again.pc = "post" /\ again.server = "kev" /\ again.again = TRUE /\ again.sent = FALSE
      /\ again.req = o.req /\ again.label = o.label
      /\ again \in Record
  BY <1>2 DEF Asking, Record
<1>5. /\ done.pc = "trace" /\ done.server = o.server /\ done.again = o.again /\ (done.sent <=> posted)
      /\ done.sent \in BOOLEAN /\ done.blind = o.blind
      /\ done.req = o.req /\ done.label = D!Settled(o.req, res)
      /\ done \in Record
  BY <1>2, <1>3 DEF Asking, Record
<1>6. Asking(again) /\ ~InFlight(again) /\ again.pc # "idle"
  <2>. HIDE DEF again
  <2>. QED  BY <1>2, <1>4 DEF Asking, InFlight
<1>7. Asking(done) /\ (InFlight(done) => InFlight(o)) /\ done.pc # "idle"
  <2>. HIDE DEF done
  <2>. QED  BY <1>2, <1>3, <1>5 DEF Asking, InFlight
<1>8. Asking(x) /\ (InFlight(x) => InFlight(o)) /\ x.pc # "idle" /\ o.pc # "idle"
  <2>. HIDE DEF again, done
  <2>. QED  BY <1>6, <1>7
<1>. HIDE DEF x
<1>. QED  BY <1>1, <1>8, AskerMoves

LEMMA NothingFits ==
    ASSUME NEW r, NEW error
    PROVE  LET res == [D!Nothing EXCEPT !.error = error]
           IN  res.label \in Labels /\ Fits(r, res.label)
<1>1. [D!Nothing EXCEPT !.error = error].label = "unknown"
  BY DEF D!Nothing, D!Unknown
<1>. QED  BY <1>1 DEF Fits, Labels

LEMMA CountKeeps == ASSUME DecisionsInv, NEW a \in Askers, D!Count(a) PROVE DecisionsInv'
<1>0. PICK lines \in D!Counted :
        \/ D!Fails(a, "not configured")
        \/ D!Fails(a, "daily cap")
        \/ /\ ~(lines >= DailyMax)
           /\ asker' = [asker EXCEPT ![a] = [asker[a] EXCEPT !.pc = "post", !.blind = lines # trace]]
  BY DEF D!Count, D!OverCap, D!Set
<1>. DEFINE x == [asker[a] EXCEPT !.pc = "post", !.blind = lines # trace]
<1>1. /\ asker[a].pc = "count" /\ UNCHANGED <<trace, today, asks, answered>>
      /\ \/ D!Fails(a, "not configured")
         \/ D!Fails(a, "daily cap")
         \/ ~(lines >= DailyMax) /\ asker' = [asker EXCEPT ![a] = x]
  BY <1>0 DEF D!Count
<1>2. Asking(asker[a])
  BY DEF DecisionsInv
<1>3. Asking(x) /\ x.pc # "idle"
  <2>1. /\ x.pc = "post" /\ x.req = asker[a].req /\ x.server = asker[a].server
        /\ x.again = asker[a].again /\ x.sent = asker[a].sent /\ x.label = asker[a].label
        /\ x \in Record
    BY <1>2 DEF Asking, Record
  <2>. HIDE DEF x
  <2>. QED  BY <1>1, <1>2, <2>1 DEF Asking
<1>4. ~(lines >= DailyMax) => ~InFlight(x) \/ trace < DailyMax
  <2>1. x.blind <=> lines # trace
    BY <1>2 DEF Asking, Record
  <2>2. trace \in Nat /\ DailyMax \in Nat
    BY DecisionAssumption DEF DecisionsInv, Lines
  <2>. HIDE DEF x
  <2>. QED  BY <2>1, <2>2 DEF InFlight
<1>. HIDE DEF x
<1>5. CASE ~(lines >= DailyMax) /\ asker' = [asker EXCEPT ![a] = x]
  BY <1>1, <1>3, <1>4, <1>5, AskerMoves
<1>6. ASSUME NEW error, D!Fails(a, error) PROVE DecisionsInv'
  <2>1. asker[a].pc \in {"count", "post"} /\ D!Answered(a, [D!Nothing EXCEPT !.error = error])
    BY <1>1, <1>6 DEF D!Fails
  <2>. QED  BY <1>1, <2>1, NothingFits, AnsweredKeeps
<1>. QED  BY Zenon, <1>1, <1>5, <1>6

\* What is waited out, or sent once more.
LEMMA AgainKeeps ==
    ASSUME DecisionsInv, NEW a \in Askers, asker[a].pc = "post",
           D!Set(a, [asker[a] EXCEPT !.again = FALSE]), UNCHANGED <<trace, today, asks, answered>>
    PROVE  DecisionsInv'
<1>. DEFINE x == [asker[a] EXCEPT !.again = FALSE]
<1>1. asker' = [asker EXCEPT ![a] = x]
  BY DEF D!Set
<1>2. Asking(asker[a])
  BY DEF DecisionsInv
<1>3. /\ x.pc = "post" /\ x.req = asker[a].req /\ x.server = asker[a].server
      /\ x.again = FALSE /\ x.sent = asker[a].sent /\ x.label = asker[a].label
      /\ x.blind = asker[a].blind /\ x \in Record
  BY <1>1, <1>2 DEF Asking, Record
<1>. HIDE DEF x
<1>4. Asking(x) /\ (InFlight(x) => InFlight(asker[a]))
  BY <1>2, <1>3 DEF Asking, InFlight
<1>. QED  BY <1>1, <1>3, <1>4, AskerMoves

LEMMA PostSystemOneKeeps == ASSUME DecisionsInv, NEW a \in Askers, D!PostSystemOne(a) PROVE DecisionsInv'
<1>1. /\ asker[a].pc = "post" /\ UNCHANGED <<trace, today, asks, answered>>
      /\ \/ \E error \in Failures \cup {"rate limited"} : D!Fails(a, error)
         \/ \E ans \in SystemAnswers : D!Answered(a, D!JevAnswer(asker[a].req, ans))
         \/ D!Set(a, [asker[a] EXCEPT !.again = FALSE])
  BY DEF D!PostSystemOne
<1>2. asker[a].req \in Requests
  BY <1>1 DEF DecisionsInv, Asking
<1>3. ASSUME NEW ans \in SystemAnswers, D!Answered(a, D!JevAnswer(asker[a].req, ans)) PROVE DecisionsInv'
  <2>1. /\ Fits(asker[a].req, D!JevAnswer(asker[a].req, ans).label)
        /\ D!JevAnswer(asker[a].req, ans).label \in Labels
    BY <1>2, JevAnswersFit DEF Labels
  <2>. QED  BY <1>1, <1>3, <2>1, AnsweredKeeps
<1>4. ASSUME NEW error, D!Fails(a, error) PROVE DecisionsInv'
  <2>1. asker[a].pc \in {"count", "post"} /\ D!Answered(a, [D!Nothing EXCEPT !.error = error])
    BY <1>1, <1>4 DEF D!Fails
  <2>. QED  BY <1>1, <2>1, NothingFits, AnsweredKeeps
<1>5. CASE D!Set(a, [asker[a] EXCEPT !.again = FALSE])
  BY <1>1, <1>5, AgainKeeps
<1>. QED  BY <1>1, <1>3, <1>4, <1>5

LEMMA PostChatKeeps == ASSUME DecisionsInv, NEW a \in Askers, D!PostChat(a) PROVE DecisionsInv'
<1>1. /\ asker[a].pc = "post" /\ UNCHANGED <<trace, today, asks, answered>>
      /\ \/ \E error \in Failures : D!Fails(a, error)
         \/ \E c \in ChatAnswers : D!Answered(a, D!ChatAnswer(asker[a].req, c))
         \/ D!Set(a, [asker[a] EXCEPT !.again = FALSE])
  BY DEF D!PostChat
<1>2. asker[a].req \in Requests
  BY <1>1 DEF DecisionsInv, Asking
<1>3. ASSUME NEW c \in ChatAnswers, D!Answered(a, D!ChatAnswer(asker[a].req, c)) PROVE DecisionsInv'
  <2>1. /\ Fits(asker[a].req, D!ChatAnswer(asker[a].req, c).label)
        /\ D!ChatAnswer(asker[a].req, c).label \in Labels
    BY <1>2, ChatAnswersFit DEF Labels
  <2>. QED  BY <1>1, <1>3, <2>1, AnsweredKeeps
<1>4. ASSUME NEW error, D!Fails(a, error) PROVE DecisionsInv'
  <2>1. asker[a].pc \in {"count", "post"} /\ D!Answered(a, [D!Nothing EXCEPT !.error = error])
    BY <1>1, <1>4 DEF D!Fails
  <2>. QED  BY <1>1, <2>1, NothingFits, AnsweredKeeps
<1>5. CASE D!Set(a, [asker[a] EXCEPT !.again = FALSE])
  BY <1>1, <1>5, AgainKeeps
<1>. QED  BY <1>1, <1>3, <1>4, <1>5

LEMMA RestIsAsking == Asking(D!AtRest) /\ D!AtRest.pc = "idle" /\ ~InFlight(D!AtRest)
<1>. DEFINE x == D!AtRest
<1>0. D!Unknown \in Labels
  BY DEF D!Unknown, Labels
<1>1. /\ x.pc = "idle" /\ x.server = "" /\ x.again = TRUE /\ x.sent = FALSE
      /\ x \in Record
  BY <1>0 DEF D!AtRest, Record
<1>2. Asking(x) /\ x.pc = "idle" /\ ~InFlight(x)
  <2>. HIDE DEF x
  <2>. QED  BY <1>1 DEF Asking, InFlight
<1>. QED  BY <1>2

LEMMA AskKeeps ==
    ASSUME DecisionsInv, NEW a \in Askers, NEW r \in Requests, D!Ask(a, r)
    PROVE  DecisionsInv'
<1>. DEFINE remote == [D!AtRest EXCEPT !.pc = "count", !.req = r, !.server = "jev"]
            local == [D!AtRest EXCEPT !.pc = "post", !.req = r, !.server = D!LocalEndpoint(r)]
            x == IF D!ResolveRoute(r) = "jev" THEN remote ELSE local
<1>1. /\ asker[a].pc = "idle" /\ asks < MaxAsks /\ asks' = asks + 1
      /\ r.route = "jev" => r.public
      /\ asker' = [asker EXCEPT ![a] = x]
      /\ UNCHANGED <<trace, today, answered>>
  BY DEF D!Ask, D!Validate, D!Set
<1>2. D!ResolveRoute(r) = "jev" => r.public
  BY <1>1 DEF D!ResolveRoute
<1>3. D!AtRest \in Record /\ D!AtRest.sent = FALSE
  BY RestIsAsking DEF Asking, D!AtRest
<1>4. remote \in Record /\ remote.pc = "count" /\ remote.server = "jev" /\ remote.req = r /\ remote.sent = FALSE
  BY <1>3 DEF Record
<1>5. D!LocalEndpoint(r) \in {"kev", "lemonade"}
  BY DEF D!LocalEndpoint
<1>6. /\ local \in Record /\ local.pc = "post" /\ local.server \in {"kev", "lemonade"} /\ local.req = r
      /\ local.sent = FALSE
  BY <1>3, <1>5 DEF Record
<1>7. Asking(x) /\ ~InFlight(x) /\ x.pc # "idle"
  <2>1. CASE D!ResolveRoute(r) = "jev"
    <3>1. x = remote
      BY <2>1
    <3>. HIDE DEF x, remote
    <3>. QED  BY <1>2, <1>4, <2>1, <3>1 DEF Asking, InFlight
  <2>2. CASE D!ResolveRoute(r) # "jev"
    <3>1. x = local
      BY <2>2
    <3>. HIDE DEF x, local
    <3>. QED  BY <1>6, <3>1 DEF Asking, InFlight
  <2>. QED  BY <2>1, <2>2
<1>. HIDE DEF x
<1>8. /\ DOMAIN asker' = Askers /\ asker'[a] = x
      /\ \A b \in Askers : b # a => asker'[b] = asker[b]
      /\ Flying(asker') = IF InFlight(x) THEN Flying(asker) \cup {a} ELSE Flying(asker) \ {a}
      /\ Busy(asker') = IF x.pc # "idle" THEN Busy(asker) \cup {a} ELSE Busy(asker) \ {a}
  BY <1>1, Counted
<1>9. Busy(asker') = Busy(asker) \cup {a} /\ a \notin Busy(asker) /\ Flying(asker') = Flying(asker) \ {a}
  BY <1>1, <1>7, <1>8 DEF Busy
<1>10. /\ Busy(asker) \in SUBSET Askers /\ Flying(asker) \in SUBSET Askers
       /\ Flying(asker') \in SUBSET Flying(asker) /\ Flying(asker') \in SUBSET Askers
  BY <1>9 DEF Busy, Flying
<1>11. /\ IsFiniteSet(Busy(asker)) /\ IsFiniteSet(Flying(asker))
       /\ Cardinality(Busy(asker)) \in Nat /\ Cardinality(Flying(asker)) \in Nat
       /\ Cardinality(Flying(asker')) \in Nat /\ Cardinality(Askers) \in Nat
  BY <1>10, AskersAreCounted
<1>12. Cardinality(Busy(asker')) = Cardinality(Busy(asker)) + 1
  BY <1>9, <1>11, FS_AddElement
<1>13. Cardinality(Flying(asker')) <= Cardinality(Flying(asker))
  BY <1>10, <1>11, FS_Subset
<1>14. Lines'
  <2>1. /\ trace \in Nat /\ asks \in 0..MaxAsks /\ DailyMax \in Nat /\ MaxAsks \in Nat /\ answered \in 0..trace
        /\ trace + Cardinality(Busy(asker)) <= asks
        /\ answered + Cardinality(Flying(asker)) <= DailyMax - 1 + Cardinality(Askers)
    BY DecisionAssumption DEF DecisionsInv, Lines
  <2>2. trace + Cardinality(Busy(asker')) <= asks + 1 /\ asks + 1 \in 0..MaxAsks
    BY <1>1, <1>11, <1>12, <2>1
  <2>3. answered + Cardinality(Flying(asker')) <= DailyMax - 1 + Cardinality(Askers)
    BY <1>11, <1>13, <2>1
  <2>. QED  BY <1>1, <1>10, <2>2, <2>3 DEF DecisionsInv, Lines
<1>15. \A b \in Askers : Asking(asker'[b])
  BY <1>7, <1>8 DEF DecisionsInv
<1>. QED  BY <1>8, <1>14, <1>15 DEF DecisionsInv

LEMMA TraceKeeps == ASSUME DecisionsInv, NEW a \in Askers, D!Trace(a) PROVE DecisionsInv'
<1>. DEFINE line == IF asker[a].server = "jev" THEN 1 ELSE 0
            posted == IF asker[a].server = "jev" /\ asker[a].sent /\ ~asker[a].blind THEN 1 ELSE 0
<1>1. /\ asker[a].pc = "trace" /\ trace' = trace + line /\ answered' = answered + posted
      /\ asker' = [asker EXCEPT ![a] = D!AtRest] /\ UNCHANGED <<today, asks>>
  BY DEF D!Trace, D!Set
<1>2. /\ DOMAIN asker' = Askers /\ asker'[a] = D!AtRest
      /\ \A b \in Askers : b # a => asker'[b] = asker[b]
      /\ Flying(asker') = Flying(asker) \ {a} /\ Busy(asker') = Busy(asker) \ {a}
  BY <1>1, Counted, RestIsAsking
<1>3. /\ Busy(asker) \in SUBSET Askers /\ Flying(asker) \in SUBSET Askers
      /\ a \in Busy(asker)
      /\ a \in Flying(asker) <=> asker[a].server = "jev" /\ asker[a].sent /\ ~asker[a].blind
  BY <1>1 DEF Busy, Flying, InFlight
<1>4. /\ IsFiniteSet(Busy(asker)) /\ IsFiniteSet(Flying(asker))
      /\ Cardinality(Busy(asker)) \in Nat /\ Cardinality(Flying(asker)) \in Nat
      /\ Cardinality(Askers) \in Nat
  BY <1>3, AskersAreCounted
<1>5. Cardinality(Busy(asker')) = Cardinality(Busy(asker)) - 1
  BY <1>2, <1>3, <1>4, FS_RemoveElement
<1>6. Cardinality(Flying(asker')) = Cardinality(Flying(asker)) - posted
  <2>1. CASE a \in Flying(asker)
    <3>1. posted = 1
      BY <1>3, <2>1
    <3>2. Cardinality(Flying(asker) \ {a}) = Cardinality(Flying(asker)) - 1
      BY <1>4, <2>1, FS_RemoveElement
    <3>. QED  BY <1>2, <3>1, <3>2
  <2>2. CASE a \notin Flying(asker)
    <3>1. posted = 0 /\ Flying(asker') = Flying(asker)
      BY <1>2, <1>3, <2>2
    <3>. QED  BY <1>4, <3>1
  <2>. QED  BY <2>1, <2>2
<1>7. Lines'
  <2>1. /\ trace \in Nat /\ asks \in 0..MaxAsks /\ DailyMax \in Nat /\ answered \in 0..trace
        /\ trace + Cardinality(Busy(asker)) <= asks
        /\ answered + Cardinality(Flying(asker)) <= DailyMax - 1 + Cardinality(Askers)
    BY DecisionAssumption DEF DecisionsInv, Lines
  <2>2. line \in 0..1 /\ posted \in 0..line
    OBVIOUS
  <2>. HIDE DEF line, posted
  <2>3. trace' \in Nat /\ answered' \in 0..trace'
    BY <1>1, <2>1, <2>2
  <2>4. trace' + Cardinality(Busy(asker')) <= asks
    BY <1>1, <1>4, <1>5, <2>1, <2>2
  <2>5. answered' + Cardinality(Flying(asker')) <= DailyMax - 1 + Cardinality(Askers)
    BY <1>1, <1>4, <1>6, <2>1, <2>2
  <2>6. Flying(asker') # {} => DailyMax # 0
    BY <1>2 DEF DecisionsInv, Lines
  <2>. QED  BY <1>1, <2>3, <2>4, <2>5, <2>6 DEF DecisionsInv, Lines
<1>8. \A b \in Askers : Asking(asker'[b])
  BY <1>2, RestIsAsking DEF DecisionsInv
<1>. QED  BY <1>2, <1>7, <1>8 DEF DecisionsInv

LEMMA UntracedKeeps == ASSUME DecisionsInv, NEW a \in Askers, D!Untraced(a) PROVE DecisionsInv'
<1>1. asker' = [asker EXCEPT ![a] = D!AtRest] /\ UNCHANGED <<trace, today, asks, answered>>
  BY DEF D!Untraced, D!Set
<1>. QED  BY <1>1, RestIsAsking, AskerMoves

LEMMA MidnightKeeps == ASSUME DecisionsInv, D!Midnight PROVE DecisionsInv'
<1>1. /\ today < MaxDay /\ today' = today + 1 /\ trace' = 0 /\ answered' = 0 /\ UNCHANGED <<asker, asks>>
  BY DEF D!Midnight
<1>2. Flying(asker) \in SUBSET Askers /\ Busy(asker) \in SUBSET Askers
  BY DEF Flying, Busy
<1>3. Cardinality(Busy(asker)) \in Nat /\ Cardinality(Flying(asker)) \in Nat /\ Cardinality(Askers) \in Nat
  BY <1>2, AskersAreCounted
<1>4. Flying(asker') = Flying(asker) /\ Busy(asker') = Busy(asker)
  BY <1>1
<1>5. Lines'
  <2>1. /\ trace \in Nat /\ asks \in 0..MaxAsks /\ DailyMax \in Nat /\ answered \in 0..trace
        /\ today \in 0..MaxDay /\ MaxDay \in Nat
        /\ trace + Cardinality(Busy(asker)) <= asks
        /\ answered + Cardinality(Flying(asker)) <= DailyMax - 1 + Cardinality(Askers)
    BY DecisionAssumption DEF DecisionsInv, Lines
  <2>2. 0 + Cardinality(Busy(asker)) <= asks
    BY <1>3, <2>1
  <2>3. 0 + Cardinality(Flying(asker)) <= DailyMax - 1 + Cardinality(Askers)
    BY <1>3, <2>1
  <2>4. today' \in 0..MaxDay
    BY <1>1, <2>1
  <2>5. trace' \in Nat /\ answered' \in 0..trace' /\ asks' \in 0..MaxAsks
    BY <1>1, <2>1
  <2>. QED  BY <1>1, <1>4, <2>2, <2>3, <2>4, <2>5 DEF DecisionsInv, Lines
<1>. QED  BY <1>1, <1>5 DEF DecisionsInv

LEMMA DecisionsKeep == ASSUME DecisionsInv, [D!Next]_(D!vars) PROVE DecisionsInv'
<1>1. CASE UNCHANGED D!vars
  <2>1. UNCHANGED <<asker, trace, today, asks, answered>>
    BY <1>1 DEF D!vars
  <2>. QED  BY <2>1 DEF DecisionsInv, Lines
<1>2. ASSUME NEW a \in Askers, NEW r \in Requests, D!Ask(a, r) PROVE DecisionsInv'
  BY <1>2, AskKeeps
<1>3. ASSUME NEW a \in Askers,
             D!Count(a) \/ D!PostSystemOne(a) \/ D!PostChat(a) \/ D!Trace(a) \/ D!Untraced(a)
      PROVE  DecisionsInv'
  BY <1>3, CountKeeps, PostSystemOneKeeps, PostChatKeeps, TraceKeeps, UntracedKeeps
<1>4. CASE D!Midnight
  BY <1>4, MidnightKeeps
<1>. QED  BY <1>1, <1>2, <1>3, <1>4 DEF D!Next

-----------------------------------------------------------------------------
LEMMA DecisionsMove == ASSUME [ServeNext]_serveVars PROVE [D!Next]_(D!vars)
BY DEF ServeNext, serveVars, decideVars, D!vars

\* decide/ask.go: what a decider answers, in numbers or in words, first try or fallback,
\* what is decided is one of the options asked for or `unknown`, a private request is never
\* posted to jev, and jev's lines of a day are within the cap but for one per asker and those
\* that could not read the trace.  For
\* any number of askers, requests and answers.
THEOREM DecisionsKeepTheRulesHolds == ServeSpec => []DecisionsKeepTheRules
<1>1. ServeInit => DecisionsInv
  BY DecisionsInitHold DEF ServeInit
<1>2. DecisionsInv /\ [ServeNext]_serveVars => DecisionsInv'
  BY DecisionsMove, DecisionsKeep
<1>3. DecisionsInv => DecisionsKeepTheRules
  BY DecisionsImply DEF DecisionsKeepTheRules
<1>. QED  BY <1>1, <1>2, <1>3, PTL DEF ServeSpec
===============================================================================
