---------------------------- MODULE FetchLadderProofs ----------------------------
(* The ladder, its window and its ledger, for any fetches, domains and rungs.     *)
EXTENDS FetchLadder, FiniteSetTheorems, SequenceTheorems, TLAPS

Fields == {"pc", "domain", "set", "copy", "base", "route", "order", "pos", "tried", "reported",
           "ran", "opened", "human", "rung", "content"}

\* A rung is under way, or the climb is over.
AtRung == {"rung", "open", "get"}
Late == {"record", "tmp", "rename", "close", "end"}

\* A climb begins at the first position; what was read is the page only when it is over.
Shaped(f) ==
    /\ DOMAIN fetch[f] = Fields /\ fetch[f].set.max \in Nat
    /\ fetch[f].pc \in {"off", "climb"} \cup AtRung \cup Late
    /\ fetch[f].pc = "off" =>
         fetch[f].pos = 1 /\ fetch[f].tried = {} /\ fetch[f].reported = {}
    /\ fetch[f].content => fetch[f].pc \in Late

\* Unless the decider's pick reordered it: what was tried is reported once its position is
\* left, so every position left behind is; and a climb without the page ends at the end.
ClimbInv(f) ==
    fetch[f].pc # "off" /\ fetch[f].route # "ask" =>
        /\ fetch[f].order \in Seq(Rungs)
        /\ fetch[f].pos \in Nat \ {0}
        /\ fetch[f].reported \subseteq ToSet(fetch[f].order)
        /\ fetch[f].pc \in AtRung => fetch[f].pos <= Len(fetch[f].order)
        /\ fetch[f].tried \subseteq fetch[f].reported
             \/ (fetch[f].pc \in AtRung /\ fetch[f].tried \subseteq fetch[f].reported \cup {Name(f)})
             \/ fetch[f].pc \in Late
        /\ \A i \in 1..Len(fetch[f].order) :
             i < fetch[f].pos => fetch[f].order[i] \in fetch[f].reported
        /\ fetch[f].pc \in Late /\ ~fetch[f].content => ~More(f)

\* The window is of a fetch that knows it.
WindowInv ==
    window # None =>
        /\ window \in Fetches /\ fetch[window].opened
        /\ fetch[window].pc = "end" => fetch[window].content

IInv ==
    /\ fetch = [f \in Fetches |-> fetch[f]]
    /\ \A f \in Fetches : Shaped(f) /\ ClimbInv(f)
    /\ WindowInv

-----------------------------------------------------------------------------
(* The orders.                                                              *)

LEMMA LedgerOrderIsASeq ==
    ASSUME NEW entry, entry.rung \in Methods
    PROVE  LedgerOrder(entry) \in Seq(Rungs)
<1>1. DefaultOrder \in Seq(Rungs) /\ DOMAIN DefaultOrder = 1..Len(DefaultOrder) /\ Len(DefaultOrder) \in Nat
  BY OrdersAssumption
<1>2. \E i \in DOMAIN DefaultOrder : DefaultOrder[i] = entry.rung
  BY DEF Methods, ToSet
<1>3. Place(entry.rung) \in 1..Len(DefaultOrder)
  BY <1>1, <1>2 DEF Place
<1>4. SubSeq(DefaultOrder, Place(entry.rung), Len(DefaultOrder)) \in Seq(Rungs)
  BY <1>1, <1>3, SubSeqProperties
<1>. QED  BY <1>4 DEF LedgerOrder

LEMMA InitHolds == ASSUME Init PROVE IInv
BY DEF Init, NotStarted, NoSetting, IInv, Shaped, ClimbInv, WindowInv, Fields

\* A step of one fetch leaves the others as they are.
Steps(f) == (\E d \in Domains, s \in Settings : Start(f, d, s)) \/ Climb(f) \/ Finish(f)

LEMMA OthersStay ==
    ASSUME fetch = [f \in Fetches |-> fetch[f]], NEW f \in Fetches, Steps(f)
    PROVE  /\ fetch' = [g \in Fetches |-> fetch'[g]]
           /\ \A g \in Fetches \ {f} : fetch'[g] = fetch[g]
BY DEF Steps, Start, Climb, Finish, SkipTried, AskRoute, TryRung, Exhausted, RungSkipped,
       NeedsHuman, PageRead, CloseSession, OpenHeaded, GetFails, RecordFetch, WriteTmp,
       RenameTmp, SaveFails, CloseWindow

\* The record of a rung that did not give the page.
LEMMA SkippedFields ==
    ASSUME NEW f \in Fetches, Shaped(f)
    PROVE  /\ DOMAIN Skipped(f) = Fields
           /\ Skipped(f).pc = "climb" /\ Skipped(f).pos = fetch[f].pos + 1
           /\ Skipped(f).reported = fetch[f].reported \cup {Name(f)}
           /\ Skipped(f).order = fetch[f].order /\ Skipped(f).tried = fetch[f].tried
           /\ Skipped(f).route = fetch[f].route /\ Skipped(f).content = fetch[f].content
           /\ Skipped(f).domain = fetch[f].domain /\ Skipped(f).copy = fetch[f].copy
           /\ Skipped(f).set = fetch[f].set
           /\ Skipped(f).rung = fetch[f].rung /\ Skipped(f).opened = fetch[f].opened
BY DEF Skipped, Shaped, Fields

\* The record a rung leaves behind: skipped, or needing a person.
LEMMA AfterSkip ==
    ASSUME fetch = [g \in Fetches |-> fetch[g]], NEW f \in Fetches, Shaped(f),
           RungSkipped(f) \/ NeedsHuman(f) \/ GetFails(f)
    PROVE  /\ fetch[f].pc \in AtRung /\ DOMAIN fetch'[f] = Fields
           /\ fetch'[f].pc = "climb" /\ fetch'[f].pos = fetch[f].pos + 1
           /\ fetch'[f].reported = fetch[f].reported \cup {Name(f)}
           /\ fetch'[f].order = fetch[f].order /\ fetch'[f].tried = fetch[f].tried
           /\ fetch'[f].route = fetch[f].route /\ fetch'[f].content = fetch[f].content
           /\ fetch'[f].domain = fetch[f].domain /\ fetch'[f].copy = fetch[f].copy
           /\ fetch'[f].set = fetch[f].set
           /\ fetch'[f].rung = fetch[f].rung /\ fetch'[f].opened = fetch[f].opened
<1>1. CASE RungSkipped(f) \/ GetFails(f)
  <2>1. fetch[f].pc \in AtRung /\ fetch'[f] = Skipped(f)
    BY <1>1 DEF RungSkipped, GetFails, AtRung
  <2>. QED  BY <2>1, SkippedFields
<1>2. CASE NeedsHuman(f)
  <2>1. fetch[f].pc \in AtRung /\ fetch'[f] = [Skipped(f) EXCEPT !.human = TRUE, !.ran = TRUE]
    BY <1>2 DEF NeedsHuman, AtRung
  <2>. QED  BY <2>1, SkippedFields DEF Fields
<1>. QED  BY <1>1, <1>2

\* What a rung read: the page, or something else and the climb goes on.
LEMMA AfterRead ==
    ASSUME fetch = [g \in Fetches |-> fetch[g]], NEW f \in Fetches, Shaped(f),
           NEW content \in BOOLEAN, PageRead(f, content)
    PROVE  /\ fetch[f].pc \in AtRung /\ DOMAIN fetch'[f] = Fields
           /\ fetch'[f].pc = IF content THEN "record" ELSE "climb"
           /\ fetch'[f].pos = IF content THEN fetch[f].pos ELSE fetch[f].pos + 1
           /\ fetch'[f].reported = fetch[f].reported \cup {Name(f)}
           /\ fetch'[f].content = content /\ fetch'[f].rung = Name(f)
           /\ fetch'[f].order = fetch[f].order /\ fetch'[f].tried = fetch[f].tried
           /\ fetch'[f].route = fetch[f].route
           /\ fetch'[f].domain = fetch[f].domain /\ fetch'[f].copy = fetch[f].copy
           /\ fetch'[f].set = fetch[f].set /\ fetch'[f].opened = fetch[f].opened
<1>1. fetch[f].pc \in AtRung /\ DOMAIN fetch[f] = Fields
  BY DEF PageRead, AtRung, Shaped
<1>2. fetch'[f] = [fetch[f] EXCEPT !.pc = IF content THEN "record" ELSE "climb",
                                   !.pos = IF content THEN @ ELSE @ + 1,
                                   !.reported = @ \cup {Name(f)},
                                   !.ran = @ \/ Name(f) \in Methods,
                                   !.rung = Name(f),
                                   !.content = content]
  BY DEF PageRead
<1>3. DOMAIN fetch'[f] = Fields
  BY <1>1, <1>2
<1>4. CASE content = TRUE
  BY <1>1, <1>2, <1>3, <1>4 DEF Fields
<1>5. CASE content = FALSE
  BY <1>1, <1>2, <1>3, <1>5 DEF Fields
<1>. QED  BY <1>4, <1>5

LEMMA ReadFlags ==
    ASSUME fetch = [g \in Fetches |-> fetch[g]], NEW f \in Fetches, DOMAIN fetch[f] = Fields,
           NEW content \in BOOLEAN, PageRead(f, content)
    PROVE  /\ fetch'[f].ran = (fetch[f].ran \/ Name(f) \in Methods)
           /\ fetch'[f].human = fetch[f].human /\ fetch'[f].opened = fetch[f].opened
           /\ fetch'[f].content = content /\ fetch'[f].base = fetch[f].base
<1>1. fetch'[f] = [fetch[f] EXCEPT !.pc = IF content THEN "record" ELSE "climb",
                                   !.pos = IF content THEN @ ELSE @ + 1,
                                   !.reported = @ \cup {Name(f)},
                                   !.ran = @ \/ Name(f) \in Methods,
                                   !.rung = Name(f),
                                   !.content = content]
  BY DEF PageRead
<1>. QED  BY <1>1 DEF Fields

LEMMA ShapeKeeps ==
    ASSUME IInv, NEW f \in Fetches, Steps(f)
    PROVE  Shaped(f)'
<1>. USE DEF IInv, Shaped, Fields, AtRung, Late
<1>1. ASSUME NEW d \in Domains, NEW s \in Settings, Start(f, d, s) PROVE Shaped(f)'
  BY <1>1, SettingsAssumption DEF Start
<1>2. CASE SkipTried(f)
  BY <1>2 DEF SkipTried
<1>3. ASSUME NEW pick \in Methods, AskRoute(f, pick) PROVE Shaped(f)'
  BY <1>3 DEF AskRoute, AtUntriedRung
<1>4. CASE TryRung(f) \/ Exhausted(f)
  BY <1>4 DEF TryRung, Exhausted, AtUntriedRung
<1>5. CASE RungSkipped(f) \/ NeedsHuman(f) \/ GetFails(f)
  <2>1. /\ DOMAIN fetch'[f] = Fields /\ fetch'[f].pc = "climb" /\ fetch'[f].content = fetch[f].content
        /\ fetch[f].pc \in {"rung", "open", "get"} /\ fetch'[f].set = fetch[f].set
    BY <1>5, AfterSkip
  <2>. QED  BY <2>1
<1>6. CASE CloseSession(f)
  BY <1>6 DEF CloseSession
<1>7. ASSUME NEW content \in BOOLEAN, PageRead(f, content) PROVE Shaped(f)'
  BY <1>7, AfterRead
<1>8. ASSUME NEW opens \in BOOLEAN, NEW up \in BOOLEAN, OpenHeaded(f, opens, up) PROVE Shaped(f)'
  BY <1>8 DEF OpenHeaded, Skipped
<1>9. CASE Finish(f)
  <2>1. CASE RecordFetch(f)
    BY <2>1 DEF RecordFetch
  <2>2. CASE WriteTmp(f) \/ RenameTmp(f)
    BY <2>2 DEF WriteTmp, RenameTmp
  <2>3. CASE SaveFails(f) \/ CloseWindow(f)
    BY <2>3 DEF SaveFails, CloseWindow
  <2>. QED  BY <1>9, <2>1, <2>2, <2>3 DEF Finish
<1>. QED  BY <1>1, <1>2, <1>3, <1>4, <1>5, <1>6, <1>7, <1>8, <1>9 DEF Steps, Climb

\* The invariant of the climb, action by action; the fields a step does not name stay.
LEMMA ClimbKeeps ==
    ASSUME IInv, NEW f \in Fetches, Steps(f)
    PROVE  ClimbInv(f)'
<1>. SUFFICES ASSUME fetch'[f].pc # "off", fetch'[f].route # "ask" PROVE ClimbInv(f)'
  BY DEF ClimbInv
<1>. USE DEF AtRung, Late
<1>0. fetch = [g \in Fetches |-> fetch[g]] /\ Shaped(f) /\ ClimbInv(f)
  BY DEF IInv
<1>1. ASSUME NEW d \in Domains, NEW s \in Settings, Start(f, d, s) PROVE ClimbInv(f)'
  <2>. DEFINE known == s.auto /\ ledger[d].ok >= 1 /\ ledger[d].rung \in Methods
             order == Lookups \o (IF known THEN LedgerOrder(ledger[d]) ELSE DefaultOrder)
  <2>1. order \in Seq(Rungs)
    BY LedgerOrderIsASeq, OrdersAssumption, ConcatProperties
  <2>2. fetch'[f].pc = "climb" /\ fetch'[f].order = order
    BY <1>0, <1>1 DEF Start, Shaped, Fields
  <2>3. fetch'[f].pos = 1 /\ fetch'[f].tried = {} /\ fetch'[f].reported = {}
    BY <1>0, <1>1 DEF Start, Shaped, Fields
  <2>. QED  BY <2>1, <2>2, <2>3 DEF ClimbInv
<1>2. CASE SkipTried(f)
  <2>1. /\ fetch[f].pc = "climb" /\ fetch'[f].pc = "climb" /\ fetch[f].order[fetch[f].pos] \in fetch[f].tried
        /\ fetch'[f].order = fetch[f].order /\ fetch'[f].pos = fetch[f].pos + 1
        /\ fetch'[f].tried = fetch[f].tried /\ fetch'[f].reported = fetch[f].reported
        /\ fetch'[f].route = fetch[f].route
    BY <1>0, <1>2 DEF SkipTried, Name, Shaped, Fields
  <2>. QED  BY <1>0, <2>1 DEF ClimbInv
<1>3. ASSUME NEW pick \in Methods, AskRoute(f, pick) PROVE FALSE
  BY <1>0, <1>3 DEF AskRoute, Shaped, Fields
<1>4. CASE TryRung(f)
  <2>1. /\ fetch[f].pc = "climb" /\ More(f) /\ fetch'[f].pc = "rung"
        /\ fetch'[f].order = fetch[f].order /\ fetch'[f].pos = fetch[f].pos
        /\ fetch'[f].tried = fetch[f].tried \cup {Name(f)} /\ fetch'[f].reported = fetch[f].reported
        /\ fetch'[f].route = fetch[f].route
    BY <1>0, <1>4 DEF TryRung, AtUntriedRung, Shaped, Fields
  <2>2. Name(f)' = Name(f) /\ fetch[f].pos <= Len(fetch[f].order)
    BY <2>1 DEF Name, More
  <2>. QED  BY <1>0, <2>1, <2>2 DEF ClimbInv
<1>5. CASE Exhausted(f)
  <2>1. /\ fetch[f].pc = "climb" /\ ~More(f) /\ fetch'[f].pc = "record"
        /\ fetch'[f].order = fetch[f].order /\ fetch'[f].pos = fetch[f].pos
        /\ fetch'[f].set = fetch[f].set
        /\ fetch'[f].tried = fetch[f].tried /\ fetch'[f].reported = fetch[f].reported
        /\ fetch'[f].route = fetch[f].route
    BY <1>0, <1>5 DEF Exhausted, Shaped, Fields
  <2>2. ~More(f)'
    BY <2>1 DEF More
  <2>. QED  BY <1>0, <2>1, <2>2 DEF ClimbInv
\* A rung that did not give the page: it is reported, the next position is up.
<1>6. ASSUME /\ fetch[f].pc \in AtRung /\ fetch'[f].pc = "climb"
             /\ fetch'[f].order = fetch[f].order /\ fetch'[f].pos = fetch[f].pos + 1
             /\ fetch'[f].reported = fetch[f].reported \cup {Name(f)}
             /\ fetch'[f].tried = fetch[f].tried /\ fetch'[f].route = fetch[f].route
      PROVE  ClimbInv(f)'
  <2>1. Name(f) \in ToSet(fetch[f].order)
    BY <1>0, <1>6 DEF ClimbInv, Name, ToSet
  <2>. QED  BY <1>0, <1>6, <2>1 DEF ClimbInv, Name
<1>7. CASE RungSkipped(f) \/ NeedsHuman(f) \/ GetFails(f)
  BY <1>0, <1>6, <1>7, AfterSkip
<1>8. CASE CloseSession(f)
  <2>1. /\ fetch[f].pc = "rung" /\ fetch'[f].pc = "open"
        /\ fetch'[f].order = fetch[f].order /\ fetch'[f].pos = fetch[f].pos
        /\ fetch'[f].tried = fetch[f].tried /\ fetch'[f].reported = fetch[f].reported
        /\ fetch'[f].route = fetch[f].route
    BY <1>0, <1>8 DEF CloseSession, Shaped, Fields
  <2>. QED  BY <1>0, <2>1 DEF ClimbInv, Name
<1>9. ASSUME NEW content \in BOOLEAN, PageRead(f, content) PROVE ClimbInv(f)'
  <2>1. CASE ~content
    BY <1>0, <1>6, <1>9, <2>1, AfterRead
  <2>2. CASE content
    <3>1. /\ fetch[f].pc \in AtRung /\ fetch'[f].pc = "record" /\ fetch'[f].content
          /\ fetch'[f].order = fetch[f].order /\ fetch'[f].pos = fetch[f].pos
          /\ fetch'[f].reported = fetch[f].reported \cup {Name(f)}
          /\ fetch'[f].route = fetch[f].route
      BY <1>0, <1>9, <2>2, AfterRead
    <3>2. Name(f) \in ToSet(fetch[f].order)
      BY <1>0, <3>1 DEF ClimbInv, Name, ToSet
    <3>. QED  BY <1>0, <3>1, <3>2 DEF ClimbInv
  <2>. QED  BY <2>1, <2>2
<1>10. ASSUME NEW opens \in BOOLEAN, NEW up \in BOOLEAN, OpenHeaded(f, opens, up)
       PROVE  ClimbInv(f)'
  <2>1. CASE ~opens
    BY <1>0, <1>6, <1>10, <2>1 DEF OpenHeaded, Skipped, Shaped, Fields
  <2>2. CASE opens
    <3>1. /\ fetch[f].pc = "open" /\ fetch'[f].pc = "get"
          /\ fetch'[f].order = fetch[f].order /\ fetch'[f].pos = fetch[f].pos
          /\ fetch'[f].tried = fetch[f].tried /\ fetch'[f].reported = fetch[f].reported
          /\ fetch'[f].route = fetch[f].route
      BY <1>0, <1>10, <2>2 DEF OpenHeaded, Shaped, Fields
    <3>. QED  BY <1>0, <3>1 DEF ClimbInv, Name
  <2>. QED  BY <2>1, <2>2
\* What a fetch does at its end touches nothing of its climb.
<1>11. CASE Finish(f)
  <2>1. ASSUME /\ fetch[f].pc \in Late /\ fetch'[f].pc \in Late
               /\ fetch'[f].order = fetch[f].order /\ fetch'[f].pos = fetch[f].pos
               /\ fetch'[f].set = fetch[f].set /\ fetch'[f].content = fetch[f].content
               /\ fetch'[f].reported = fetch[f].reported /\ fetch'[f].route = fetch[f].route
        PROVE  ClimbInv(f)'
    BY <1>0, <2>1 DEF ClimbInv, More
  <2>2. CASE RecordFetch(f)
    BY <1>0, <2>1, <2>2 DEF RecordFetch, Shaped, Fields
  <2>3. CASE WriteTmp(f) \/ RenameTmp(f)
    BY <1>0, <2>1, <2>3 DEF WriteTmp, RenameTmp, Shaped, Fields
  <2>4. CASE SaveFails(f) \/ CloseWindow(f)
    BY <1>0, <2>1, <2>4 DEF SaveFails, CloseWindow, Shaped, Fields
  <2>. QED  BY <1>11, <2>2, <2>3, <2>4 DEF Finish
<1>. QED  BY <1>1, <1>2, <1>3, <1>4, <1>5, <1>7, <1>8, <1>9, <1>10, <1>11 DEF Steps, Climb

\* What a session window is up to, action by action.
LEMMA WindowKeeps ==
    ASSUME IInv, NEW f \in Fetches, Steps(f)
    PROVE  WindowInv'
<1>0. fetch = [g \in Fetches |-> fetch[g]] /\ Shaped(f) /\ Shaped(f)' /\ WindowInv
  BY ShapeKeeps DEF IInv
<1>. USE OthersStay
\* A step of a climb, or of its end, that leaves the session alone.
<1>1. ASSUME UNCHANGED window, fetch'[f].opened = fetch[f].opened,
             fetch'[f].pc = "end" => fetch[f].pc = "end" /\ fetch'[f].content = fetch[f].content
      PROVE  WindowInv'
  BY <1>0, <1>1 DEF WindowInv, IInv
<1>2. ASSUME NEW d \in Domains, NEW s \in Settings, Start(f, d, s) PROVE WindowInv'
  BY <1>0, <1>1, <1>2 DEF Start, Shaped, Fields
<1>3. CASE SkipTried(f) \/ TryRung(f) \/ Exhausted(f)
  BY <1>0, <1>1, <1>3 DEF SkipTried, TryRung, Exhausted, AtUntriedRung, Shaped, Fields
<1>4. ASSUME NEW pick \in Methods, AskRoute(f, pick) PROVE WindowInv'
  BY <1>0, <1>1, <1>4 DEF AskRoute, Shaped, Fields
<1>5. CASE RungSkipped(f) \/ NeedsHuman(f) \/ GetFails(f)
  <2>1. UNCHANGED window
    BY <1>5 DEF RungSkipped, NeedsHuman, GetFails
  <2>. QED  BY <1>0, <1>1, <1>5, <2>1, AfterSkip
<1>6. ASSUME NEW content \in BOOLEAN, PageRead(f, content) PROVE WindowInv'
  <2>1. UNCHANGED window
    BY <1>6 DEF PageRead
  <2>. QED  BY <1>0, <1>1, <1>6, <2>1, AfterRead
<1>7. CASE CloseSession(f)
  BY <1>7 DEF CloseSession, WindowInv
<1>8. ASSUME NEW opens \in BOOLEAN, NEW up \in BOOLEAN, OpenHeaded(f, opens, up) PROVE WindowInv'
  <2>1. fetch'[f].pc \in {"get", "climb"} /\ fetch'[f].opened = TRUE /\ window' = IF up THEN f ELSE window
    BY <1>0, <1>8, SkippedFields DEF OpenHeaded, Shaped, Fields
  <2>. QED  BY <1>0, <2>1 DEF WindowInv, IInv
<1>9. CASE Finish(f)
  <2>1. CASE RecordFetch(f)
    BY <1>0, <1>1, <2>1 DEF RecordFetch, Shaped, Fields
  <2>2. CASE WriteTmp(f) \/ RenameTmp(f)
    BY <1>0, <1>1, <2>2 DEF WriteTmp, RenameTmp, Shaped, Fields
  <2>3. CASE SaveFails(f)
    BY <1>0, <1>1, <2>3 DEF SaveFails, Shaped, Fields
  <2>4. CASE CloseWindow(f)
    <3>1. /\ window' = IF fetch[f].opened /\ ~fetch[f].content THEN None ELSE window
          /\ fetch'[f].opened = fetch[f].opened /\ fetch'[f].content = fetch[f].content
      BY <1>0, <2>4 DEF CloseWindow, Shaped, Fields
    <3>. QED  BY <1>0, <3>1 DEF WindowInv, IInv
  <2>. QED  BY <1>9, <2>1, <2>2, <2>3, <2>4 DEF Finish
<1>. QED  BY <1>2, <1>3, <1>4, <1>5, <1>6, <1>7, <1>8, <1>9 DEF Steps, Climb

LEMMA StepKeeps == ASSUME IInv, [Next]_vars PROVE IInv'
<1>1. CASE UNCHANGED <<window, fetch>>
  BY <1>1 DEF IInv, Shaped, ClimbInv, WindowInv, Name, More
<1>2. CASE Forget
  BY <1>1, <1>2 DEF Forget, ForgetLoad, ForgetTmp, ForgetRename
<1>3. ASSUME NEW f \in Fetches, Steps(f) PROVE IInv'
  <2>1. fetch' = [g \in Fetches |-> fetch'[g]] /\ \A g \in Fetches \ {f} : fetch'[g] = fetch[g]
    BY <1>3, OthersStay DEF IInv
  <2>2. \A g \in Fetches \ {f} : Shaped(g)' /\ ClimbInv(g)'
    BY <2>1 DEF IInv, Shaped, ClimbInv, Name, More
  <2>3. Shaped(f)' /\ ClimbInv(f)' /\ WindowInv'
    BY <1>3, ShapeKeeps, ClimbKeeps, WindowKeeps
  <2>. QED  BY <2>1, <2>2, <2>3 DEF IInv
<1>. QED  BY <1>1, <1>2, <1>3 DEF Next, Steps, vars

LEMMA InvariantHolds == Spec => []IInv
BY InitHolds, StepKeeps, PTL DEF Spec

\* fetch.go, Run: a fetch that gives up has been at every rung of its order, whatever the
\* ledger said, whatever was skipped, and however the sessions of others went; the orders
\* a decider reordered are another matter (RestFollowsThePick).
THEOREM GivesUpAtTheEndHolds == Spec => []GivesUpAtTheEnd
<1>1. ASSUME IInv, NEW f \in Fetches, WentThrough(f), fetch[f].route # "ask"
      PROVE  fetch[f].reported = ToSet(fetch[f].order)
  <2>1. ClimbInv(f) /\ fetch[f].pc \in Late /\ ~fetch[f].content
    BY <1>1 DEF IInv, WentThrough, Over, Late
  <2>2. fetch[f].order \in Seq(Rungs) /\ fetch[f].pos \in Nat /\ ~More(f)
    BY <1>1, <2>1 DEF ClimbInv, Late
  <2>3. Len(fetch[f].order) \in Nat /\ DOMAIN fetch[f].order = 1..Len(fetch[f].order)
    BY <2>2
  <2>4. fetch[f].pos > Len(fetch[f].order)
    BY <1>1, <2>2, <2>3 DEF IInv, Shaped, WentThrough, More
  <2>5. \A i \in 1..Len(fetch[f].order) : fetch[f].order[i] \in fetch[f].reported
    BY <1>1, <2>1, <2>2, <2>3, <2>4 DEF ClimbInv, Late
  <2>6. fetch[f].reported \subseteq ToSet(fetch[f].order)
    BY <1>1, <2>1 DEF ClimbInv, Late
  <2>. QED  BY <2>3, <2>5, <2>6 DEF ToSet
<1>2. IInv => GivesUpAtTheEnd
  BY <1>1 DEF GivesUpAtTheEnd
<1>. QED  BY <1>2, InvariantHolds, PTL

\* fetch.go, the deferred close: nobody is left with the window of a climb that failed.
THEOREM WindowIsWarrantedHolds == Spec => []WindowIsWarranted
<1>1. IInv => WindowIsWarranted
  BY DEF IInv, WindowInv, WindowIsWarranted
<1>. QED  BY <1>1, InvariantHolds, PTL

-----------------------------------------------------------------------------
(* The ledger.  Fetches overwrite one another's, but never with a rung that gave *)
(* nothing: each copy, whoever has it, is sound.                              *)

Ledgers == [Domains -> Entries]

\* The domains and the rungs that gave a page of theirs.
Given == {<<fetch[g].domain, fetch[g].rung>> : g \in {h \in Fetches : fetch[h].content}}

Sound(l, given) ==
    /\ l \in Ledgers
    /\ \A d \in Domains : l[d].ok >= 1 => <<d, l[d].rung>> \in given

LedgerInv ==
    /\ Sound(ledger, Given)
    /\ tmp = NoTmp \/ Sound(tmp, Given)
    /\ \A f \in Fetches : Sound(fetch[f].copy, Given)
    /\ \A f \in Fetches : fetch[f].pc # "off" => fetch[f].domain \in Domains
    /\ DOMAIN forget = {"pc", "domain", "copy", "base"} /\ Sound(forget.copy, Given)

LEMMA NoLedgerIsSound == \A given : Sound(NoLedger, given)
BY DEF Sound, Ledgers, Entries, NoLedger, NoEntry

LEMMA SoundGrows ==
    \A l, given, more : Sound(l, given) /\ given \subseteq more => Sound(l, more)
BY DEF Sound

\* A fetch that has its page keeps it, and what is said of it.
LEMMA PageIsKept ==
    ASSUME IInv, NEW f \in Fetches, Steps(f)
    PROVE  \A g \in Fetches : fetch[g].content =>
             /\ fetch'[g].content /\ fetch'[g].domain = fetch[g].domain
             /\ fetch'[g].rung = fetch[g].rung
<1>0. fetch = [g \in Fetches |-> fetch[g]] /\ Shaped(f)
  BY DEF IInv
<1>1. CASE ~fetch[f].content
  BY <1>0, <1>1, OthersStay
<1>2. CASE fetch[f].content
  <2>1. fetch[f].pc \in Late
    BY <1>0, <1>2 DEF Shaped
  <2>2. Finish(f)
    BY <2>1 DEF Steps, Start, Climb, SkipTried, AskRoute, TryRung, Exhausted, AtUntriedRung,
       RungSkipped, NeedsHuman, GetFails, PageRead, CloseSession, OpenHeaded, Late
  <2>3. CASE RecordFetch(f)
    BY <1>0, <1>2, <2>3, OthersStay DEF RecordFetch, Shaped, Fields
  <2>4. CASE WriteTmp(f) \/ RenameTmp(f)
    BY <1>0, <1>2, <2>4, OthersStay DEF WriteTmp, RenameTmp, Shaped, Fields
  <2>5. CASE SaveFails(f) \/ CloseWindow(f)
    BY <1>0, <1>2, <2>5, OthersStay DEF SaveFails, CloseWindow, Shaped, Fields
  <2>. QED  BY <2>2, <2>3, <2>4, <2>5 DEF Finish
<1>. QED  BY <1>1, <1>2

LEMMA GivenGrows == ASSUME IInv, NEW f \in Fetches, Steps(f) PROVE Given \subseteq Given'
BY PageIsKept DEF Given

LEMMA EntryUpdates ==
    ASSUME NEW M, NEW e \in [rung : M, ok : Nat, fail : Nat], NEW r \in M, NEW n \in Nat
    PROVE  /\ [e EXCEPT !.rung = r, !.ok = n] \in [rung : M, ok : Nat, fail : Nat]
           /\ [e EXCEPT !.fail = n] \in [rung : M, ok : Nat, fail : Nat]
OBVIOUS

LEMMA Counted ==
    ASSUME NEW e \in Entries
    PROVE  /\ \A rung \in Methods : [e EXCEPT !.rung = rung, !.ok = @ + 1] \in Entries
           /\ [e EXCEPT !.fail = @ + 1] \in Entries
<1>1. e.ok \in Nat /\ e.fail \in Nat
  BY DEF Entries
<1>2. e.ok + 1 \in Nat /\ e.fail + 1 \in Nat
  BY <1>1
<1>3. \A rung \in Methods : rung \in Methods \cup {None}
  OBVIOUS
<1>4. ASSUME NEW rung \in Methods PROVE [e EXCEPT !.rung = rung, !.ok = e.ok + 1] \in Entries
  BY <1>2, <1>3, EntryUpdates, Zenon DEF Entries
<1>5. [e EXCEPT !.fail = e.fail + 1] \in Entries
  <2>1. "headed" \in Methods
    BY RungsAreDistinct DEF Methods
  <2>. QED  BY <1>2, <1>3, <2>1, EntryUpdates, Zenon DEF Entries
<1>. QED  BY <1>4, <1>5

\* What a fetch makes of its copy: its own rung, when that gave the page.
LEMMA RecordIsSound ==
    ASSUME IInv, LedgerInv, NEW f \in Fetches, fetch[f].pc = "record"
    PROVE  Sound([fetch[f].copy EXCEPT ![fetch[f].domain] = Record(f)], Given)
<1>. DEFINE d == fetch[f].domain
            entry == fetch[f].copy[d]
<1>1. d \in Domains /\ Sound(fetch[f].copy, Given) /\ entry \in Entries
  BY DEF LedgerInv, Sound, Ledgers
<1>2. Record(f) \in Entries
  BY <1>1, Counted DEF Record
<1>3. Record(f).ok >= 1 => <<d, Record(f).rung>> \in Given
  <2>1. CASE fetch[f].content /\ fetch[f].rung \in Methods
    BY <1>1, <2>1 DEF Record, Entries, Given
  <2>2. CASE ~(fetch[f].content /\ fetch[f].rung \in Methods)
    <3>1. Record(f).ok = entry.ok /\ Record(f).rung = entry.rung
      BY <1>1, <2>2 DEF Record, Entries
    <3>. QED  BY <1>1, <3>1 DEF Sound
  <2>. QED  BY <2>1, <2>2
<1>. QED  BY <1>1, <1>2, <1>3 DEF Sound, Ledgers

\* Every copy a step of a fetch leaves is one that was there, none, or its record.
LEMMA LedgerKeeps ==
    ASSUME IInv, LedgerInv, NEW f \in Fetches, Steps(f)
    PROVE  LedgerInv'
<1>. DEFINE Stays(l) == Sound(l, Given')
<1>0. fetch = [g \in Fetches |-> fetch[g]] /\ Shaped(f)
  BY DEF IInv
<1>1. \A l : Sound(l, Given) => Stays(l)
  BY GivenGrows, SoundGrows
<1>2. /\ Stays(ledger) /\ (tmp = NoTmp \/ Stays(tmp)) /\ Stays(forget.copy) /\ Stays(NoLedger)
      /\ \A g \in Fetches : Stays(fetch[g].copy)
  BY <1>1, NoLedgerIsSound DEF LedgerInv
<1>3. UNCHANGED forget
  BY DEF Steps, Start, Climb, Finish, SkipTried, AskRoute, TryRung, Exhausted, RungSkipped,
       NeedsHuman, PageRead, CloseSession, OpenHeaded, GetFails, RecordFetch, WriteTmp,
       RenameTmp, SaveFails, CloseWindow
<1>. DEFINE Taken == /\ ledger' = ledger \/ (tmp # NoTmp /\ ledger' = tmp)
                     /\ tmp' = tmp \/ tmp' = NoTmp \/ tmp' = fetch[f].copy
                     /\ Stays(fetch'[f].copy)
                     /\ fetch'[f].pc # "off" => fetch'[f].domain \in Domains
<1>4. ASSUME Taken PROVE LedgerInv'
  <2>1. \A g \in Fetches : Stays(fetch'[g].copy) /\ (fetch'[g].pc # "off" => fetch'[g].domain \in Domains)
    BY <1>2, <1>4, OthersStay DEF IInv, LedgerInv
  <2>2. NoTmp' = NoTmp /\ Stays(ledger') /\ (tmp' = NoTmp \/ Stays(tmp')) /\ Stays(forget'.copy)
    BY <1>2, <1>3, <1>4 DEF NoTmp, NoEntry
  <2>. QED  BY <1>3, <2>1, <2>2 DEF LedgerInv
\* The fetch's copy and domain stay, and so do the files.
<1>5. ASSUME UNCHANGED <<ledger, tmp>>, fetch'[f].copy = fetch[f].copy,
             fetch'[f].domain = fetch[f].domain, fetch[f].pc # "off"
      PROVE  Taken
  BY <1>2, <1>5 DEF LedgerInv
<1>. HIDE DEF Stays
<1>6. ASSUME NEW d \in Domains, NEW s \in Settings, Start(f, d, s) PROVE Taken
  <2>1. /\ UNCHANGED <<ledger, tmp>> /\ fetch'[f].domain = d
        /\ fetch'[f].copy = IF s.auto THEN ledger ELSE NoLedger
    BY <1>0, <1>6 DEF Start, Shaped, Fields
  <2>. QED  BY <1>2, <2>1
<1>7. CASE SkipTried(f) \/ TryRung(f) \/ Exhausted(f)
  BY <1>0, <1>4, <1>5, <1>7 DEF SkipTried, TryRung, Exhausted, AtUntriedRung, Shaped, Fields
<1>8. ASSUME NEW pick \in Methods, AskRoute(f, pick) PROVE Taken
  BY <1>0, <1>5, <1>8 DEF AskRoute, AtUntriedRung, Shaped, Fields
<1>9. CASE RungSkipped(f) \/ NeedsHuman(f) \/ GetFails(f)
  <2>1. UNCHANGED <<ledger, tmp>>
    BY <1>9 DEF RungSkipped, NeedsHuman, GetFails
  <2>. QED  BY <1>0, <1>4, <1>5, <1>9, <2>1, AfterSkip DEF AtRung
<1>10. ASSUME NEW content \in BOOLEAN, PageRead(f, content) PROVE Taken
  <2>1. UNCHANGED <<ledger, tmp>>
    BY <1>10 DEF PageRead
  <2>. QED  BY <1>0, <1>5, <1>10, <2>1, AfterRead DEF AtRung
<1>11. CASE CloseSession(f)
  BY <1>0, <1>4, <1>5, <1>11 DEF CloseSession, Shaped, Fields
<1>12. ASSUME NEW opens \in BOOLEAN, NEW up \in BOOLEAN, OpenHeaded(f, opens, up) PROVE Taken
  <2>1. /\ UNCHANGED <<ledger, tmp>> /\ fetch[f].pc # "off"
        /\ fetch'[f].copy = fetch[f].copy /\ fetch'[f].domain = fetch[f].domain
    BY <1>0, <1>12, SkippedFields DEF OpenHeaded, Shaped, Fields
  <2>. QED  BY <1>5, <2>1
<1>13. CASE RecordFetch(f)
  <2>1. UNCHANGED <<ledger, tmp>> /\ fetch[f].pc = "record"
    BY <1>13 DEF RecordFetch
  <2>2. Stays([fetch[f].copy EXCEPT ![fetch[f].domain] = Record(f)])
    BY <1>1, <2>1, RecordIsSound
  <2>3. /\ fetch'[f].domain = fetch[f].domain
        /\ \/ fetch'[f].copy = fetch[f].copy
           \/ fetch'[f].copy = [fetch[f].copy EXCEPT ![fetch[f].domain] = Record(f)]
    BY <1>0, <1>13 DEF RecordFetch, Shaped, Fields
  <2>. QED  BY <1>2, <1>4, <2>1, <2>2, <2>3 DEF LedgerInv
<1>14. CASE WriteTmp(f)
  <2>1. /\ UNCHANGED ledger /\ tmp' = fetch[f].copy /\ fetch[f].pc # "off"
        /\ fetch'[f].copy = fetch[f].copy /\ fetch'[f].domain = fetch[f].domain
    BY <1>0, <1>14 DEF WriteTmp, Shaped, Fields
  <2>. QED  BY <1>2, <1>4, <2>1 DEF LedgerInv
<1>15. CASE RenameTmp(f)
  <2>1. /\ fetch'[f].copy = fetch[f].copy /\ fetch'[f].domain = fetch[f].domain /\ fetch[f].pc # "off"
    BY <1>0, <1>15 DEF RenameTmp, Shaped, Fields
  <2>2. UNCHANGED <<ledger, tmp>> \/ (tmp # NoTmp /\ ledger' = tmp /\ tmp' = NoTmp)
    BY <1>15 DEF RenameTmp, Rename
  <2>. QED  BY <1>2, <1>4, <2>1, <2>2 DEF LedgerInv
<1>16. CASE SaveFails(f) \/ CloseWindow(f)
  BY <1>0, <1>4, <1>5, <1>16 DEF SaveFails, CloseWindow, Shaped, Fields
<1>. QED
  BY <1>4, <1>6, <1>7, <1>8, <1>9, <1>10, <1>11, <1>12, <1>13, <1>14, <1>15, <1>16
  DEF Steps, Climb, Finish

\* --forget: a copy without the domain, over whatever was saved meanwhile.
LEMMA ForgetKeeps == ASSUME LedgerInv, Forget PROVE LedgerInv'
<1>1. UNCHANGED fetch
  BY DEF Forget, ForgetLoad, ForgetTmp, ForgetRename
<1>2. UNCHANGED Given
  BY <1>1 DEF Given
<1>3. ASSUME NEW d \in Domains, ForgetLoad(d) PROVE LedgerInv'
  <2>1. Sound([ledger EXCEPT ![d] = NoEntry], Given)
    BY DEF LedgerInv, Sound, Ledgers, Entries, NoEntry
  <2>2. /\ UNCHANGED <<ledger, tmp>> /\ DOMAIN forget' = {"pc", "domain", "copy", "base"}
        /\ forget'.copy = [ledger EXCEPT ![d] = NoEntry]
    BY <1>3 DEF ForgetLoad
  <2>. QED  BY <1>1, <1>2, <2>1, <2>2 DEF LedgerInv
<1>4. CASE ForgetTmp
  <2>1. /\ UNCHANGED ledger /\ tmp' = forget.copy /\ DOMAIN forget' = {"pc", "domain", "copy", "base"}
        /\ forget'.copy = forget.copy
    BY <1>4 DEF ForgetTmp, LedgerInv
  <2>. QED  BY <1>1, <1>2, <2>1 DEF LedgerInv
<1>5. CASE ForgetRename
  <2>1. /\ DOMAIN forget' = {"pc", "domain", "copy", "base"} /\ forget'.copy = forget.copy
    BY <1>5 DEF ForgetRename, LedgerInv
  <2>2. UNCHANGED <<ledger, tmp>> \/ (tmp # NoTmp /\ ledger' = tmp /\ tmp' = NoTmp)
    BY <1>5 DEF ForgetRename, Rename
  <2>. QED  BY <1>1, <1>2, <2>1, <2>2 DEF LedgerInv
<1>. QED  BY <1>3, <1>4, <1>5 DEF Forget

LEMMA LedgerInit == ASSUME Init PROVE LedgerInv
BY NoLedgerIsSound DEF Init, NotStarted, LedgerInv

LEMMA LedgerInvKeeps == ASSUME IInv, LedgerInv, [Next]_vars PROVE LedgerInv'
<1>1. CASE UNCHANGED vars
  BY <1>1 DEF vars, LedgerInv, Given
<1>. QED  BY <1>1, LedgerKeeps, ForgetKeeps DEF Next, Steps

\* ledger.go: the rung that a domain's fetches start from did give the page there, even
\* though fetches and --forget overwrite one another's ledgers without a lock.
THEOREM LedgerRungWorkedHolds == Spec => []LedgerRungWorked
<1>1. LedgerInv => LedgerRungWorked
  BY DEF LedgerInv, Sound, Given, LedgerRungWorked
<1>. QED  BY <1>1, LedgerInit, LedgerInvKeeps, InvariantHolds, PTL DEF Spec

-----------------------------------------------------------------------------
(* The types: an order is made of rungs, and a rung that is tried is in it.  *)

\* What a fetch has, in two parts: the Booleans, and the rest.
Answers(f) == /\ fetch[f].ran \in BOOLEAN /\ fetch[f].opened \in BOOLEAN
              /\ fetch[f].human \in BOOLEAN /\ fetch[f].content \in BOOLEAN

Typed(f) ==
    /\ fetch[f].domain \in Domains \cup {None}
    /\ fetch[f].set \in Settings \cup {NoSetting}
    /\ fetch[f].route \in {"default", "ledger", "ask"}
    /\ fetch[f].order \in Seq(Rungs)
    /\ fetch[f].pos \in Nat \ {0}
    /\ fetch[f].pc \in AtRung => fetch[f].pos <= Len(fetch[f].order)
    /\ fetch[f].tried \subseteq Rungs /\ fetch[f].reported \subseteq Rungs
    /\ fetch[f].rung \in Rungs \cup {None}

TypeInv == \A f \in Fetches : Typed(f) /\ Answers(f)

LEMMA AskOrderIsASeq ==
    ASSUME NEW pick \in Methods
    PROVE  AskOrder(pick) \in Seq(Rungs) /\ Len(AskOrder(pick)) > Len(Lookups)
<1>1. DefaultOrder \in Seq(Rungs) /\ DOMAIN DefaultOrder = 1..Len(DefaultOrder) /\ Len(DefaultOrder) \in Nat
  BY OrdersAssumption
<1>2. \E i \in DOMAIN DefaultOrder : DefaultOrder[i] = pick
  BY DEF Methods, ToSet
<1>3. Place(pick) \in 1..Len(DefaultOrder)
  BY <1>1, <1>2 DEF Place
<1>. DEFINE i == Place(pick)
            rest == RemoveAt(DefaultOrder, i)
<1>. HIDE DEF i
<1>4. SubSeq(DefaultOrder, 1, i - 1) \in Seq(Rungs) /\ SubSeq(DefaultOrder, i + 1, Len(DefaultOrder)) \in Seq(Rungs)
  BY <1>1, <1>3, SubSeqProperties DEF i
<1>5. rest \in Seq(Rungs)
  BY <1>4, ConcatProperties DEF RemoveAt
<1>. HIDE DEF rest
<1>6. <<pick>> \in Seq(Rungs) /\ Len(<<pick>>) = 1
  BY DEF Rungs
<1>7. Lookups \o <<pick>> \in Seq(Rungs) /\ Len(Lookups \o <<pick>>) = Len(Lookups) + 1 /\ Len(Lookups) \in Nat
  BY <1>6, OrdersAssumption, ConcatProperties
<1>8. /\ (Lookups \o <<pick>>) \o rest \in Seq(Rungs)
      /\ Len((Lookups \o <<pick>>) \o rest) = Len(Lookups) + 1 + Len(rest) /\ Len(rest) \in Nat
  BY <1>5, <1>7, ConcatProperties
<1>9. AskOrder(pick) = (Lookups \o <<pick>>) \o rest
  BY DEF AskOrder, rest, i
<1>. QED  BY <1>7, <1>8, <1>9

LEMMA AnswersKeep ==
    ASSUME IInv, NEW f \in Fetches, Answers(f), Steps(f)
    PROVE  Answers(f)'
<1>0. fetch = [g \in Fetches |-> fetch[g]] /\ DOMAIN fetch[f] = Fields
  BY DEF IInv, Shaped
<1>1. ASSUME fetch'[f].ran = fetch[f].ran, fetch'[f].opened = fetch[f].opened,
             fetch'[f].human = fetch[f].human, fetch'[f].content = fetch[f].content
      PROVE  Answers(f)'
  BY Zenon, <1>1 DEF Answers
<1>2. ASSUME NEW d \in Domains, NEW s \in Settings, Start(f, d, s) PROVE Answers(f)'
  BY <1>0, <1>1, <1>2 DEF Start, Fields
<1>3. CASE SkipTried(f) \/ TryRung(f) \/ Exhausted(f) \/ CloseSession(f)
  BY <1>0, <1>1, <1>3 DEF SkipTried, TryRung, Exhausted, AtUntriedRung, CloseSession, Fields
<1>4. ASSUME NEW pick \in Methods, AskRoute(f, pick) PROVE Answers(f)'
  BY <1>0, <1>1, <1>4 DEF AskRoute, Fields
<1>5. CASE RungSkipped(f) \/ GetFails(f)
  BY <1>0, <1>1, <1>5 DEF RungSkipped, GetFails, Skipped, Fields
<1>6. CASE NeedsHuman(f)
  <2>1. /\ fetch'[f].ran = TRUE /\ fetch'[f].human = TRUE /\ fetch'[f].opened = fetch[f].opened
        /\ fetch'[f].content = fetch[f].content
    BY <1>0, <1>6 DEF NeedsHuman, Skipped, Fields
  <2>. QED  BY Zenon, <2>1 DEF Answers
<1>7. ASSUME NEW content \in BOOLEAN, PageRead(f, content) PROVE Answers(f)'
  <2>1. /\ fetch'[f].ran = (fetch[f].ran \/ Name(f) \in Methods) /\ fetch'[f].content = content
        /\ fetch'[f].opened = fetch[f].opened /\ fetch'[f].human = fetch[f].human
    BY <1>0, <1>7, ReadFlags
  <2>2. (fetch[f].ran \/ Name(f) \in Methods) \in BOOLEAN
    OBVIOUS
  <2>. QED  BY Zenon, <2>1, <2>2 DEF Answers
<1>8. ASSUME NEW opens \in BOOLEAN, NEW up \in BOOLEAN, OpenHeaded(f, opens, up) PROVE Answers(f)'
  <2>1. /\ fetch'[f].ran = fetch[f].ran /\ fetch'[f].human = fetch[f].human
        /\ fetch'[f].content = fetch[f].content /\ fetch'[f].opened = TRUE
    BY <1>0, <1>8 DEF OpenHeaded, Skipped, Fields
  <2>. QED  BY Zenon, <2>1 DEF Answers
<1>9. CASE Finish(f)
  <2>1. CASE RecordFetch(f)
    BY <1>0, <1>1, <2>1 DEF RecordFetch, Fields
  <2>2. CASE WriteTmp(f) \/ RenameTmp(f)
    BY <1>0, <1>1, <2>2 DEF WriteTmp, RenameTmp, Fields
  <2>3. CASE SaveFails(f) \/ CloseWindow(f)
    BY <1>0, <1>1, <2>3 DEF SaveFails, CloseWindow, Fields
  <2>. QED  BY <1>9, <2>1, <2>2, <2>3 DEF Finish
<1>. QED  BY <1>2, <1>3, <1>4, <1>5, <1>6, <1>7, <1>8, <1>9 DEF Steps, Climb

LEMMA TypedKeeps ==
    ASSUME IInv, NEW f \in Fetches, Typed(f), Steps(f)
    PROVE  Typed(f)'
<1>0. fetch = [g \in Fetches |-> fetch[g]] /\ DOMAIN fetch[f] = Fields /\ Shaped(f)
  BY DEF IInv, Shaped
<1>1. fetch[f].pc \in AtRung => Name(f) \in Rungs
  BY DEF Typed, Name
<1>2. ASSUME NEW d \in Domains, NEW s \in Settings, Start(f, d, s) PROVE Typed(f)'
  <2>. DEFINE known == s.auto /\ ledger[d].ok >= 1 /\ ledger[d].rung \in Methods
             order == Lookups \o (IF known THEN LedgerOrder(ledger[d]) ELSE DefaultOrder)
  <2>1. order \in Seq(Rungs)
    BY LedgerOrderIsASeq, OrdersAssumption, ConcatProperties
  <2>2. /\ fetch'[f].pc = "climb" /\ fetch'[f].order = order /\ fetch'[f].domain = d /\ fetch'[f].set = s
        /\ fetch'[f].route \in {"default", "ledger"} /\ fetch'[f].pos = fetch[f].pos
        /\ fetch'[f].tried = fetch[f].tried /\ fetch'[f].reported = fetch[f].reported
        /\ fetch'[f].rung = fetch[f].rung
    BY <1>0, <1>2 DEF Start, Fields
  <2>. QED  BY <2>1, <2>2 DEF Typed, AtRung
<1>3. CASE SkipTried(f)
  <2>1. /\ fetch'[f].pc = "climb" /\ fetch'[f].pos = fetch[f].pos + 1 /\ fetch'[f].order = fetch[f].order
        /\ fetch'[f].domain = fetch[f].domain /\ fetch'[f].set = fetch[f].set
        /\ fetch'[f].route = fetch[f].route /\ fetch'[f].tried = fetch[f].tried
        /\ fetch'[f].reported = fetch[f].reported /\ fetch'[f].rung = fetch[f].rung
    BY <1>0, <1>3 DEF SkipTried, Fields
  <2>. QED  BY <2>1 DEF Typed, AtRung
<1>4. ASSUME NEW pick \in Methods, AskRoute(f, pick) PROVE Typed(f)'
  <2>1. /\ fetch'[f].pc = "rung" /\ fetch'[f].pos = fetch[f].pos /\ fetch'[f].order = AskOrder(pick)
        /\ fetch[f].pos = Len(Lookups) + 1
        /\ fetch'[f].domain = fetch[f].domain /\ fetch'[f].set = fetch[f].set
        /\ fetch'[f].route = "ask" /\ fetch'[f].tried = fetch[f].tried \cup {Name(f), pick}
        /\ fetch'[f].reported = fetch[f].reported /\ fetch'[f].rung = fetch[f].rung
    BY <1>0, <1>4 DEF AskRoute, Asks, Fields
  <2>2. fetch[f].pos <= Len(fetch[f].order)
    BY <1>4 DEF AskRoute, AtUntriedRung, More
  <2>3. Name(f) \in Rungs /\ pick \in Rungs
    BY <2>2 DEF Typed, Name, Rungs
  <2>4. AskOrder(pick) \in Seq(Rungs) /\ fetch[f].pos <= Len(AskOrder(pick))
    BY <2>1, AskOrderIsASeq, OrdersAssumption
  <2>. QED  BY <2>1, <2>3, <2>4 DEF Typed
<1>5. CASE TryRung(f)
  <2>1. /\ fetch'[f].pc = "rung" /\ fetch'[f].pos = fetch[f].pos /\ fetch'[f].order = fetch[f].order
        /\ fetch'[f].domain = fetch[f].domain /\ fetch'[f].set = fetch[f].set
        /\ fetch'[f].route = fetch[f].route /\ fetch'[f].tried = fetch[f].tried \cup {Name(f)}
        /\ fetch'[f].reported = fetch[f].reported /\ fetch'[f].rung = fetch[f].rung
    BY <1>0, <1>5 DEF TryRung, Fields
  <2>2. fetch[f].pos <= Len(fetch[f].order)
    BY <1>5 DEF TryRung, AtUntriedRung, More
  <2>3. Name(f) \in Rungs
    BY <2>2 DEF Typed, Name
  <2>. QED  BY <2>1, <2>2, <2>3 DEF Typed
\* A rung is over: reported or not, and the next position or the same one.
<1>6. ASSUME /\ fetch'[f].order = fetch[f].order
             /\ fetch'[f].pos = fetch[f].pos \/ fetch'[f].pos = fetch[f].pos + 1
             /\ fetch'[f].domain = fetch[f].domain /\ fetch'[f].set = fetch[f].set
             /\ fetch'[f].route = fetch[f].route /\ fetch'[f].tried = fetch[f].tried
             /\ fetch'[f].pc \notin AtRung \/ (fetch[f].pc \in AtRung /\ fetch'[f].pos = fetch[f].pos)
             /\ \/ fetch'[f].reported = fetch[f].reported
                \/ fetch[f].pc \in AtRung /\ fetch'[f].reported = fetch[f].reported \cup {Name(f)}
             /\ \/ fetch'[f].rung = fetch[f].rung
                \/ fetch[f].pc \in AtRung /\ fetch'[f].rung = Name(f)
      PROVE  Typed(f)'
  BY <1>1, <1>6 DEF Typed
<1>7. CASE Exhausted(f) \/ CloseSession(f)
  BY <1>0, <1>6, <1>7 DEF Exhausted, CloseSession, Fields, AtRung
<1>8. CASE RungSkipped(f) \/ NeedsHuman(f) \/ GetFails(f)
  <2>1. "climb" \notin AtRung
    BY DEF AtRung
  <2>. QED  BY <1>0, <1>6, <1>8, <2>1, AfterSkip
<1>9. ASSUME NEW content \in BOOLEAN, PageRead(f, content) PROVE Typed(f)'
  <2>1. "climb" \notin AtRung /\ "record" \notin AtRung
    BY DEF AtRung
  <2>. QED  BY <1>0, <1>6, <1>9, <2>1, AfterRead
<1>10. ASSUME NEW opens \in BOOLEAN, NEW up \in BOOLEAN, OpenHeaded(f, opens, up) PROVE Typed(f)'
  <2>1. CASE opens
    BY <1>0, <1>6, <1>10, <2>1 DEF OpenHeaded, Fields, AtRung
  <2>2. CASE ~opens
    BY <1>0, <1>6, <1>10, <2>2 DEF OpenHeaded, Skipped, Fields, AtRung
  <2>. QED  BY <2>1, <2>2
<1>11. CASE Finish(f)
  <2>1. CASE RecordFetch(f)
    BY <1>0, <1>6, <2>1 DEF RecordFetch, Fields, AtRung
  <2>2. CASE WriteTmp(f) \/ RenameTmp(f)
    BY <1>0, <1>6, <2>2 DEF WriteTmp, RenameTmp, Fields, AtRung
  <2>3. CASE SaveFails(f) \/ CloseWindow(f)
    BY <1>0, <1>6, <2>3 DEF SaveFails, CloseWindow, Fields, AtRung
  <2>. QED  BY <1>11, <2>1, <2>2, <2>3 DEF Finish
<1>. QED
  BY <1>2, <1>3, <1>4, <1>5, <1>7, <1>8, <1>9, <1>10, <1>11 DEF Steps, Climb

-----------------------------------------------------------------------------
(* The counts.  A copy that is up to date differs from the ledger by what its fetch adds. *)

Hit(f) == fetch[f].content /\ fetch[f].rung \in Methods
Miss(f) == ~fetch[f].content /\ fetch[f].ran
Adds(b) == IF b THEN 1 ELSE 0
Saving == {"tmp", "rename"}

\* A copy that was made of this version of the ledger counts what it does, and the fetch's
\* own outcome once that is recorded.
CopyInv(f) ==
    /\ fetch[f].base \in Nat /\ fetch[f].base <= version
    /\ fetch[f].pc \in Saving => fetch[f].set.auto
    /\ fetch[f].base = version /\ fetch[f].set.auto /\ fetch[f].pc # "off" /\ ~Over(f) =>
         \A d \in Domains :
             LET own == fetch[f].pc \in Saving /\ d = fetch[f].domain
             IN  /\ fetch[f].copy[d].ok = ledger[d].ok + Adds(own /\ Hit(f))
                 /\ fetch[f].copy[d].fail = ledger[d].fail + Adds(own /\ Miss(f))

ForgetInv ==
    /\ forget.pc \in {"off", "tmp", "rename", "end"}
    /\ forget.base \in Nat /\ forget.base <= version
    /\ forget.pc \in Saving /\ forget.base = version =>
         \A d \in Domains \ {forget.domain} : forget.copy[d] = ledger[d]

\* The counts of every domain that --forget has not loaded the ledger for.
CountsHold ==
    \A d \in Domains :
        ~outdated /\ (forget.pc = "off" \/ forget.domain # d) =>
            /\ ledger[d].ok = Cardinality(Answered(d))
            /\ ledger[d].fail = Cardinality(Failed(d))

CountInv ==
    /\ version \in Nat
    /\ \A f \in Fetches : CopyInv(f)
    /\ ForgetInv
    /\ CountsHold

\* Who counts for a domain: unless a fetch is over only now, the same as before.
CountsAs(f, d, outcome) == Over(f) /\ fetch[f].set.auto /\ fetch[f].domain = d /\ outcome

LEMMA CountsStay ==
    ASSUME NEW f \in Fetches, \A g \in Fetches \ {f} : fetch'[g] = fetch[g], NEW d \in Domains,
           CountsAs(f, d, Hit(f))' <=> CountsAs(f, d, Hit(f)),
           CountsAs(f, d, Miss(f))' <=> CountsAs(f, d, Miss(f))
    PROVE  Answered(d)' = Answered(d) /\ Failed(d)' = Failed(d)
BY DEF Answered, Failed, CountsAs, Hit, Miss, Over

\* The fields that the counts rest on, of a fetch whose climb goes on.
LEMMA CopyStays ==
    ASSUME NEW f \in Fetches, CopyInv(f), UNCHANGED <<ledger, version>>,
           fetch'[f].base = fetch[f].base, fetch'[f].set = fetch[f].set, fetch'[f].copy = fetch[f].copy,
           fetch[f].pc \notin Saving \cup {"off"}, ~Over(f), fetch'[f].pc \notin Saving
    PROVE  CopyInv(f)'
BY DEF CopyInv, Adds

\* A step that leaves the ledger, and the outcome of what is over.
LEMMA CountsKeep ==
    ASSUME IInv, CountInv, NEW f \in Fetches, Steps(f), UNCHANGED <<ledger, version, forget, outdated>>,
           CopyInv(f)',
           \A d \in Domains : /\ CountsAs(f, d, Hit(f))' <=> CountsAs(f, d, Hit(f))
                              /\ CountsAs(f, d, Miss(f))' <=> CountsAs(f, d, Miss(f))
    PROVE  CountInv'
<1>1. \A g \in Fetches \ {f} : fetch'[g] = fetch[g]
  BY OthersStay DEF IInv
<1>2. \A d \in Domains : Answered(d)' = Answered(d) /\ Failed(d)' = Failed(d)
  BY <1>1, CountsStay
<1>3. \A g \in Fetches \ {f} : CopyInv(g)'
  BY <1>1 DEF CountInv, CopyInv, Hit, Miss, Over
<1>4. CountsHold'
  BY <1>2 DEF CountInv, CountsHold
<1>5. ForgetInv'
  BY DEF CountInv, ForgetInv
<1>. QED  BY <1>3, <1>4, <1>5 DEF CountInv

\* A fetch that climbs is not counted, before or after a step of its climb.
LEMMA ClimbCounts ==
    ASSUME IInv, CountInv, NEW f \in Fetches, Climb(f)
    PROVE  CountInv'
<1>. DEFINE Same == /\ fetch'[f].base = fetch[f].base /\ fetch'[f].set = fetch[f].set
                    /\ fetch'[f].copy = fetch[f].copy
                    /\ fetch[f].pc \in {"climb"} \cup AtRung
                    /\ fetch'[f].pc \in {"climb", "record"} \cup AtRung
<1>0. fetch = [g \in Fetches |-> fetch[g]] /\ DOMAIN fetch[f] = Fields /\ Shaped(f)
  BY DEF IInv, Shaped
<1>1. UNCHANGED <<ledger, version, forget, outdated>>
  BY DEF Climb, SkipTried, AskRoute, TryRung, Exhausted, RungSkipped, NeedsHuman, PageRead,
         CloseSession, OpenHeaded, GetFails
<1>2. Same
  <2>1. CASE SkipTried(f) \/ TryRung(f) \/ Exhausted(f) \/ CloseSession(f)
    BY <1>0, <2>1 DEF SkipTried, TryRung, Exhausted, AtUntriedRung, CloseSession, Fields, AtRung
  <2>2. ASSUME NEW pick \in Methods, AskRoute(f, pick) PROVE Same
    BY <1>0, <2>2 DEF AskRoute, AtUntriedRung, Fields, AtRung
  <2>3. CASE RungSkipped(f) \/ GetFails(f)
    BY <1>0, <2>3 DEF RungSkipped, GetFails, Skipped, Fields, AtRung
  <2>4. CASE NeedsHuman(f)
    BY <1>0, <2>4 DEF NeedsHuman, Skipped, Fields, AtRung
  <2>5. ASSUME NEW content \in BOOLEAN, PageRead(f, content) PROVE Same
    BY <1>0, <2>5, AfterRead, ReadFlags DEF AtRung
  <2>6. ASSUME NEW opens \in BOOLEAN, NEW up \in BOOLEAN, OpenHeaded(f, opens, up) PROVE Same
    <3>1. CASE opens
      BY <1>0, <2>6, <3>1 DEF OpenHeaded, Fields, AtRung
    <3>2. CASE ~opens
      BY <1>0, <2>6, <3>2 DEF OpenHeaded, Skipped, Fields, AtRung
    <3>. QED  BY <3>1, <3>2
  <2>. QED  BY <2>1, <2>2, <2>3, <2>4, <2>5, <2>6 DEF Climb
<1>3. ~Over(f) /\ ~Over(f)' /\ fetch[f].pc \notin Saving \cup {"off"} /\ fetch'[f].pc \notin Saving
  BY <1>2 DEF Over, Saving, AtRung
<1>4. CopyInv(f)'
  <2>1. CopyInv(f)
    BY DEF CountInv
  <2>. QED  BY <1>1, <1>2, <1>3, <2>1, CopyStays
<1>5. \A d \in Domains : /\ CountsAs(f, d, Hit(f))' <=> CountsAs(f, d, Hit(f))
                         /\ CountsAs(f, d, Miss(f))' <=> CountsAs(f, d, Miss(f))
  BY <1>3 DEF CountsAs
<1>. QED  BY <1>1, <1>4, <1>5, CountsKeep DEF Steps

\* A fetch begins with the ledger as it is.
LEMMA StartCounts ==
    ASSUME IInv, LedgerInv, CountInv, NEW f \in Fetches, NEW d \in Domains, NEW s \in Settings, Start(f, d, s)
    PROVE  CountInv'
<1>0. fetch = [g \in Fetches |-> fetch[g]] /\ DOMAIN fetch[f] = Fields
  BY DEF IInv, Shaped
<1>1. UNCHANGED <<ledger, version, forget, outdated>> /\ fetch[f].pc = "off"
  BY DEF Start
<1>2. /\ fetch'[f].pc = "climb" /\ fetch'[f].base = version /\ fetch'[f].set = s
      /\ fetch'[f].copy = IF s.auto THEN ledger ELSE NoLedger
  BY <1>0 DEF Start, Fields
<1>3. ~Over(f) /\ ~Over(f)' /\ fetch'[f].pc \notin Saving
  BY <1>1, <1>2 DEF Over, Saving
<1>4. CopyInv(f)'
  <2>1. version \in Nat /\ \A e \in Domains : ledger[e].ok \in Nat /\ ledger[e].fail \in Nat
    BY DEF CountInv, LedgerInv, Sound, Ledgers, Entries
  <2>. QED  BY <1>1, <1>2, <1>3, <2>1 DEF CopyInv, Adds
<1>5. \A e \in Domains : /\ CountsAs(f, e, Hit(f))' <=> CountsAs(f, e, Hit(f))
                         /\ CountsAs(f, e, Miss(f))' <=> CountsAs(f, e, Miss(f))
  BY <1>3 DEF CountsAs
<1>. QED  BY <1>1, <1>4, <1>5, CountsKeep DEF Steps

\* The outcome is added to the copy; with none, the fetch is over and not counted.
LEMMA RecordCounts ==
    ASSUME IInv, LedgerInv, CountInv, NEW f \in Fetches, RecordFetch(f)
    PROVE  CountInv'
<1>. DEFINE d == fetch[f].domain
            entry == fetch[f].copy[d]
            changed == fetch[f].set.auto /\ Record(f) # entry
<1>0. fetch = [g \in Fetches |-> fetch[g]] /\ DOMAIN fetch[f] = Fields
  BY DEF IInv, Shaped
<1>1. UNCHANGED <<ledger, version, forget, outdated>> /\ fetch[f].pc = "record"
  BY DEF RecordFetch
<1>2. d \in Domains /\ fetch[f].copy \in Ledgers /\ entry \in Entries
  BY <1>1 DEF LedgerInv, Sound, Ledgers
<1>3. /\ entry.ok \in Nat /\ entry.fail \in Nat
      /\ Record(f).ok = entry.ok + Adds(Hit(f)) /\ Record(f).fail = entry.fail + Adds(Miss(f))
  <2>1. entry.ok \in Nat /\ entry.fail \in Nat /\ DOMAIN entry = {"rung", "ok", "fail"}
    BY <1>2 DEF Entries
  <2>2. CASE Hit(f)
    <3>1. Record(f) = [entry EXCEPT !.rung = fetch[f].rung, !.ok = @ + 1] /\ ~Miss(f)
      BY <2>2 DEF Record, Hit, Miss
    <3>. QED  BY <2>1, <2>2, <3>1 DEF Adds
  <2>3. CASE ~Hit(f) /\ Miss(f)
    <3>1. Record(f) = [entry EXCEPT !.fail = @ + 1]
      BY <2>3 DEF Record, Hit, Miss
    <3>. QED  BY <2>1, <2>3, <3>1 DEF Adds
  <2>4. CASE ~Hit(f) /\ ~Miss(f)
    <3>1. Record(f) = entry
      BY <2>4 DEF Record, Hit, Miss
    <3>. QED  BY <2>1, <2>4, <3>1 DEF Adds
  <2>. QED  BY <2>2, <2>3, <2>4
<1>4. fetch[f].set.auto /\ ~changed => ~Hit(f) /\ ~Miss(f)
  BY <1>3 DEF Adds
<1>5. /\ fetch'[f].base = fetch[f].base /\ fetch'[f].set = fetch[f].set /\ fetch'[f].domain = d
      /\ fetch'[f].content = fetch[f].content /\ fetch'[f].rung = fetch[f].rung
      /\ fetch'[f].ran = fetch[f].ran
      /\ fetch'[f].pc = IF changed THEN "tmp" ELSE "close"
      /\ fetch'[f].copy = IF changed THEN [fetch[f].copy EXCEPT ![d] = Record(f)] ELSE fetch[f].copy
  BY <1>0 DEF RecordFetch, Fields
<1>. HIDE DEF changed, entry
<1>6. ~Over(f) /\ (Hit(f)' <=> Hit(f)) /\ (Miss(f)' <=> Miss(f))
  BY <1>1, <1>5 DEF Over, Hit, Miss, Methods
<1>7. \A e \in Domains : /\ CountsAs(f, e, Hit(f))' <=> CountsAs(f, e, Hit(f))
                         /\ CountsAs(f, e, Miss(f))' <=> CountsAs(f, e, Miss(f))
  <2>1. Over(f)' => ~changed
    BY <1>5 DEF Over
  <2>. QED  BY <1>4, <1>5, <1>6, <2>1 DEF CountsAs
<1>8. CopyInv(f)'
  <2>1. CopyInv(f) /\ \A e \in Domains : ledger[e].ok \in Nat /\ ledger[e].fail \in Nat
    BY DEF CountInv, LedgerInv, Sound, Ledgers, Entries
  <2>2. CASE ~changed
    <3>1. fetch'[f].pc = "close" /\ Over(f)'
      BY <1>5, <2>2 DEF Over
    <3>. QED  BY <1>1, <1>5, <2>1, <3>1 DEF CopyInv, Saving
  <2>3. CASE changed
    <3>1. fetch'[f].pc \in Saving /\ fetch[f].set.auto /\ fetch[f].pc \notin Saving /\ fetch[f].pc # "off"
      BY <1>1, <1>5, <2>3 DEF changed, Saving
    <3>2. ASSUME fetch[f].base = version, NEW e \in Domains
          PROVE  /\ fetch[f].copy[e].ok = ledger[e].ok /\ fetch[f].copy[e].fail = ledger[e].fail
      BY <1>6, <2>1, <3>1, <3>2 DEF CopyInv, Adds
    <3>3. ASSUME fetch[f].base = version, NEW e \in Domains
          PROVE  /\ fetch'[f].copy[e].ok = ledger[e].ok + Adds(e = d /\ Hit(f))
                 /\ fetch'[f].copy[e].fail = ledger[e].fail + Adds(e = d /\ Miss(f))
      <4>1. CASE e = d
        <5>1. fetch'[f].copy[e] = Record(f)
          BY <1>2, <1>5, <2>3, <4>1 DEF Ledgers
        <5>. QED  BY <1>3, <3>2, <3>3, <4>1, <5>1 DEF entry, Adds
      <4>2. CASE e # d
        <5>1. fetch'[f].copy[e] = fetch[f].copy[e]
          BY <1>2, <1>5, <2>3, <4>2 DEF Ledgers
        <5>. QED  BY <2>1, <3>2, <3>3, <4>2, <5>1 DEF Adds
      <4>. QED  BY <4>1, <4>2
    <3>. QED  BY <1>1, <1>5, <1>6, <2>1, <3>1, <3>3 DEF CopyInv
  <2>. QED  BY <2>2, <2>3
<1>. QED  BY <1>1, <1>7, <1>8, CountsKeep DEF Steps, Finish

\* A fetch that is written out, or over: the copy and the outcome are as they were.
LEMMA WriteCounts ==
    ASSUME IInv, CountInv, NEW f \in Fetches, WriteTmp(f) \/ CloseWindow(f)
    PROVE  CountInv'
<1>0. fetch = [g \in Fetches |-> fetch[g]] /\ DOMAIN fetch[f] = Fields
  BY DEF IInv, Shaped
<1>1. /\ UNCHANGED <<ledger, version, forget, outdated>>
      /\ \/ fetch[f].pc = "tmp" /\ fetch'[f].pc = "rename"
         \/ fetch[f].pc = "close" /\ fetch'[f].pc = "end"
      /\ fetch'[f].base = fetch[f].base /\ fetch'[f].set = fetch[f].set
      /\ fetch'[f].domain = fetch[f].domain /\ fetch'[f].content = fetch[f].content
      /\ fetch'[f].rung = fetch[f].rung /\ fetch'[f].ran = fetch[f].ran
      /\ fetch'[f].copy = fetch[f].copy
  BY <1>0 DEF WriteTmp, CloseWindow, Fields
<1>2. /\ (Hit(f)' <=> Hit(f)) /\ (Miss(f)' <=> Miss(f)) /\ (Over(f)' <=> Over(f))
      /\ fetch'[f].pc \in Saving <=> fetch[f].pc \in Saving
      /\ fetch[f].pc # "off" /\ fetch'[f].pc # "off"
  BY <1>1 DEF Hit, Miss, Over, Saving, Methods
<1>3. CopyInv(f)'
  <2>1. CopyInv(f)
    BY DEF CountInv
  <2>2. \A d \in Domains :
           (fetch'[f].pc \in Saving /\ d = fetch'[f].domain) = (fetch[f].pc \in Saving /\ d = fetch[f].domain)
    BY <1>1, <1>2
  <2>. QED  BY <1>1, <1>2, <2>1, <2>2 DEF CopyInv, Adds
<1>4. \A d \in Domains : /\ CountsAs(f, d, Hit(f))' <=> CountsAs(f, d, Hit(f))
                         /\ CountsAs(f, d, Miss(f))' <=> CountsAs(f, d, Miss(f))
  BY <1>1, <1>2 DEF CountsAs
<1>. QED  BY <1>1, <1>3, <1>4, CountsKeep DEF Steps, Finish

\* A save that fails, or finds no temporary file, is a history of its own.
LEMMA LostCounts ==
    ASSUME IInv, CountInv, NEW f \in Fetches, Steps(f), UNCHANGED <<ledger, version, forget>>,
           outdated' = TRUE, fetch'[f].pc = "close", fetch'[f].base = fetch[f].base
    PROVE  CountInv'
<1>1. \A g \in Fetches \ {f} : fetch'[g] = fetch[g]
  BY OthersStay DEF IInv
<1>2. \A g \in Fetches \ {f} : CopyInv(g)'
  BY <1>1 DEF CountInv, CopyInv, Hit, Miss, Over
<1>3. CopyInv(f)'
  BY DEF CountInv, CopyInv, Over, Saving
<1>4. CountsHold' /\ ForgetInv'
  BY DEF CountInv, ForgetInv, CountsHold
<1>. QED  BY <1>2, <1>3, <1>4 DEF CountInv

\* Who counts for a domain: one more if the fetch whose save this is has an outcome for it.
LEMMA OneCounts ==
    ASSUME NEW f \in Fetches, NEW T \in SUBSET Fetches, NEW U \in SUBSET Fetches, f \notin T, NEW b \in BOOLEAN,
           U = IF b THEN T \cup {f} ELSE T
    PROVE  Cardinality(T) \in Nat /\ Cardinality(U) = Cardinality(T) + Adds(b)
<1>1. IsFiniteSet(T)
  BY FetchesAssumption, FS_Subset
<1>2. Cardinality(T) \in Nat
  BY <1>1, FS_CardinalityType
<1>3. CASE b
  <2>1. Cardinality(T \cup {f}) = Cardinality(T) + 1
    <3>1. Cardinality(T \cup {f}) = IF f \in T THEN Cardinality(T) ELSE Cardinality(T) + 1
      BY Zenon, <1>1, FS_AddElement
    <3>. QED  BY <3>1
  <2>. QED  BY <1>2, <1>3, <2>1 DEF Adds
<1>4. CASE ~b
  BY <1>2, <1>4 DEF Adds
<1>. QED  BY <1>2, <1>3, <1>4

LEMMA RenameCounts ==
    ASSUME IInv, LedgerInv, CountInv, NEW f \in Fetches, RenameTmp(f)
    PROVE  CountInv'
<1>0. fetch = [g \in Fetches |-> fetch[g]] /\ DOMAIN fetch[f] = Fields
  BY DEF IInv, Shaped
<1>1. /\ fetch[f].pc = "rename" /\ fetch'[f].pc = "close" /\ UNCHANGED forget
      /\ fetch'[f].base = fetch[f].base /\ fetch'[f].set = fetch[f].set
      /\ fetch'[f].domain = fetch[f].domain /\ fetch'[f].content = fetch[f].content
      /\ fetch'[f].rung = fetch[f].rung /\ fetch'[f].ran = fetch[f].ran
  BY <1>0 DEF RenameTmp, Fields
<1>2. CASE tmp = NoTmp
  <2>1. UNCHANGED <<ledger, version>> /\ outdated' = TRUE
    BY <1>2 DEF RenameTmp, Rename
  <2>. QED  BY <1>1, <2>1, LostCounts DEF Steps, Finish
<1>3. CASE tmp # NoTmp
  <2>1. /\ ledger' = tmp /\ version' = version + 1
        /\ outdated' = (outdated \/ fetch[f].base # version \/ tmp # fetch[f].copy)
    BY <1>3 DEF RenameTmp, Rename
  <2>2. \A g \in Fetches : fetch'[g].base = fetch[g].base /\ fetch'[g].set = fetch[g].set
                           /\ (fetch'[g].pc \in Saving => fetch[g].pc \in Saving)
    BY <1>0, <1>1, OthersStay DEF Steps, Finish, Saving
  <2>3. version' \in Nat /\ ForgetInv' /\ \A g \in Fetches : CopyInv(g)'
    <3>1. \A n \in Nat : n <= version => n <= version + 1 /\ n # version + 1
      BY DEF CountInv
    <3>. QED  BY <1>1, <2>1, <2>2, <3>1 DEF CountInv, CopyInv, ForgetInv
  <2>4. ASSUME ~outdated', NEW d \in Domains, forget'.pc = "off" \/ forget'.domain # d
        PROVE  ledger'[d].ok = Cardinality(Answered(d))' /\ ledger'[d].fail = Cardinality(Failed(d))'
    <3>1. ~outdated /\ fetch[f].base = version /\ ledger' = fetch[f].copy
      BY <2>1, <2>4
    <3>. DEFINE own == d = fetch[f].domain
    <3>2. /\ ledger'[d].ok = ledger[d].ok + Adds(own /\ Hit(f))
          /\ ledger'[d].fail = ledger[d].fail + Adds(own /\ Miss(f))
      <4>1. fetch[f].set.auto /\ ~Over(f) /\ fetch[f].pc \in Saving
        BY <1>1 DEF CountInv, CopyInv, Over, Saving
      <4>2. (fetch[f].pc \in Saving /\ d = fetch[f].domain) = own
        BY <4>1
      <4>. QED  BY <1>1, <3>1, <4>1, <4>2 DEF CountInv, CopyInv
    <3>3. ledger[d].ok = Cardinality(Answered(d)) /\ ledger[d].fail = Cardinality(Failed(d))
      BY <1>1, <2>4, <3>1 DEF CountInv, CountsHold
    <3>4. /\ f \notin Answered(d) /\ f \notin Failed(d)
          /\ Answered(d) \in SUBSET Fetches /\ Failed(d) \in SUBSET Fetches
          /\ Answered(d)' \in SUBSET Fetches /\ Failed(d)' \in SUBSET Fetches
      BY <1>1 DEF Answered, Failed, Over
    <3>5. /\ Answered(d)' = IF own /\ Hit(f) THEN Answered(d) \cup {f} ELSE Answered(d)
          /\ Failed(d)' = IF own /\ Miss(f) THEN Failed(d) \cup {f} ELSE Failed(d)
      <4>1. \A g \in Fetches \ {f} : fetch'[g] = fetch[g]
        BY <1>0, OthersStay DEF Steps, Finish
      <4>2. fetch'[f].set.auto /\ Over(f)'
        BY <1>1 DEF CountInv, CopyInv, Saving, Over
      <4>3. f \in Answered(d)' <=> own /\ Hit(f)
        BY <1>1, <4>2 DEF Answered, Hit, Over, Methods
      <4>4. f \in Failed(d)' <=> own /\ Miss(f)
        BY <1>1, <4>2 DEF Failed, Miss, Over
      <4>5. \A g \in Fetches \ {f} : /\ g \in Answered(d)' <=> g \in Answered(d)
                                     /\ g \in Failed(d)' <=> g \in Failed(d)
        BY <4>1 DEF Answered, Failed, Over, Methods
      <4>. QED  BY <3>4, <4>3, <4>4, <4>5
    <3>6. Cardinality(Answered(d)') = Cardinality(Answered(d)) + Adds(own /\ Hit(f))
      <4>1. (own /\ Hit(f)) \in BOOLEAN
        OBVIOUS
      <4>. QED  BY <3>4, <3>5, <4>1, OneCounts
    <3>7. Cardinality(Failed(d)') = Cardinality(Failed(d)) + Adds(own /\ Miss(f))
      <4>1. (own /\ Miss(f)) \in BOOLEAN
        OBVIOUS
      <4>. QED  BY <3>4, <3>5, <4>1, OneCounts
    <3>. QED  BY <3>2, <3>3, <3>6, <3>7
  <2>5. CountsHold'
    BY <2>4 DEF CountsHold
  <2>. QED  BY <2>3, <2>5 DEF CountInv
<1>. QED  BY <1>2, <1>3

\* --forget leaves the other domains as they were, if its copy is up to date.
LEMMA ForgetCounts ==
    ASSUME LedgerInv, CountInv, Forget
    PROVE  CountInv'
<1>0. DOMAIN forget = {"pc", "domain", "copy", "base"} /\ UNCHANGED fetch
  BY DEF LedgerInv, Forget, ForgetLoad, ForgetTmp, ForgetRename
<1>1. \A d \in Domains : Answered(d)' = Answered(d) /\ Failed(d)' = Failed(d)
  BY <1>0 DEF Answered, Failed, Over
<1>2. ASSUME UNCHANGED <<ledger, version>> PROVE \A f \in Fetches : CopyInv(f)'
  BY <1>0, <1>2 DEF CountInv, CopyInv, Hit, Miss, Over
<1>3. ASSUME NEW d \in Domains, ForgetLoad(d) PROVE CountInv'
  <2>1. /\ UNCHANGED <<ledger, version, outdated>> /\ forget.pc = "off"
        /\ forget' = [pc |-> "tmp", domain |-> d, copy |-> [ledger EXCEPT ![d] = NoEntry], base |-> version]
    BY <1>3 DEF ForgetLoad
  <2>2. \A e \in Domains \ {d} : [ledger EXCEPT ![d] = NoEntry][e] = ledger[e]
    BY DEF LedgerInv, Sound, Ledgers
  <2>3. ForgetInv'
    BY <2>1, <2>2 DEF CountInv, ForgetInv
  <2>4. CountsHold'
    BY <1>1, <2>1 DEF CountInv, CountsHold
  <2>. QED  BY <1>2, <2>1, <2>3, <2>4 DEF CountInv
<1>4. CASE ForgetTmp
  <2>1. /\ UNCHANGED <<ledger, version, outdated>> /\ forget.pc = "tmp" /\ forget'.pc = "rename"
        /\ forget'.domain = forget.domain /\ forget'.copy = forget.copy /\ forget'.base = forget.base
    BY <1>0, <1>4 DEF ForgetTmp
  <2>2. ForgetInv'
    BY <2>1 DEF CountInv, ForgetInv, Saving
  <2>3. CountsHold'
    BY <1>1, <2>1 DEF CountInv, CountsHold
  <2>. QED  BY <1>2, <2>1, <2>2, <2>3 DEF CountInv
<1>5. CASE ForgetRename
  <2>1. /\ forget.pc = "rename" /\ forget'.pc = "end"
        /\ forget'.domain = forget.domain /\ forget'.copy = forget.copy /\ forget'.base = forget.base
    BY <1>0, <1>5 DEF ForgetRename
  <2>2. CASE tmp = NoTmp
    <3>1. UNCHANGED <<ledger, version>> /\ outdated' = TRUE
      BY <1>5, <2>2 DEF ForgetRename, Rename
    <3>2. CountsHold' /\ ForgetInv'
      BY <2>1, <3>1 DEF CountInv, ForgetInv, CountsHold, Saving
    <3>. QED  BY <1>2, <3>1, <3>2 DEF CountInv
  <2>3. CASE tmp # NoTmp
    <3>1. /\ ledger' = tmp /\ version' = version + 1
          /\ outdated' = (outdated \/ forget.base # version \/ tmp # forget.copy)
      BY <1>5, <2>3 DEF ForgetRename, Rename
    <3>2. version' \in Nat /\ ForgetInv' /\ \A g \in Fetches : CopyInv(g)'
      <4>1. \A n \in Nat : n <= version => n <= version + 1 /\ n # version + 1
        BY DEF CountInv
      <4>. QED  BY <1>0, <2>1, <3>1, <4>1 DEF CountInv, CopyInv, ForgetInv, Saving
    <3>3. ASSUME ~outdated', NEW d \in Domains, forget'.domain # d
          PROVE  ledger'[d] = ledger[d] /\ ~outdated /\ forget.domain # d
      BY <2>1, <3>1, <3>3 DEF CountInv, ForgetInv, Saving
    <3>4. CountsHold'
      BY <1>1, <2>1, <3>3 DEF CountInv, CountsHold
    <3>. QED  BY <3>2, <3>4 DEF CountInv
  <2>. QED  BY <2>2, <2>3
<1>. QED  BY <1>3, <1>4, <1>5 DEF Forget

LEMMA CountInvKeeps == ASSUME IInv, LedgerInv, CountInv, [Next]_vars PROVE CountInv'
<1>1. CASE UNCHANGED vars
  <2>1. UNCHANGED <<ledger, fetch, forget, version, outdated>>
    BY <1>1 DEF vars
  <2>2. \A f \in Fetches : CopyInv(f)'
    BY <2>1 DEF CountInv, CopyInv, Hit, Miss, Over
  <2>3. ForgetInv'
    BY <2>1 DEF CountInv, ForgetInv
  <2>4. CountsHold'
    BY <2>1 DEF CountInv, CountsHold, Answered, Failed, Over
  <2>. QED  BY <2>1, <2>2, <2>3, <2>4 DEF CountInv
<1>2. CASE Forget
  BY <1>2, ForgetCounts
<1>3. ASSUME NEW f \in Fetches, Steps(f) PROVE CountInv'
  <2>1. CASE Climb(f)
    BY <2>1, ClimbCounts
  <2>2. ASSUME NEW d \in Domains, NEW s \in Settings, Start(f, d, s) PROVE CountInv'
    BY <2>2, StartCounts
  <2>3. CASE RecordFetch(f) \/ WriteTmp(f) \/ CloseWindow(f) \/ RenameTmp(f)
    BY <2>3, RecordCounts, WriteCounts, RenameCounts
  <2>4. CASE SaveFails(f)
    <3>1. /\ UNCHANGED <<ledger, version, forget>> /\ outdated' = TRUE /\ fetch'[f].pc = "close"
          /\ fetch'[f].base = fetch[f].base
      BY <2>4 DEF SaveFails, IInv, Shaped, Fields
    <3>. QED  BY <1>3, <3>1, LostCounts
  <2>. QED  BY <1>3, <2>1, <2>2, <2>3, <2>4 DEF Steps, Finish
<1>. QED  BY <1>1, <1>2, <1>3 DEF Next, Steps

LEMMA CountsInit == ASSUME Init PROVE CountInv /\ TypeInv
<1>1. \A f \in Fetches : fetch[f] = NotStarted
  BY DEF Init
<1>2. TypeInv
  <2>1. ASSUME NEW f \in Fetches PROVE Typed(f)
    <3>1. <<>> \in Seq(Rungs)
      BY EmptySeq
    <3>2. /\ fetch[f].domain = None /\ fetch[f].set = NoSetting /\ fetch[f].route = "default"
          /\ fetch[f].order = <<>> /\ fetch[f].pos = 1 /\ fetch[f].pc = "off"
          /\ fetch[f].tried = {} /\ fetch[f].reported = {} /\ fetch[f].rung = None
      BY <1>1 DEF NotStarted
    <3>. QED  BY <3>1, <3>2 DEF Typed, AtRung
  <2>2. ASSUME NEW f \in Fetches PROVE Answers(f)
    <3>1. /\ fetch[f].ran = FALSE /\ fetch[f].opened = FALSE
          /\ fetch[f].human = FALSE /\ fetch[f].content = FALSE
      BY <1>1 DEF NotStarted
    <3>. QED  BY <3>1, Zenon DEF Answers
  <2>. QED  BY <2>1, <2>2 DEF TypeInv
<1>3. (\A f \in Fetches : CopyInv(f)) /\ ForgetInv /\ version \in Nat
  BY <1>1 DEF Init, NotStarted, NoSetting, CopyInv, ForgetInv, Saving
<1>4. CountsHold
  <2>1. \A d \in Domains : Answered(d) = {} /\ Failed(d) = {} /\ ledger[d] = NoEntry
    BY <1>1 DEF Init, NotStarted, Answered, Failed, Over, NoLedger
  <2>. QED  BY <2>1, FS_EmptySet DEF CountsHold, NoEntry
<1>. QED  BY <1>2, <1>3, <1>4 DEF CountInv

LEMMA TypeInvKeeps == ASSUME IInv, TypeInv, [Next]_vars PROVE TypeInv'
<1>1. CASE UNCHANGED fetch
  BY <1>1 DEF TypeInv, Typed, Answers, Name
<1>2. CASE Forget
  BY <1>1, <1>2 DEF Forget, ForgetLoad, ForgetTmp, ForgetRename
<1>3. ASSUME NEW f \in Fetches, Steps(f) PROVE TypeInv'
  <2>1. \A g \in Fetches \ {f} : fetch'[g] = fetch[g]
    BY <1>3, OthersStay DEF IInv
  <2>2. \A g \in Fetches \ {f} : Typed(g)' /\ Answers(g)'
    BY <2>1 DEF TypeInv, Typed, Answers
  <2>3. Typed(f)' /\ Answers(f)'
    BY <1>3, TypedKeeps, AnswersKeep DEF TypeInv
  <2>. QED  BY <2>2, <2>3 DEF TypeInv
<1>. QED  BY <1>1, <1>2, <1>3 DEF Next, Steps, vars

\* fetch.go, ledger.go: no window without its warrant; a domain starts from a rung that gave
\* its page; and while every save is made from an up-to-date copy the ledger counts, for each
\* domain that --forget has not touched, the fetches that a method answered and those that
\* failed.  For any number of fetches at once, any ladder and any settings.
THEOREM LedgerIsSoundHolds == Spec => []LedgerIsSound
<1>. DEFINE Inv == IInv /\ LedgerInv /\ CountInv /\ TypeInv /\ outdated \in BOOLEAN
<1>1. Init => Inv
  <2>1. Init => outdated \in BOOLEAN
    BY DEF Init
  <2>. QED  BY <2>1, InitHolds, LedgerInit, CountsInit
<1>2. Inv /\ [Next]_vars => Inv'
  <2>1. ASSUME outdated \in BOOLEAN, [Next]_vars PROVE outdated' \in BOOLEAN
    <3>1. CASE UNCHANGED outdated
      BY <2>1, <3>1
    <3>2. CASE ~UNCHANGED outdated
      <4>1. \E copy, base : Rename(copy, base) \/ outdated' = TRUE
        BY <2>1, <3>2 DEF vars, Next, Climb, Finish, Forget, Start, SkipTried, AskRoute, TryRung, Exhausted,
           RungSkipped, NeedsHuman, PageRead, CloseSession, OpenHeaded, GetFails, RecordFetch, WriteTmp,
           RenameTmp, SaveFails, CloseWindow, ForgetLoad, ForgetTmp, ForgetRename
      <4>. QED  BY <4>1 DEF Rename
    <3>. QED  BY <3>1, <3>2
  <2>. QED  BY <2>1, StepKeeps, LedgerInvKeeps, CountInvKeeps, TypeInvKeeps
<1>3. Inv => LedgerIsSound
  <2>. SUFFICES ASSUME Inv PROVE LedgerIsSound
    OBVIOUS
  <2>1. WindowIsWarranted /\ LedgerIsTrue
    BY DEF IInv, WindowInv, WindowIsWarranted, LedgerInv, Sound, Given, LedgerRungWorked, LedgerIsTrue, CountInv, CountsHold, LedgerCounts
  <2>2. ASSUME NEW f \in Fetches
        PROVE  /\ fetch[f].pc \in FetchPCs /\ fetch[f].copy \in [Domains -> Entries]
               /\ fetch[f].domain \in Domains \cup {None} /\ fetch[f].set \in Settings \cup {NoSetting}
               /\ fetch[f].route \in {"default", "ledger", "ask"}
               /\ ToSet(fetch[f].order) \subseteq Rungs
               /\ fetch[f].pos \in Nat
               /\ fetch[f].tried \subseteq Rungs /\ fetch[f].reported \subseteq Rungs
               /\ fetch[f].rung \in Rungs \cup {None}
    <3>1. fetch[f].pc \in FetchPCs
      BY DEF IInv, Shaped, AtRung, Late, FetchPCs
    <3>2. fetch[f].copy \in [Domains -> Entries]
      BY DEF LedgerInv, Sound, Ledgers
    <3>3. ToSet(fetch[f].order) \subseteq Rungs
      BY DEF TypeInv, Typed, ToSet
    <3>. QED  BY <3>1, <3>2, <3>3 DEF TypeInv, Typed
  <2>3. ASSUME NEW f \in Fetches
        PROVE  {fetch[f].ran, fetch[f].opened, fetch[f].human, fetch[f].content} \subseteq BOOLEAN
    BY DEF TypeInv, Answers
  <2>4. /\ ledger \in [Domains -> Entries] /\ (tmp = NoTmp \/ tmp \in [Domains -> Entries])
        /\ forget.copy \in [Domains -> Entries] /\ forget.pc \in {"off", "tmp", "rename", "end"}
        /\ version \in Nat /\ window \in Fetches \cup {None}
    BY DEF LedgerInv, Sound, Ledgers, CountInv, ForgetInv, IInv, WindowInv
  <2>5. TypeOK
    BY <2>2, <2>3, <2>4 DEF TypeOK
  <2>. QED  BY <2>1, <2>5 DEF LedgerIsSound
<1>. QED  BY <1>1, <1>2, <1>3, PTL DEF Spec
==============================================================================
