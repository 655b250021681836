---------------------------- MODULE FetchLadder ----------------------------
(***************************************************************************)
(* `qilla fetch`: climb a ladder of rungs until one returns the page       *)
(* (internal/fetch/fetch.go, ledger.go, http.go: askRoute; cmd/qilla       *)
(* fetch.go: --forget).                                                    *)
(*                                                                         *)
(* A fetch looks the page up in the user's own copies, then tries the      *)
(* methods in the order the per-domain ledger, the fetch-route decider or  *)
(* the default gives.  Every process that fetches shares two things        *)
(* without a lock: the ledger file, read whole when a fetch starts and     *)
(* written whole when it ends, and the browser session, in which at most   *)
(* one headed window is up.  What a rung reads is a choice: the page       *)
(* itself ("content") or something else (a bot check, an error page).      *)
(***************************************************************************)
EXTENDS Naturals, FiniteSets, SequencesExt

CONSTANTS
    Fetches,        \* calls of `qilla fetch`
    Domains,
    Lookups,        \* sequence of rungs: the user's own copies of the page
    DefaultOrder,   \* sequence of rungs: the methods
    Settings,       \* what a fetch may be called with
    ForgetAllowed   \* bound: is `qilla fetch --forget` used

ASSUME RungsAreDistinct ==
    /\ IsInjective(Lookups \o DefaultOrder)
    /\ "headed" \in ToSet(DefaultOrder)
ASSUME SettingsAssumption == \A s \in Settings : s.max \in Nat
ASSUME FetchesAssumption == IsFiniteSet(Fetches)

VARIABLES
    ledger,     \* the ledger file: per domain the rung that worked, and counts
    tmp,        \* ledger.json.tmp
    window,     \* the fetch whose headed window is up in the browser session
    fetch,      \* per fetch: program counter and locals
    forget,     \* the run of `qilla fetch --forget`
    (* history, read by properties only *)
    version,    \* how often the ledger was replaced
    outdated    \* a save failed, or was made from a copy not up to date

vars == <<ledger, tmp, window, fetch, forget, version, outdated>>

Methods == ToSet(DefaultOrder)
Rungs == ToSet(Lookups) \cup Methods
ASSUME OrdersAssumption == Lookups \in Seq(Rungs) /\ DefaultOrder \in Seq(Rungs)
None == "none"

NoEntry == [rung |-> None, ok |-> 0, fail |-> 0]
NoLedger == [d \in Domains |-> NoEntry]
NoTmp == [d \in Domains |-> [NoEntry EXCEPT !.rung = "no file"]]

NoSetting == [auto |-> FALSE, ask |-> FALSE, headed |-> "never", max |-> 0]
FetchPCs == {"off", "climb", "rung", "open", "get", "record", "tmp", "rename", "close", "end"}
NotStarted == [pc |-> "off", domain |-> None, set |-> NoSetting, copy |-> NoLedger, base |-> 0,
               route |-> "default", order |-> <<>>, pos |-> 1, tried |-> {}, reported |-> {},
               ran |-> FALSE, opened |-> FALSE, human |-> FALSE, rung |-> None,
               content |-> FALSE]

Init ==
    /\ ledger = NoLedger
    /\ tmp = NoTmp
    /\ window = None
    /\ fetch = [f \in Fetches |-> NotStarted]
    /\ forget = [pc |-> "off", domain |-> None, copy |-> NoLedger, base |-> 0]
    /\ version = 0
    /\ outdated = FALSE

Name(f) == fetch[f].order[fetch[f].pos]

-----------------------------------------------------------------------------
(* The order of the rungs.                                                  *)

Place(rung) == CHOOSE i \in DOMAIN DefaultOrder : DefaultOrder[i] = rung

\* The methods from the rung the ledger remembers for the domain.
LedgerOrder(entry) == SubSeq(DefaultOrder, Place(entry.rung), Len(DefaultOrder))

\* The decider's pick before the others.
AskOrder(pick) == Lookups \o <<pick>> \o RemoveAt(DefaultOrder, Place(pick))

Start(f, d, s) ==
    LET known == s.auto /\ ledger[d].ok >= 1 /\ ledger[d].rung \in Methods
    IN  /\ fetch[f].pc = "off"
        /\ fetch' = [fetch EXCEPT ![f] =
             [@ EXCEPT !.pc = "climb", !.domain = d, !.set = s,
                       !.copy = IF s.auto THEN ledger ELSE NoLedger, !.base = version,
                       !.route = IF known THEN "ledger" ELSE "default",
                       !.order = Lookups \o (IF known THEN LedgerOrder(ledger[d])
                                                      ELSE DefaultOrder)]]
        /\ UNCHANGED <<ledger, tmp, window, forget, version, outdated>>

\* Mutant: the last position is left out.
More_ButTheLast(f) == fetch[f].pos < Len(fetch[f].order) /\ fetch[f].pos <= fetch[f].set.max

\* Positions are counted in the order chosen.
More(f) == fetch[f].pos <= Len(fetch[f].order) /\ fetch[f].pos <= fetch[f].set.max

Asks(f) ==
    /\ fetch[f].pos = Len(Lookups) + 1
    /\ fetch[f].set.auto /\ fetch[f].set.ask
    /\ fetch[f].route = "default"

AtUntriedRung(f) == fetch[f].pc = "climb" /\ More(f) /\ Name(f) \notin fetch[f].tried

SkipTried(f) ==
    /\ fetch[f].pc = "climb" /\ More(f)
    /\ Name(f) \in fetch[f].tried
    /\ fetch' = [fetch EXCEPT ![f].pos = @ + 1]
    /\ UNCHANGED <<ledger, tmp, window, forget, version, outdated>>

\* The decider puts its pick in front.  The rung that stood there counts as
\* tried already.
AskRoute(f, pick) ==
    /\ AtUntriedRung(f) /\ Asks(f)
    /\ fetch' = [fetch EXCEPT ![f].route = "ask",
                              ![f].order = AskOrder(pick),
                              ![f].tried = @ \cup {Name(f), pick},
                              ![f].pc = "rung"]
    /\ UNCHANGED <<ledger, tmp, window, forget, version, outdated>>

\* No decider to ask, or it does not know.
TryRung(f) ==
    /\ AtUntriedRung(f)
    /\ fetch' = [fetch EXCEPT ![f].tried = @ \cup {Name(f)}, ![f].pc = "rung"]
    /\ UNCHANGED <<ledger, tmp, window, forget, version, outdated>>

Exhausted(f) ==
    /\ fetch[f].pc = "climb" /\ ~More(f)
    /\ fetch' = [fetch EXCEPT ![f].pc = "record"]
    /\ UNCHANGED <<ledger, tmp, window, forget, version, outdated>>

-----------------------------------------------------------------------------
(* One rung.                                                                *)

\* The next position, the rung reported as skipped.
Skipped(f) == [fetch[f] EXCEPT !.pc = "climb", !.pos = @ + 1, !.reported = @ \cup {Name(f)}]

\* A tool is missing, a server does not answer, [fetch] headed is "never", no
\* display is found.
RungSkipped(f) ==
    /\ fetch[f].pc = "rung"
    /\ fetch' = [fetch EXCEPT ![f] = Skipped(f)]
    /\ UNCHANGED <<ledger, tmp, window, forget, version, outdated>>

\* The decider says a person has to act: no window, but it is not "skipped".
NeedsHuman(f) ==
    /\ fetch[f].pc = "rung" /\ Name(f) = "headed"
    /\ fetch[f].set.headed = "ask" /\ fetch[f].set.ask
    /\ fetch' = [fetch EXCEPT ![f] = [Skipped(f) EXCEPT !.human = TRUE, !.ran = TRUE]]
    /\ UNCHANGED <<ledger, tmp, window, forget, version, outdated>>

\* What was read is classified (a challenge page is read again for a while).
\* Content ends the climb.
PageRead(f, content) ==
    /\ \/ fetch[f].pc = "rung" /\ Name(f) # "headed"
       \/ fetch[f].pc = "get"
    /\ fetch' = [fetch EXCEPT ![f] =
         [fetch[f] EXCEPT
                   !.pc = IF content THEN "record" ELSE "climb",
                   !.pos = IF content THEN @ ELSE @ + 1,
                   !.reported = @ \cup {Name(f)},
                   !.ran = @ \/ Name(f) \in Methods,
                   !.rung = Name(f),
                   !.content = content]]
    /\ UNCHANGED <<ledger, tmp, window, forget, version, outdated>>

\* A daemon without a display can never show a window: the session is closed
\* first, whoever's window is in it.
CloseSession(f) ==
    /\ fetch[f].pc = "rung" /\ Name(f) = "headed"
    /\ fetch[f].set.headed # "never"
    /\ ~fetch[f].opened
    /\ window' = None
    /\ fetch' = [fetch EXCEPT ![f].pc = "open"]
    /\ UNCHANGED <<ledger, tmp, forget, version, outdated>>

\* A failed open may leave a window all the same.
OpenHeaded(f, opens, up) ==
    /\ fetch[f].pc = "open"
    /\ fetch' = [fetch EXCEPT ![f] = [(IF opens THEN [fetch[f] EXCEPT !.pc = "get"] ELSE Skipped(f))
                                      EXCEPT !.opened = TRUE]]
    /\ window' = IF up THEN f ELSE window
    /\ UNCHANGED <<ledger, tmp, forget, version, outdated>>

GetFails(f) ==
    /\ fetch[f].pc = "get"
    /\ fetch' = [fetch EXCEPT ![f] = Skipped(f)]
    /\ UNCHANGED <<ledger, tmp, window, forget, version, outdated>>

-----------------------------------------------------------------------------
(* The end of a fetch: ledger, window.                                      *)

\* Mutant: the method the order started with wins the domain.
Record_FirstOfOrder(f) ==
    LET entry == fetch[f].copy[fetch[f].domain]
    IN  CASE fetch[f].content /\ fetch[f].rung \in Methods ->
               [entry EXCEPT !.rung = fetch[f].order[Len(Lookups) + 1], !.ok = @ + 1]
          [] fetch[f].ran /\ ~fetch[f].content -> [entry EXCEPT !.fail = @ + 1]
          [] OTHER -> entry

\* The domain's entry after this fetch.  A lookup's hit leaves it alone, and so
\* does a climb in which no method ran.
Record(f) ==
    LET entry == fetch[f].copy[fetch[f].domain]
    IN  CASE fetch[f].content /\ fetch[f].rung \in Methods ->
               [entry EXCEPT !.rung = fetch[f].rung, !.ok = @ + 1]
          [] fetch[f].ran /\ ~fetch[f].content -> [entry EXCEPT !.fail = @ + 1]
          [] OTHER -> entry

RecordFetch(f) ==
    LET changed == fetch[f].set.auto /\ Record(f) # fetch[f].copy[fetch[f].domain]
    IN  /\ fetch[f].pc = "record"
        /\ fetch' = [fetch EXCEPT ![f] =
             IF changed THEN [fetch[f] EXCEPT !.pc = "tmp", !.copy[fetch[f].domain] = Record(f)]
                        ELSE [fetch[f] EXCEPT !.pc = "close"]]
        /\ UNCHANGED <<ledger, tmp, window, forget, version, outdated>>

WriteTmp(f) ==
    /\ fetch[f].pc = "tmp"
    /\ tmp' = fetch[f].copy
    /\ fetch' = [fetch EXCEPT ![f].pc = "rename"]
    /\ UNCHANGED <<ledger, window, forget, version, outdated>>

\* os.Rename installs whatever the one .tmp file holds now, or fails without it.
Rename(copy, base) ==
    IF tmp = NoTmp
    THEN outdated' = TRUE /\ UNCHANGED <<ledger, tmp, version>>
    ELSE /\ ledger' = tmp
         /\ tmp' = NoTmp
         /\ version' = version + 1
         /\ outdated' = (outdated \/ base # version \/ tmp # copy)

RenameTmp(f) ==
    /\ fetch[f].pc = "rename"
    /\ Rename(fetch[f].copy, fetch[f].base)
    /\ fetch' = [fetch EXCEPT ![f].pc = "close"]
    /\ UNCHANGED <<window, forget>>

\* A ledger write failure never fails a fetch.
SaveFails(f) ==
    /\ fetch[f].pc \in {"tmp", "rename"}
    /\ outdated' = TRUE
    /\ fetch' = [fetch EXCEPT ![f].pc = "close"]
    /\ UNCHANGED <<ledger, tmp, window, forget, version>>

\* The deferred close: the session is closed unless this fetch has its page.
CloseWindow(f) ==
    /\ fetch[f].pc = "close"
    /\ window' = IF fetch[f].opened /\ ~fetch[f].content THEN None ELSE window
    /\ fetch' = [fetch EXCEPT ![f].pc = "end"]
    /\ UNCHANGED <<ledger, tmp, forget, version, outdated>>

-----------------------------------------------------------------------------
(* qilla fetch --forget <domain>.                                           *)

ForgetLoad(d) ==
    /\ forget.pc = "off" /\ ForgetAllowed
    /\ ledger[d] # NoEntry
    /\ forget' = [pc |-> "tmp", domain |-> d, copy |-> [ledger EXCEPT ![d] = NoEntry],
                  base |-> version]
    /\ UNCHANGED <<ledger, tmp, window, fetch, version, outdated>>

ForgetTmp ==
    /\ forget.pc = "tmp"
    /\ tmp' = forget.copy
    /\ forget' = [forget EXCEPT !.pc = "rename"]
    /\ UNCHANGED <<ledger, window, fetch, version, outdated>>

ForgetRename ==
    /\ forget.pc = "rename"
    /\ Rename(forget.copy, forget.base)
    /\ forget' = [forget EXCEPT !.pc = "end"]
    /\ UNCHANGED <<window, fetch>>

Climb(f) ==
    \/ SkipTried(f) \/ TryRung(f) \/ Exhausted(f)
    \/ \E pick \in Methods : AskRoute(f, pick)
    \/ RungSkipped(f) \/ NeedsHuman(f) \/ GetFails(f) \/ CloseSession(f)
    \/ \E content \in BOOLEAN : PageRead(f, content)
    \/ \E opens, up \in BOOLEAN : OpenHeaded(f, opens, up)

Finish(f) == RecordFetch(f) \/ WriteTmp(f) \/ RenameTmp(f) \/ SaveFails(f) \/ CloseWindow(f)

Forget == (\E d \in Domains : ForgetLoad(d)) \/ ForgetTmp \/ ForgetRename

Next ==
    \/ \E f \in Fetches : \/ \E d \in Domains, s \in Settings : Start(f, d, s)
                          \/ Climb(f)
                          \/ Finish(f)
    \/ Forget

Spec == Init /\ [][Next]_vars

-----------------------------------------------------------------------------
(* Properties.                                                              *)

Entries == [rung: Methods \cup {None}, ok: Nat, fail: Nat]

TypeOK ==
    /\ ledger \in [Domains -> Entries]
    /\ tmp = NoTmp \/ tmp \in [Domains -> Entries]
    /\ window \in Fetches \cup {None}
    /\ \A f \in Fetches :
         /\ fetch[f].pc \in FetchPCs
         /\ fetch[f].domain \in Domains \cup {None}
         /\ fetch[f].set \in Settings \cup {NoSetting}
         /\ fetch[f].copy \in [Domains -> Entries]
         /\ fetch[f].route \in {"default", "ledger", "ask"}
         /\ ToSet(fetch[f].order) \subseteq Rungs
         /\ fetch[f].pos \in Nat
         /\ fetch[f].tried \subseteq Rungs /\ fetch[f].reported \subseteq Rungs
         /\ fetch[f].rung \in Rungs \cup {None}
         /\ {fetch[f].ran, fetch[f].opened, fetch[f].human, fetch[f].content} \subseteq BOOLEAN
    /\ forget.pc \in {"off", "tmp", "rename", "end"}
    /\ forget.copy \in [Domains -> Entries]
    /\ version \in Nat
    /\ outdated \in BOOLEAN

Over(f) == fetch[f].pc \in {"close", "end"}

\* A headed window that is up belongs to a fetch that still runs or that got its
\* page: nobody is left with the window of a climb that failed, whichever way
\* the opening failed and whoever else uses the session.
WindowIsWarranted ==
    window # None => fetch[window].pc # "end" \/ fetch[window].content

\* The rung the ledger starts a domain's fetches from did return content there,
\* even when fetches overwrite one another's ledgers.
LedgerRungWorked ==
    \A d \in Domains :
        ledger[d].ok >= 1 =>
            \E f \in Fetches : /\ fetch[f].domain = d
                               /\ fetch[f].content
                               /\ fetch[f].rung = ledger[d].rung

\* As long as each save was made from an up-to-date copy, the ledger counts each
\* domain's fetches: those a method answered, those some method failed.
Answered(d) == {f \in Fetches : Over(f) /\ fetch[f].set.auto /\ fetch[f].domain = d
                                        /\ fetch[f].content /\ fetch[f].rung \in Methods}
Failed(d) == {f \in Fetches : Over(f) /\ fetch[f].set.auto /\ fetch[f].domain = d
                                      /\ ~fetch[f].content /\ fetch[f].ran}
LedgerCounts ==
    \A d \in Domains :
        ~outdated /\ forget.domain # d =>
            /\ ledger[d].ok = Cardinality(Answered(d))
            /\ ledger[d].fail = Cardinality(Failed(d))

\* What the ledger says of a domain is what the fetches went through.
LedgerIsTrue == LedgerRungWorked /\ LedgerCounts

\* What the ladder and its ledger promise together: no window without its warrant, and
\* only methods that gave the page are remembered for it.
LedgerIsSound == TypeOK /\ WindowIsWarranted /\ LedgerIsTrue

WentThrough(f) == Over(f) /\ ~fetch[f].content /\ fetch[f].set.max >= Len(fetch[f].order)

\* A fetch that gives up has every rung of its order in its report, tried or
\* skipped, unless --max-rung or the decider's pick cut it short.
GivesUpAtTheEnd ==
    \A f \in Fetches :
        WentThrough(f) /\ fetch[f].route # "ask"
            => fetch[f].reported = ToSet(fetch[f].order)

\* With the decider's pick in front, the rest of the default order follows.
RestFollowsThePick ==
    \A f \in Fetches :
        WentThrough(f) /\ fetch[f].route = "ask"
            => fetch[f].reported = ToSet(fetch[f].order)
=============================================================================
