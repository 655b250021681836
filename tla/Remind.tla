------------------------------- MODULE Remind -------------------------------
(***************************************************************************)
(* Delivery of reminders (internal/remind/remind.go, cmd/qilla/remind.go).   *)
(* A reminder is an open line of the vault with a due time.  `qilla remind   *)
(* due --notify`, started by a timer and by hand, scans the vault, loads     *)
(* which reminders were delivered, notifies the others, and only then saves  *)
(* the deliveries, all of them at once; `qilla remind reset` edits the same  *)
(* file.  A reminder is its due time and text, so an edited line is another  *)
(* one, and lines that say the same are one reminder.                        *)
(***************************************************************************)
EXTENDS Naturals

CONSTANTS
    Reminders,
    Lines,      \* task lines that have a due time
    KeyOf,      \* the reminder that each is
    Due,        \* the due time of each
    Retention,  \* how long a delivery is remembered
    Ticks,      \* runs of `remind due --notify`: the timer's, one by hand
    Resets,     \* runs of `remind reset`
    Once,       \* bound: the ticks that run a single time
    MaxTime,    \* bound: last tick of the clock
    MaxFaults   \* bound: failed notifications, deaths and failed saves

VARIABLES
    now,
    line,       \* per line: whether it is in the vault, and open
    sent,       \* reminders.json: per reminder, when it was delivered
    tick,       \* per tick: program counter and locals
    reset,      \* per reset: program counter and locals
    faults,
    (* history, read by properties only *)
    last,       \* per reminder: the time of the last notification
    excused,    \* reminders whose delivery was forgotten: reset, or never saved
    overlapped  \* two commands were between load and save together

vars == <<now, line, sent, tick, reset, faults, last, excused, overlapped>>
history == <<last, excused, overlapped>>

Never == MaxTime + 1
Nothing == [r \in Reminders |-> Never]
AtRest == [pc |-> "idle", at |-> 0, due |-> {}, copy |-> Nothing, notified |-> {}]
Over(t) == [AtRest EXCEPT !.pc = IF t \in Once THEN "done" ELSE "idle"]
NotResetting == [pc |-> "off", copy |-> Nothing]

Init ==
    /\ now = 0
    /\ line = [l \in Lines |-> "none"]
    /\ sent = Nothing
    /\ tick = [t \in Ticks |-> AtRest]
    /\ reset = [x \in Resets |-> NotResetting]
    /\ faults = 0
    /\ last = Nothing /\ excused = {} /\ overlapped = FALSE

-----------------------------------------------------------------------------
(* The vault and the clock.                                                 *)

\* remind add, or the user's editor.
AddLine(l) ==
    /\ line[l] = "none"
    /\ line' = [line EXCEPT ![l] = "open"]
    /\ UNCHANGED <<now, sent, tick, reset, faults, history>>

TickLineOff(l) ==
    /\ line[l] = "open"
    /\ line' = [line EXCEPT ![l] = "ticked"]
    /\ UNCHANGED <<now, sent, tick, reset, faults, history>>

Time ==
    /\ now < MaxTime
    /\ now' = now + 1
    /\ UNCHANGED <<line, sent, tick, reset, faults, history>>

-----------------------------------------------------------------------------
(* qilla remind due --notify.                                               *)

\* Between load and save.
Holding == {t \in Ticks : tick[t].pc \in {"notify", "save"}} \cup
           {x \in Resets : reset[x].pc = "save"}

\* DueNow of what is read: a note that cannot be read is passed over.
Scan(t, unread) ==
    /\ tick[t].pc = "idle"
    /\ tick' = [tick EXCEPT ![t] =
         [AtRest EXCEPT !.pc = "load", !.at = now,
                        !.due = {l \in Lines \ unread : line[l] = "open" /\ Due[KeyOf[l]] <= now}]]
    /\ \/ unread = {} /\ UNCHANGED faults
       \/ unread # {} /\ faults < MaxFaults /\ faults' = faults + 1
    /\ UNCHANGED <<now, line, sent, reset, history>>

\* Each line is looked up before any is notified.  With nothing pending the state is
\* not even saved.
LoadState(t) ==
    LET pending == {l \in tick[t].due : sent[KeyOf[l]] = Never}
    IN  /\ tick[t].pc = "load"
        /\ tick' = [tick EXCEPT ![t] =
             IF pending = {} THEN Over(t)
             ELSE [@ EXCEPT !.pc = "notify", !.due = pending, !.copy = sent]]
        /\ overlapped' = (overlapped \/ (pending # {} /\ Holding # {}))
        /\ UNCHANGED <<now, line, sent, reset, faults, last, excused>>

\* The last of the pending lines done, the deliveries are saved.
Notified(t, l, copy, notified) ==
    [tick[t] EXCEPT !.due = tick[t].due \ {l}, !.copy = copy, !.notified = notified,
                    !.pc = IF tick[t].due = {l} THEN "save" ELSE "notify"]

Marked(t, l) == [tick[t].copy EXCEPT ![KeyOf[l]] = tick[t].at]

Notify(t, l) ==
    /\ tick[t].pc = "notify" /\ l \in tick[t].due
    /\ tick' = [tick EXCEPT ![t] = Notified(t, l, Marked(t, l), tick[t].notified \cup {KeyOf[l]})]
    /\ last' = [last EXCEPT ![KeyOf[l]] = tick[t].at]
    /\ excused' = excused \ {KeyOf[l]}
    /\ UNCHANGED <<now, line, sent, reset, faults, overlapped>>

\* Mutant: marked though the notification failed.
NotifyFails_Marked(t, l) ==
    /\ tick[t].pc = "notify" /\ l \in tick[t].due
    /\ faults < MaxFaults
    /\ faults' = faults + 1
    /\ tick' = [tick EXCEPT ![t] = Notified(t, l, Marked(t, l), tick[t].notified)]
    /\ UNCHANGED <<now, line, sent, reset, history>>

\* Not marked: the next tick tries again.
NotifyFails(t, l) ==
    /\ tick[t].pc = "notify" /\ l \in tick[t].due
    /\ faults < MaxFaults
    /\ faults' = faults + 1
    /\ tick' = [tick EXCEPT ![t] = Notified(t, l, tick[t].copy, tick[t].notified)]
    /\ UNCHANGED <<now, line, sent, reset, history>>

\* Save forgets deliveries older than the retention.
Pruned(copy, at) ==
    [r \in Reminders |-> IF copy[r] # Never /\ at > copy[r] + Retention THEN Never ELSE copy[r]]

SaveState(t) ==
    /\ tick[t].pc = "save"
    /\ sent' = Pruned(tick[t].copy, tick[t].at)
    /\ tick' = [tick EXCEPT ![t] = Over(t)]
    /\ UNCHANGED <<now, line, reset, faults, history>>

\* The command dies, or its save fails.
TickDies(t) ==
    /\ tick[t].pc \in {"load", "notify", "save"}
    /\ faults < MaxFaults
    /\ faults' = faults + 1
    /\ excused' = excused \cup tick[t].notified
    /\ tick' = [tick EXCEPT ![t] = Over(t)]
    /\ UNCHANGED <<now, line, sent, reset, last, overlapped>>

-----------------------------------------------------------------------------
(* qilla remind reset.                                                      *)

LoadForReset(x) ==
    /\ reset[x].pc = "off"
    /\ reset' = [reset EXCEPT ![x] = [pc |-> "save", copy |-> sent]]
    /\ overlapped' = (overlapped \/ Holding # {})
    /\ UNCHANGED <<now, line, sent, tick, faults, last, excused>>

\* The reminders whose text has the substring.
SaveReset(x, matching) ==
    /\ reset[x].pc = "save"
    /\ sent' = Pruned([r \in Reminders |-> IF r \in matching THEN Never ELSE reset[x].copy[r]], now)
    /\ excused' = excused \cup matching
    /\ reset' = [reset EXCEPT ![x] = [NotResetting EXCEPT !.pc = "done"]]
    /\ UNCHANGED <<now, line, tick, faults, last, overlapped>>

Step(t) ==
    \/ LoadState(t)
    \/ \E l \in Lines : Notify(t, l) \/ NotifyFails(t, l)
    \/ SaveState(t)

Next ==
    \/ Time
    \/ \E l \in Lines : AddLine(l) \/ TickLineOff(l)
    \/ \E t \in Ticks, unread \in SUBSET Lines : Scan(t, unread)
    \/ \E t \in Ticks : Step(t) \/ TickDies(t)
    \/ \E x \in Resets : LoadForReset(x)
    \/ \E x \in Resets, matching \in SUBSET Reminders : SaveReset(x, matching)

Spec == Init /\ [][Next]_vars

-----------------------------------------------------------------------------
(* Properties.                                                              *)

Times == 0..Never

TypeOK ==
    /\ now \in 0..MaxTime
    /\ line \in [Lines -> {"none", "open", "ticked"}]
    /\ sent \in [Reminders -> Times] /\ last \in [Reminders -> Times]
    /\ tick \in [Ticks -> [pc: {"idle", "done", "load", "notify", "save"}, at: 0..MaxTime,
                           due: SUBSET Lines, copy: [Reminders -> Times],
                           notified: SUBSET Reminders]]
    /\ reset \in [Resets -> [pc: {"off", "save", "done"}, copy: [Reminders -> Times]]]
    /\ faults \in 0..MaxFaults
    /\ excused \subseteq Reminders /\ overlapped \in BOOLEAN

\* README: "only 'already notified' is state, which is what lets a short timer
\* notify each one exactly once".  A reminder is notified a second time only
\* after the retention, or when its delivery was reset or never saved, or when
\* two commands overlapped, or when another line says the same, by the command
\* that has just notified that one.
NotifiedOnce ==
    [][\A t \in Ticks, l \in Lines :
         Notify(t, l) => \/ last[KeyOf[l]] = Never
                         \/ now > last[KeyOf[l]] + Retention
                         \/ KeyOf[l] \in excused
                         \/ KeyOf[l] \in tick[t].notified
                         \/ overlapped]_vars

\* A line that is due is notified, or ticked off first, whatever overlaps, fails,
\* dies or cannot be read once.
DueIsNotified ==
    \A l \in Lines :
        line[l] = "open" /\ Due[KeyOf[l]] <= now
          ~> (last[KeyOf[l]] # Never \/ line[l] = "ticked")
=============================================================================
