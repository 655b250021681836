------------------------------ MODULE FilesProofs ------------------------------
(* Of the commands that share files: one inductive invariant for each of the       *)
(* components of Files, for every value of its constants, and what it implies.     *)
EXTENDS VaultProofs

-----------------------------------------------------------------------------
(* The judge queues.                                                         *)

\* What a drop reads is what it renames, and an add writes to the file that has the
\* name, in a family in which no drop overlapped.
QueuesInv ==
    /\ C!TypeOK
    /\ \A a \in Adders : adder[a].pc \in {"open", "write"} => adder[a].family \in C!Names
    /\ \A a \in Adders : adder[a].pc = "write" /\ ~adder[a].attached => adder[a].family \in raced
    /\ \A d \in Droppers : dropper[d].pc = "off" => dropper[d].ids = {}
    /\ \A f \in C!Names \ raced : \A d, e \in Droppers : C!Busy(d, f) /\ C!Busy(e, f) => d = e
    /\ \A f \in C!Names \ raced : \A d \in Droppers :
          C!Family(d) = f /\ dropper[d].pc = "rename" /\ queueTmp[f].there => queueTmp[f].lines = C!Kept(d)
    /\ C!CandidateKept

LEMMA QueuesStart == ASSUME C!Init PROVE QueuesInv
<1>1. 1 \in 1..Len(Families)
  BY QueueAssumption
<1>2. C!TypeOK
  BY <1>1 DEF C!Init, C!TypeOK, C!NoTmp, C!Idle, C!NotDropping, C!None
<1>. QED  BY <1>2 DEF QueuesInv, C!Init, C!Idle, C!NotDropping, C!Busy, C!CandidateKept

\* A step of one command that leaves the files alone.
LEMMA DropperKeeps ==
    ASSUME QueuesInv, NEW d \in Droppers, NEW r,
           r \in [pc: {"off", "list", "tmp", "rename", "done"}, ids: SUBSET Adders,
                  pos: 1..Len(Families), base: SUBSET C!Line],
           dropper' = [dropper EXCEPT ![d] = r], raced \subseteq raced', raced' \subseteq C!Names,
           UNCHANGED <<queue, adder, added>>,
           queueTmp' \in [C!Names -> [there: BOOLEAN, lines: SUBSET C!Line]],
           dropper[d].ids \subseteq r.ids, r.pc # "off",
           \/ r.pc \notin {"tmp", "rename"} /\ UNCHANGED queueTmp
           \/ /\ r.pc = "tmp" /\ UNCHANGED queueTmp
              /\ \A e \in Droppers : C!Busy(e, Families[r.pos]) => Families[r.pos] \in raced'
           \/ /\ r.pc = "rename" /\ C!Busy(d, Families[r.pos]) /\ r.ids = dropper[d].ids /\ r.base = dropper[d].base
              /\ queueTmp' = [queueTmp EXCEPT ![Families[r.pos]] = [there |-> TRUE, lines |-> C!Kept(d)]]
    PROVE  QueuesInv'
<1>1. /\ dropper \in [Droppers -> [pc: {"off", "list", "tmp", "rename", "done"}, ids: SUBSET Adders,
                                   pos: 1..Len(Families), base: SUBSET C!Line]]
      /\ queueTmp \in [C!Names -> [there: BOOLEAN, lines: SUBSET C!Line]]
  BY DEF QueuesInv, C!TypeOK
<1>2. \A e \in Droppers : dropper'[e] = IF e = d THEN r ELSE dropper[e]
  BY <1>1
<1>3. Families[r.pos] \in C!Names /\ \A e \in Droppers : Families[dropper[e].pos] \in C!Names
  BY <1>1 DEF C!Names
<1>4. C!TypeOK'
  BY <1>1 DEF QueuesInv, C!TypeOK, C!Names, C!Line
<1>5. \A f, e : e \in Droppers /\ e # d =>
        (C!Busy(e, f)' <=> C!Busy(e, f)) /\ (C!Kept(e)' = C!Kept(e)) /\ (C!Family(e)' = C!Family(e))
  BY <1>2 DEF C!Busy, C!Kept, C!Family
<1>6. \A f \in C!Names \ raced' : \A e \in Droppers : C!Busy(e, f)' /\ C!Busy(d, f)' => e = d
  <2>. SUFFICES ASSUME NEW f \in C!Names \ raced', NEW e \in Droppers, C!Busy(e, f)', C!Busy(d, f)', e # d
       PROVE  FALSE
    OBVIOUS
  <2>1. C!Busy(e, f) /\ f = Families[r.pos] /\ r.pc \in {"tmp", "rename"}
    BY <1>2, <1>5 DEF C!Busy, C!Family
  <2>2. CASE r.pc = "tmp"
    BY <2>1, <2>2
  <2>3. CASE r.pc = "rename"
    BY <2>1, <2>3 DEF QueuesInv
  <2>. QED  BY <2>1, <2>2, <2>3
<1>7. ASSUME NEW f \in C!Names \ raced', NEW e \in Droppers, NEW g \in Droppers, C!Busy(e, f)', C!Busy(g, f)'
      PROVE  e = g
  <2>1. CASE e # d /\ g # d
    BY <1>5, <1>7, <2>1 DEF QueuesInv
  <2>. QED  BY <1>6, <1>7, <2>1
<1>8. ASSUME NEW f \in C!Names \ raced', NEW e \in Droppers, C!Family(e)' = f, dropper'[e].pc = "rename",
             queueTmp'[f].there
      PROVE  queueTmp'[f].lines = C!Kept(e)'
  <2>1. CASE e = d
    <3>1. r.pc = "rename" /\ f = Families[r.pos]
      BY <1>2, <1>8, <2>1 DEF C!Family
    <3>2. C!Kept(e)' = C!Kept(d)
      BY <1>2, <2>1, <3>1 DEF C!Kept
    <3>. QED  BY <1>1, <1>3, <3>1, <3>2
  <2>2. CASE e # d
    <3>1. C!Busy(e, f) /\ C!Kept(e)' = C!Kept(e) /\ C!Family(e) = f /\ dropper[e].pc = "rename"
      BY <1>2, <1>5, <1>8, <2>2 DEF C!Busy
    <3>2. CASE queueTmp'[f] = queueTmp[f]
      BY <1>8, <3>1, <3>2 DEF QueuesInv
    <3>3. CASE queueTmp'[f] # queueTmp[f]
      <4>1. r.pc = "rename" /\ f = Families[r.pos]
        BY <1>1, <1>3, <3>3
      <4>. QED  BY <2>2, <3>1, <4>1 DEF QueuesInv
    <3>. QED  BY <3>2, <3>3
  <2>. QED  BY <2>1, <2>2
<1>9. C!CandidateKept'
  <2>. SUFFICES ASSUME NEW f \in C!Names \ raced', NEW new \in C!Line, <<f, new>> \in added,
                       new \notin queue[f]
       PROVE  \E e \in Droppers : new.id \in dropper'[e].ids
    BY DEF C!CandidateKept, C!Names, C!Line
  <2>1. PICK e \in Droppers : new.id \in dropper[e].ids
    BY DEF QueuesInv, C!CandidateKept
  <2>. QED  BY <1>2, <2>1
<1>10. \A a \in Adders : adder[a].pc = "write" /\ ~adder[a].attached => adder[a].family \in raced'
  BY DEF QueuesInv
<1>11. C!Names' = C!Names /\ adder' = adder
  BY DEF C!Names
<1>12. \A a \in Adders : adder[a].pc \in {"open", "write"} => adder[a].family \in C!Names
  BY DEF QueuesInv
<1>13. \A e \in Droppers : dropper'[e].pc = "off" => dropper'[e].ids = {}
  BY <1>2 DEF QueuesInv
<1>. QED  BY <1>4, <1>7, <1>8, <1>9, <1>10, <1>11, <1>12, <1>13 DEF QueuesInv

LEMMA NextFamilyIs ==
    ASSUME QueuesInv, NEW d \in Droppers
    PROVE  LET r == C!NextFamily(dropper[d]) IN
           /\ r \in [pc: {"off", "list", "tmp", "rename", "done"}, ids: SUBSET Adders,
                     pos: 1..Len(Families), base: SUBSET C!Line]
           /\ r.ids = dropper[d].ids /\ r.pc \in {"list", "done"}
<1>1. dropper[d] \in [pc: {"off", "list", "tmp", "rename", "done"}, ids: SUBSET Adders,
                      pos: 1..Len(Families), base: SUBSET C!Line]
  BY DEF QueuesInv, C!TypeOK
<1>2. Len(Families) \in Nat
  BY QueueAssumption
<1>3. CASE dropper[d].pos < Len(Families)
  <2>1. dropper[d].pos + 1 \in 1..Len(Families)
    BY <1>1, <1>2, <1>3
  <2>. QED  BY <1>1, <1>3, <2>1 DEF C!NextFamily
<1>4. CASE ~(dropper[d].pos < Len(Families))
  BY <1>1, <1>4 DEF C!NextFamily
<1>. QED  BY <1>3, <1>4

LEMMA DropKeeps ==
    ASSUME QueuesInv, NEW d \in Droppers,
           \/ \E shown \in SUBSET Adders : C!StartDrop(d, shown)
           \/ C!ListForDrop(d) \/ C!WriteTmp(d) \/ C!RenameFails(d) \/ C!DropDies(d)
    PROVE  QueuesInv'
<1>1. /\ dropper[d] \in [pc: {"off", "list", "tmp", "rename", "done"}, ids: SUBSET Adders,
                         pos: 1..Len(Families), base: SUBSET C!Line]
      /\ queueTmp \in [C!Names -> [there: BOOLEAN, lines: SUBSET C!Line]]
      /\ queue \in [C!Names -> SUBSET C!Line] /\ raced \subseteq C!Names
  BY DEF QueuesInv, C!TypeOK
<1>2. C!Family(d) \in C!Names
  BY <1>1 DEF C!Family, C!Names
<1>3. ASSUME NEW shown \in SUBSET Adders, C!StartDrop(d, shown) PROVE QueuesInv'
  <2>. DEFINE r == [dropper[d] EXCEPT !.pc = "list", !.ids = shown]
  <2>1. dropper' = [dropper EXCEPT ![d] = r] /\ UNCHANGED <<queue, queueTmp, adder, added, raced>>
        /\ dropper[d].pc = "off"
    BY <1>3 DEF C!StartDrop
  <2>2. r \in [pc: {"off", "list", "tmp", "rename", "done"}, ids: SUBSET Adders,
               pos: 1..Len(Families), base: SUBSET C!Line] /\ r.pc = "list" /\ r.ids = shown
    BY <1>1
  <2>3. dropper[d].ids = {}
    BY <2>1 DEF QueuesInv
  <2>. HIDE DEF r
  <2>. QED  BY <1>1, <2>1, <2>2, <2>3, DropperKeeps
<1>4. CASE C!ListForDrop(d)
  <2>. DEFINE f == C!Family(d)
              none == \A l \in queue[f] : l.id \notin dropper[d].ids
              r == [dropper[d] EXCEPT !.pc = "tmp", !.base = queue[f]]
  <2>1. /\ dropper[d].pc = "list" /\ UNCHANGED <<queue, queueTmp, adder, added>>
        /\ dropper' = [dropper EXCEPT ![d] = IF none THEN C!NextFamily(dropper[d]) ELSE r]
        /\ raced' = IF ~none /\ \E other \in Droppers : C!Busy(other, f) THEN raced \cup {f} ELSE raced
    BY <1>4 DEF C!ListForDrop
  <2>2. raced \subseteq raced' /\ raced' \subseteq C!Names
    BY <1>1, <1>2, <2>1
  <2>3. CASE none
    <3>1. dropper' = [dropper EXCEPT ![d] = C!NextFamily(dropper[d])]
      BY <2>1, <2>3
    <3>. QED  BY <1>1, <2>1, <2>2, <3>1, NextFamilyIs, DropperKeeps
  <2>4. CASE ~none
    <3>1. r \in [pc: {"off", "list", "tmp", "rename", "done"}, ids: SUBSET Adders,
                 pos: 1..Len(Families), base: SUBSET C!Line]
          /\ r.pc = "tmp" /\ r.ids = dropper[d].ids /\ Families[r.pos] = f
      BY <1>1, <1>2 DEF C!Family
    <3>2. dropper' = [dropper EXCEPT ![d] = r]
      BY <2>1, <2>4
    <3>3. \A e \in Droppers : C!Busy(e, f) => f \in raced'
      BY <2>1, <2>4
    <3>. HIDE DEF r, f
    <3>. QED  BY <1>1, <2>1, <2>2, <3>1, <3>2, <3>3, DropperKeeps
  <2>. QED  BY <2>3, <2>4
<1>5. CASE C!WriteTmp(d)
  <2>. DEFINE r == [dropper[d] EXCEPT !.pc = "rename"]
  <2>1. /\ dropper[d].pc = "tmp" /\ UNCHANGED <<queue, adder, added, raced>>
        /\ queueTmp' = [queueTmp EXCEPT ![C!Family(d)] = [there |-> TRUE, lines |-> C!Kept(d)]]
        /\ dropper' = [dropper EXCEPT ![d] = r]
    BY <1>5 DEF C!WriteTmp
  <2>2. r \in [pc: {"off", "list", "tmp", "rename", "done"}, ids: SUBSET Adders,
               pos: 1..Len(Families), base: SUBSET C!Line]
        /\ r.pc = "rename" /\ r.ids = dropper[d].ids /\ r.base = dropper[d].base
        /\ Families[r.pos] = C!Family(d)
    BY <1>1 DEF C!Family
  <2>3. C!Busy(d, C!Family(d))
    BY <2>1 DEF C!Busy
  <2>4. queueTmp' \in [C!Names -> [there: BOOLEAN, lines: SUBSET C!Line]]
    <3>1. C!Kept(d) \subseteq C!Line
      BY <1>1 DEF C!Kept
    <3>. QED  BY <1>1, <2>1, <3>1
  <2>. HIDE DEF r
  <2>. QED  BY <1>1, <2>1, <2>2, <2>3, <2>4, DropperKeeps
<1>6. CASE C!RenameFails(d) \/ C!DropDies(d)
  <2>. DEFINE r == [dropper[d] EXCEPT !.pc = "done", !.base = {}]
  <2>1. UNCHANGED <<queue, queueTmp, adder, added, raced>> /\ dropper' = [dropper EXCEPT ![d] = r]
    BY <1>6 DEF C!RenameFails, C!DropDies
  <2>2. r \in [pc: {"off", "list", "tmp", "rename", "done"}, ids: SUBSET Adders,
               pos: 1..Len(Families), base: SUBSET C!Line] /\ r.pc = "done" /\ r.ids = dropper[d].ids
    BY <1>1
  <2>. HIDE DEF r
  <2>. QED  BY <1>1, <2>1, <2>2, DropperKeeps
<1>. QED  BY <1>3, <1>4, <1>5, <1>6

\* The rename: what is lost is the drop's own, or else the family is one of those in which
\* something overlapped.
LEMMA ReplaceKeeps == ASSUME QueuesInv, NEW d \in Droppers, C!ReplaceQueue(d) PROVE QueuesInv'
<1>. DEFINE f == C!Family(d)
            opened == {a \in Adders : adder[a].pc = "write" /\ adder[a].family = f}
            r == C!NextFamily(dropper[d])
<1>1. /\ dropper[d].pc = "rename" /\ queueTmp[f].there /\ added' = added
      /\ queue' = [queue EXCEPT ![f] = queueTmp[f].lines]
      /\ queueTmp' = [queueTmp EXCEPT ![f] = C!NoTmp]
      /\ adder' = [a \in Adders |->
           IF a \in opened THEN [adder[a] EXCEPT !.attached = FALSE] ELSE adder[a]]
      /\ dropper' = [dropper EXCEPT ![d] = r]
      /\ raced' = IF queue[f] # dropper[d].base \/ opened # {} THEN raced \cup {f} ELSE raced
  BY DEF C!ReplaceQueue
<1>2. C!TypeOK
  BY DEF QueuesInv
<1>3. f \in C!Names
  BY <1>2 DEF C!Family, C!Names, C!TypeOK
<1>4. r \in [pc: {"off", "list", "tmp", "rename", "done"}, ids: SUBSET Adders,
             pos: 1..Len(Families), base: SUBSET C!Line]
      /\ r.ids = dropper[d].ids /\ r.pc \in {"list", "done"}
  BY NextFamilyIs
<1>. HIDE DEF f, r
<1>5. \A e \in Droppers : dropper'[e] = IF e = d THEN r ELSE dropper[e]
  BY <1>1, <1>2 DEF C!TypeOK
<1>6. \A g \in C!Names : /\ queue'[g] = IF g = f THEN queueTmp[f].lines ELSE queue[g]
                         /\ queueTmp'[g] = IF g = f THEN C!NoTmp ELSE queueTmp[g]
  BY <1>1, <1>2 DEF C!TypeOK
<1>7. \A a \in Adders : /\ adder'[a].pc = adder[a].pc /\ adder'[a].family = adder[a].family
                        /\ adder'[a].attached = IF a \in opened THEN FALSE ELSE adder[a].attached
  <2>. HIDE DEF opened
  <2>. QED  BY <1>1, <1>2 DEF C!TypeOK
<1>8. C!TypeOK'
  <2>1. queue' \in [C!Names -> SUBSET C!Line]
    BY <1>1, <1>2, <1>3 DEF C!TypeOK
  <2>2. queueTmp' \in [C!Names -> [there: BOOLEAN, lines: SUBSET C!Line]]
    BY <1>1, <1>2 DEF C!TypeOK, C!NoTmp
  <2>3. adder' \in [Adders -> [pc: {"off", "open", "write", "done"}, family: C!Names \cup {C!None},
                               attached: BOOLEAN]]
    <3>. HIDE DEF opened
    <3>. QED  BY <1>1, <1>2 DEF C!TypeOK
  <2>4. dropper' \in [Droppers -> [pc: {"off", "list", "tmp", "rename", "done"}, ids: SUBSET Adders,
                                   pos: 1..Len(Families), base: SUBSET C!Line]]
    BY <1>1, <1>2, <1>4 DEF C!TypeOK
  <2>5. raced' \subseteq C!Names /\ added' \subseteq (C!Names \X C!Line)
    BY <1>1, <1>2, <1>3 DEF C!TypeOK
  <2>. QED  BY <2>1, <2>2, <2>3, <2>4, <2>5 DEF C!TypeOK, C!Names, C!Line, C!None
<1>9. \A a \in Adders : adder'[a].pc \in {"open", "write"} => adder'[a].family \in C!Names
  BY <1>7 DEF QueuesInv
<1>10. \A a \in Adders : adder'[a].pc = "write" /\ ~adder'[a].attached => adder'[a].family \in raced'
  <2>1. \A a \in opened : f \in raced'
    BY <1>1
  <2>2. raced \subseteq raced'
    BY <1>1
  <2>. QED  BY <1>7, <2>1, <2>2 DEF QueuesInv
<1>11. raced \subseteq raced'
  BY <1>1
<1>12. \A g, e : e \in Droppers => (C!Busy(e, g)' => e # d /\ C!Busy(e, g))
  BY <1>4, <1>5 DEF C!Busy, C!Family
<1>13. \A g \in C!Names \ raced' : \A e, o \in Droppers : C!Busy(e, g)' /\ C!Busy(o, g)' => e = o
  BY <1>11, <1>12 DEF QueuesInv
<1>14. ASSUME NEW g \in C!Names \ raced', NEW e \in Droppers, C!Family(e)' = g, dropper'[e].pc = "rename",
              queueTmp'[g].there
       PROVE  queueTmp'[g].lines = C!Kept(e)'
  <2>1. e # d
    BY <1>4, <1>5, <1>14
  <2>2. g # f
    BY <1>6, <1>14 DEF C!NoTmp
  <2>3. C!Family(e) = g /\ dropper[e].pc = "rename" /\ queueTmp[g].there /\ C!Kept(e)' = C!Kept(e)
        /\ queueTmp'[g] = queueTmp[g]
    BY <1>5, <1>6, <1>14, <2>1, <2>2 DEF C!Family, C!Kept
  <2>. QED  BY <1>11, <2>3 DEF QueuesInv
<1>15. C!CandidateKept'
  <2>. SUFFICES ASSUME NEW g \in C!Names \ raced', NEW new \in C!Line, <<g, new>> \in added,
                       new \notin queue'[g]
       PROVE  \E e \in Droppers : new.id \in dropper'[e].ids
    BY <1>1 DEF C!CandidateKept, C!Names, C!Line
  <2>1. new \in queue[g] \/ \E e \in Droppers : new.id \in dropper[e].ids
    BY <1>11 DEF QueuesInv, C!CandidateKept
  <2>2. \A e \in Droppers : dropper'[e].ids = dropper[e].ids
    BY <1>4, <1>5
  <2>3. CASE g # f
    BY <1>6, <2>1, <2>2, <2>3
  <2>4. CASE g = f
    <3>1. queue[f] = dropper[d].base /\ f \notin raced
      BY <1>1, <2>4
    <3>2. queueTmp[f].lines = C!Kept(d)
      BY <1>1, <1>3, <3>1 DEF QueuesInv, f
    <3>3. new \notin C!Kept(d)
      BY <1>6, <2>4, <3>2
    <3>4. new \in queue[f] => new.id \in dropper[d].ids
      BY <3>1, <3>3 DEF C!Kept
    <3>. QED  BY <2>1, <2>2, <2>4, <3>4
  <2>. QED  BY <2>3, <2>4
<1>16. C!Names' = C!Names
  BY DEF C!Names
<1>17. \A e \in Droppers : dropper'[e].pc = "off" => dropper'[e].ids = {}
  BY <1>4, <1>5 DEF QueuesInv
<1>. QED  BY <1>8, <1>9, <1>10, <1>13, <1>14, <1>15, <1>16, <1>17 DEF QueuesInv

LEMMA AddKeeps == ASSUME QueuesInv, NEW a \in Adders, C!Add(a) PROVE QueuesInv'
<1>1. C!TypeOK
  BY DEF QueuesInv
<1>2. UNCHANGED <<queueTmp, dropper, raced>>
  BY DEF C!Add, C!ListForAdd, C!OpenQueue, C!AppendLine
<1>3. /\ \A f, d : (C!Busy(d, f)' <=> C!Busy(d, f))
      /\ \A d : C!Family(d)' = C!Family(d) /\ C!Kept(d)' = C!Kept(d)
  BY <1>2 DEF C!Busy, C!Family, C!Kept
<1>. DEFINE AddRow == [pc: {"off", "open", "write", "done"}, family: C!Names \cup {C!None}, attached: BOOLEAN]
<1>4. \E s \in AddRow :
        /\ adder' = [adder EXCEPT ![a] = s]
        /\ s.pc \in {"open", "write"} => s.family \in C!Names
        /\ s.pc = "write" => s.attached
        /\ \/ UNCHANGED <<queue, added>>
           \/ \E f \in C!Names : \E new \in C!Line :
                /\ added' = added \cup {<<f, new>>}
                /\ queue' = [queue EXCEPT ![f] = queue[f] \cup {new}] \/ (queue' = queue /\ f \in raced)
  <2>1. ASSUME NEW f \in C!Names, C!ListForAdd(a, f)
        PROVE  \E s \in AddRow : /\ adder' = [adder EXCEPT ![a] = s] /\ s.family \in C!Names
                                 /\ s.pc # "write" /\ UNCHANGED <<queue, added>>
    <3>. DEFINE pc == IF \E l \in queue[f] : l.text = TextOf[a] THEN "done" ELSE "open"
                s == [C!Idle EXCEPT !.pc = pc, !.family = f]
    <3>1. adder' = [adder EXCEPT ![a] = s] /\ UNCHANGED <<queue, added>>
      BY <2>1 DEF C!ListForAdd
    <3>2. pc \in {"done", "open"}
      OBVIOUS
    <3>. HIDE DEF pc
    <3>3. s \in AddRow /\ s.family \in C!Names /\ s.pc # "write"
      BY <3>2 DEF C!Idle
    <3>. QED  BY <3>1, <3>3
  <2>2. CASE C!OpenQueue(a)
    <3>. DEFINE s == [adder[a] EXCEPT !.pc = "write", !.attached = TRUE]
    <3>1. adder' = [adder EXCEPT ![a] = s] /\ UNCHANGED <<queue, added>> /\ adder[a].pc = "open"
      BY <2>2 DEF C!OpenQueue
    <3>2. s \in AddRow /\ s.family = adder[a].family /\ s.pc = "write" /\ s.attached
      BY <1>1 DEF C!TypeOK
    <3>3. adder[a].family \in C!Names
      BY <3>1 DEF QueuesInv
    <3>. QED  BY <3>1, <3>2, <3>3
  <2>3. CASE C!AppendLine(a)
    <3>. DEFINE f == adder[a].family
                new == [id |-> a, text |-> TextOf[a]]
                s == [adder[a] EXCEPT !.pc = "done", !.attached = FALSE]
    <3>1. /\ adder[a].pc = "write" /\ added' = added \cup {<<f, new>>}
          /\ queue' = IF adder[a].attached THEN [queue EXCEPT ![f] = queue[f] \cup {new}] ELSE queue
          /\ adder' = [adder EXCEPT ![a] = s]
      BY <2>3 DEF C!AppendLine
    <3>2. s \in AddRow /\ s.pc = "done"
      BY <1>1 DEF C!TypeOK
    <3>3. f \in C!Names /\ (~adder[a].attached => f \in raced)
      BY <3>1 DEF QueuesInv
    <3>4. new \in C!Line
      BY DEF C!Line
    <3>. HIDE DEF s, new, f
    <3>. QED  BY <3>1, <3>2, <3>3, <3>4
  <2>. QED  BY <2>1, <2>2, <2>3 DEF C!Add
<1>5. PICK s \in AddRow :
        /\ adder' = [adder EXCEPT ![a] = s]
        /\ s.pc \in {"open", "write"} => s.family \in C!Names
        /\ s.pc = "write" => s.attached
        /\ \/ UNCHANGED <<queue, added>>
           \/ \E f \in C!Names : \E new \in C!Line :
                /\ added' = added \cup {<<f, new>>}
                /\ queue' = [queue EXCEPT ![f] = queue[f] \cup {new}] \/ (queue' = queue /\ f \in raced)
  BY <1>4
<1>6. adder' \in [Adders -> AddRow] /\ \A b \in Adders : adder'[b] = IF b = a THEN s ELSE adder[b]
  BY <1>1, <1>5 DEF C!TypeOK
<1>7. queue \in [C!Names -> SUBSET C!Line] /\ added \subseteq C!Names \X C!Line
  BY <1>1 DEF C!TypeOK
<1>8. queue' \in [C!Names -> SUBSET C!Line] /\ added' \subseteq C!Names \X C!Line
      /\ \A g \in C!Names, l \in C!Line :
           /\ l \in queue[g] => l \in queue'[g]
           /\ <<g, l>> \in added' /\ g \notin raced => <<g, l>> \in added \/ l \in queue'[g]
  <2>1. CASE UNCHANGED <<queue, added>>
    BY <1>7, <2>1
  <2>2. CASE ~UNCHANGED <<queue, added>>
    <3>1. PICK f \in C!Names, new \in C!Line :
            /\ added' = added \cup {<<f, new>>}
            /\ queue' = [queue EXCEPT ![f] = queue[f] \cup {new}] \/ (queue' = queue /\ f \in raced)
      BY <1>5, <2>2
    <3>2. added' \subseteq C!Names \X C!Line
      BY <1>7, <3>1
    <3>3. \A g \in C!Names, l \in C!Line : <<g, l>> \in added' => <<g, l>> \in added \/ (g = f /\ l = new)
      BY <3>1
    <3>4. CASE queue' = [queue EXCEPT ![f] = queue[f] \cup {new}]
      <4>1. queue' \in [C!Names -> SUBSET C!Line]
            /\ \A g \in C!Names : queue'[g] = IF g = f THEN queue[f] \cup {new} ELSE queue[g]
        BY <1>7, <3>4
      <4>. QED  BY <3>2, <3>3, <4>1
    <3>5. CASE queue' = queue /\ f \in raced
      BY <1>7, <3>2, <3>3, <3>5
    <3>. QED  BY <3>1, <3>4, <3>5
  <2>. QED  BY <2>1, <2>2
<1>9. C!TypeOK'
  BY <1>1, <1>2, <1>6, <1>8 DEF C!TypeOK, C!Names, C!Line, C!None
<1>10. C!CandidateKept'
  <2>. SUFFICES ASSUME NEW f \in C!Names \ raced, NEW new \in C!Line, <<f, new>> \in added'
       PROVE  new \in queue'[f] \/ \E e \in Droppers : new.id \in dropper[e].ids
    BY <1>2 DEF C!CandidateKept, C!Names, C!Line
  <2>1. <<f, new>> \in added => new \in queue[f] \/ \E e \in Droppers : new.id \in dropper[e].ids
    BY DEF QueuesInv, C!CandidateKept
  <2>. QED  BY <1>8, <2>1
<1>11. /\ \A b \in Adders : adder'[b].pc \in {"open", "write"} => adder'[b].family \in C!Names
       /\ \A b \in Adders : adder'[b].pc = "write" /\ ~adder'[b].attached => adder'[b].family \in raced
  BY <1>5, <1>6 DEF QueuesInv
<1>12. C!Names' = C!Names
  BY DEF C!Names
<1>. QED  BY <1>2, <1>3, <1>9, <1>10, <1>11, <1>12 DEF QueuesInv

LEMMA QueuesKeep == ASSUME QueuesInv, [C!Next]_(C!vars) PROVE QueuesInv'
<1>1. CASE C!Next
  BY <1>1, AddKeeps, DropKeeps, ReplaceKeeps DEF C!Next, C!Drop
<1>2. CASE UNCHANGED C!vars
  <2>1. UNCHANGED <<queue, queueTmp, adder, dropper, added, raced>>
    BY <1>2 DEF C!vars
  <2>2. C!TypeOK' /\ C!CandidateKept' /\ C!Names' = C!Names
    BY <2>1 DEF QueuesInv, C!TypeOK, C!CandidateKept, C!Names, C!Line
  <2>3. /\ \A f, d : (C!Busy(d, f)' <=> C!Busy(d, f))
        /\ \A d : C!Family(d)' = C!Family(d) /\ C!Kept(d)' = C!Kept(d)
    BY <2>1 DEF C!Busy, C!Family, C!Kept
  <2>. QED  BY <2>1, <2>2, <2>3 DEF QueuesInv
<1>. QED  BY <1>1, <1>2

LEMMA QueuesMove == ASSUME [FilesNext]_filesVars PROVE [C!Next]_(C!vars)
BY DEF FilesNext, filesVars, queueVars, C!vars

LEMMA QueuesHold == FilesSpec => []QueuesInv
<1>1. FilesInit => QueuesInv
  BY QueuesStart DEF FilesInit
<1>2. QueuesInv /\ [FilesNext]_filesVars => QueuesInv'
  BY QueuesMove, QueuesKeep
<1>. QED  BY <1>1, <1>2, PTL DEF FilesSpec

\* Every line of a file was written to its family, and whoever wrote one is through.
WrittenTo(f) == {l \in C!Line : <<f, l>> \in added}

LinesInv ==
    /\ \A f \in C!Names : queue[f] \subseteq WrittenTo(f) /\ queueTmp[f].lines \subseteq WrittenTo(f)
    /\ \A d \in Droppers : dropper[d].base \subseteq WrittenTo(C!Family(d))
    /\ \A e \in added : adder[e[2].id].pc = "done"

\* The candidates of the abstract queue.
Waiting(f) == {l.id : l \in queue[f]}
Ever(f) == {e[2].id : e \in {o \in added : o[1] = f}}

\* The ids of lines, and of entries, with one more.
LEMMA IdsOfUnion ==
    ASSUME NEW S, NEW new
    PROVE  /\ {l.id : l \in S \cup {new}} = {l.id : l \in S} \cup {new.id}
           /\ {e[2].id : e \in S \cup {new}} = {e[2].id : e \in S} \cup {new[2].id}
<1>1. /\ \A x : x \in {l.id : l \in S \cup {new}} <=> x \in {l.id : l \in S} \cup {new.id}
      /\ \A x : x \in {e[2].id : e \in S \cup {new}} <=> x \in {e[2].id : e \in S} \cup {new[2].id}
  OBVIOUS
<1>. QED  BY <1>1

LEMMA WrittenIsPut ==
    ASSUME NEW f, NEW S \in SUBSET WrittenTo(f)
    PROVE  {l.id : l \in S} \subseteq Ever(f) /\ {l.id : l \in S} \subseteq Adders
<1>1. ASSUME NEW l \in S PROVE l.id \in Ever(f) /\ l.id \in Adders
  <2>1. <<f, l>> \in {o \in added : o[1] = f} /\ l \in C!Line
    BY DEF WrittenTo
  <2>2. <<f, l>>[2].id \in Ever(f)
    BY <2>1 DEF Ever
  <2>. QED  BY <2>1, <2>2 DEF C!Line
<1>. QED  BY <1>1

LEMMA AtomicStart == ASSUME C!Init PROVE LinesInv /\ C!Atomic!Init
<1>1. LinesInv
  BY QueuesStart DEF QueuesInv, C!TypeOK, LinesInv, C!Init, C!NotDropping, C!NoTmp, WrittenTo
<1>2. C!Atomic!Init
  BY DEF C!Init, C!Atomic!Init
<1>. QED  BY <1>1, <1>2

\* An add that writes: put at once, or lost where a drop came between.
LEMMA AppendPuts ==
    ASSUME QueuesInv, LinesInv, NEW a \in Adders, C!AppendLine(a)
    PROVE  LinesInv' /\ C!Atomic!Next
<1>. DEFINE new == [id |-> a, text |-> TextOf[a]]
<1>0. PICK f \in C!Names : f = adder[a].family
  BY DEF QueuesInv, C!AppendLine
<1>1. /\ adder[a].pc = "write" /\ added' = added \cup {<<f, new>>}
      /\ queue' = IF adder[a].attached THEN [queue EXCEPT ![f] = queue[f] \cup {new}] ELSE queue
      /\ adder' = [adder EXCEPT ![a].pc = "done", ![a].attached = FALSE]
      /\ UNCHANGED <<queueTmp, dropper, raced>>
  BY <1>0 DEF C!AppendLine
<1>2. /\ queue \in [C!Names -> SUBSET C!Line] /\ added \subseteq C!Names \X C!Line
      /\ adder \in [Adders -> [pc: {"off", "open", "write", "done"}, family: C!Names \cup {C!None},
                               attached: BOOLEAN]]
  BY DEF QueuesInv, C!TypeOK
<1>3. (~adder[a].attached => f \in raced) /\ new \in C!Line
  BY <1>0, <1>1 DEF QueuesInv, C!Line
<1>4. \A b \in Adders : adder'[b].pc = IF b = a THEN "done" ELSE adder[b].pc
  BY <1>1, <1>2
<1>5. \A g \in C!Names : queue'[g] = IF g = f /\ adder[a].attached THEN queue[f] \cup {new} ELSE queue[g]
  BY <1>1, <1>2
<1>6. \A e \in added : e[1] \in C!Names /\ e[2].id \in Adders \ {a}
  BY <1>1, <1>2 DEF LinesInv, C!Line
<1>7. LinesInv'
  <2>1. C!Names' = C!Names /\ C!Line' = C!Line /\ \A d : C!Family(d)' = C!Family(d)
    BY <1>1 DEF C!Names, C!Line, C!Family
  <2>2. \A g : WrittenTo(g) \subseteq WrittenTo(g)' /\ (g = f => new \in WrittenTo(g)')
    BY <1>1, <1>3, <2>1 DEF WrittenTo
  <2>3. ASSUME NEW e \in added' PROVE adder'[e[2].id].pc = "done"
    <3>1. CASE e \in added
      BY <1>4, <1>6, <3>1 DEF LinesInv
    <3>2. CASE e = <<f, new>>
      BY <1>4, <3>2
    <3>. QED  BY <1>1, <3>1, <3>2
  <2>4. ASSUME NEW g \in C!Names
        PROVE  queue'[g] \subseteq WrittenTo(g)' /\ queueTmp'[g].lines \subseteq WrittenTo(g)'
    BY <1>1, <1>5, <2>2 DEF LinesInv
  <2>5. ASSUME NEW d \in Droppers PROVE dropper'[d].base \subseteq WrittenTo(C!Family(d))'
    <3>1. WrittenTo(C!Family(d))' = {l \in C!Line : <<C!Family(d), l>> \in added'}
      BY <2>1 DEF WrittenTo
    <3>. QED  BY <1>1, <3>1 DEF LinesInv, WrittenTo
  <2>. QED  BY <2>1, <2>3, <2>4, <2>5 DEF LinesInv
<1>8. /\ [g \in C!Names |-> Waiting(g)]' =
           IF adder[a].attached THEN [[g \in C!Names |-> Waiting(g)] EXCEPT ![f] = Waiting(f) \cup {a}]
                                ELSE [g \in C!Names |-> Waiting(g)]
      /\ [g \in C!Names |-> Ever(g)]' = [[g \in C!Names |-> Ever(g)] EXCEPT ![f] = Ever(f) \cup {a}]
  <2>1. C!Names' = C!Names
    BY DEF C!Names
  <2>2. \A g \in C!Names : Waiting(g)' = IF g = f /\ adder[a].attached THEN Waiting(f) \cup {a} ELSE Waiting(g)
    <3>1. {l.id : l \in queue[f] \cup {new}} = {l.id : l \in queue[f]} \cup {new.id}
      BY IdsOfUnion
    <3>2. new.id = a
      OBVIOUS
    <3>. HIDE DEF new
    <3>. QED  BY <1>5, <3>1, <3>2 DEF Waiting
  <2>3. \A g \in C!Names : Ever(g)' = IF g = f THEN Ever(f) \cup {a} ELSE Ever(g)
    <3>1. {o \in added' : o[1] = f} = {o \in added : o[1] = f} \cup {<<f, new>>}
      BY <1>1
    <3>2. \A g : g # f => {o \in added' : o[1] = g} = {o \in added : o[1] = g}
      BY <1>1
    <3>3. Ever(f)' = Ever(f) \cup {a}
      <4>1. Ever(f)' = {e[2].id : e \in {o \in added : o[1] = f} \cup {<<f, new>>}}
        BY <3>1 DEF Ever
      <4>2. <<f, new>>[2].id = a
        OBVIOUS
      <4>. HIDE DEF new
      <4>. QED  BY <4>1, <4>2, IdsOfUnion DEF Ever
    <3>4. ASSUME NEW g \in C!Names, g # f PROVE Ever(g)' = Ever(g)
      BY <3>2, <3>4 DEF Ever
    <3>. QED  BY <3>3, <3>4
  <2>. QED  BY <1>3, <2>1, <2>2, <2>3
<1>9. \A g \in C!Names : a \notin Ever(g)
  BY <1>6 DEF Ever
<1>10. C!Atomic!Put(f, a) \/ C!Atomic!PutIsLost(f, a)
  BY <1>1, <1>3, <1>8, <1>9 DEF C!Atomic!Put, C!Atomic!PutIsLost, C!Atomic!Record, Waiting, Ever
<1>11. C!Atomic!Next
  <2>1. \E id \in Adders : C!Atomic!Put(f, id) \/ C!Atomic!PutIsLost(f, id)
    BY <1>10
  <2>. QED  BY <1>3, <2>1 DEF C!Atomic!Next
<1>. QED  BY <1>7, <1>11

\* An add that reads or opens the file.
LEMMA AddOpens ==
    ASSUME QueuesInv, LinesInv, NEW a \in Adders,
           (\E f \in C!Names : C!ListForAdd(a, f)) \/ C!OpenQueue(a)
    PROVE  LinesInv' /\ UNCHANGED C!Atomic!vars
<1>1. /\ UNCHANGED <<queue, queueTmp, dropper, added, raced>>
      /\ adder[a].pc \in {"off", "open"}
      /\ \A b \in Adders : b # a => adder'[b] = adder[b]
  BY DEF C!ListForAdd, C!OpenQueue, QueuesInv, C!TypeOK
<1>2. added \subseteq C!Names \X C!Line
  BY DEF QueuesInv, C!TypeOK
<1>3. ASSUME NEW e \in added PROVE adder'[e[2].id].pc = "done"
  <2>1. e[2].id \in Adders /\ adder[e[2].id].pc = "done"
    BY <1>2 DEF LinesInv, C!Line
  <2>. QED  BY <1>1, <2>1
<1>4. LinesInv'
  <2>1. C!Names' = C!Names /\ \A g : WrittenTo(g)' = WrittenTo(g)
    BY <1>1 DEF C!Names, WrittenTo, C!Line
  <2>2. \A d \in Droppers : WrittenTo(C!Family(d))' = WrittenTo(C!Family(d))
    BY <1>1 DEF C!Family, WrittenTo, C!Line
  <2>. QED  BY <1>1, <1>3, <2>1, <2>2 DEF LinesInv
<1>5. UNCHANGED C!Atomic!vars
  BY <1>1 DEF C!Atomic!vars, C!Names
<1>. QED  BY <1>4, <1>5

\* A drop before it replaces the file: it changes nothing, or spoils what another one reads.
LEMMA DropReads ==
    ASSUME QueuesInv, LinesInv, NEW d \in Droppers,
           \/ \E shown \in SUBSET Adders : C!StartDrop(d, shown)
           \/ C!ListForDrop(d) \/ C!WriteTmp(d) \/ C!RenameFails(d) \/ C!DropDies(d)
    PROVE  LinesInv' /\ [C!Atomic!Next]_(C!Atomic!vars)
<1>1. /\ dropper \in [Droppers -> [pc: {"off", "list", "tmp", "rename", "done"}, ids: SUBSET Adders,
                                   pos: 1..Len(Families), base: SUBSET C!Line]]
      /\ queueTmp \in [C!Names -> [there: BOOLEAN, lines: SUBSET C!Line]]
      /\ queue \in [C!Names -> SUBSET C!Line]
  BY DEF QueuesInv, C!TypeOK
<1>2. PICK f \in C!Names : f = C!Family(d)
  BY <1>1 DEF C!Family, C!Names
<1>3. UNCHANGED <<queue, adder, added>> /\ C!Names' = C!Names
  BY DEF C!StartDrop, C!ListForDrop, C!WriteTmp, C!RenameFails, C!DropDies, C!Names
<1>4. /\ \A e \in Droppers : e # d => dropper'[e] = dropper[e]
      /\ \/ dropper'[d].base = {}
         \/ dropper'[d].pos = dropper[d].pos /\ dropper'[d].base \in {dropper[d].base, queue[f]}
  <2>. DEFINE After(r) == r.base = {} \/ (r.pos = dropper[d].pos /\ r.base \in {dropper[d].base, queue[f]})
  <2>1. ASSUME C!ListForDrop(d) PROVE \E r : dropper' = [dropper EXCEPT ![d] = r] /\ After(r)
    <3>. DEFINE read == [dropper[d] EXCEPT !.pc = "tmp", !.base = queue[f]]
    <3>1. dropper' = [dropper EXCEPT ![d] = C!NextFamily(dropper[d])] \/ dropper' = [dropper EXCEPT ![d] = read]
      BY <1>2, <2>1 DEF C!ListForDrop
    <3>2. After(C!NextFamily(dropper[d])) /\ After(read)
      BY <1>1 DEF C!NextFamily
    <3>. HIDE DEF read, After
    <3>. QED  BY <3>1, <3>2
  <2>2. ASSUME C!WriteTmp(d) \/ \E shown \in SUBSET Adders : C!StartDrop(d, shown) PROVE \E r : dropper' = [dropper EXCEPT ![d] = r] /\ After(r)
    <3>1. \E shown : \/ dropper' = [dropper EXCEPT ![d] = [dropper[d] EXCEPT !.pc = "list", !.ids = shown]]
                    \/ dropper' = [dropper EXCEPT ![d] = [dropper[d] EXCEPT !.pc = "rename"]]
      BY <1>1, <2>2 DEF C!StartDrop, C!WriteTmp
    <3>2. /\ \A shown : After([dropper[d] EXCEPT !.pc = "list", !.ids = shown])
          /\ After([dropper[d] EXCEPT !.pc = "rename"])
      BY <1>1
    <3>. HIDE DEF After
    <3>. QED  BY <3>1, <3>2
  <2>3. ASSUME C!RenameFails(d) \/ C!DropDies(d) PROVE \E r : dropper' = [dropper EXCEPT ![d] = r] /\ After(r)
    <3>1. dropper' = [dropper EXCEPT ![d] = [dropper[d] EXCEPT !.pc = "done", !.base = {}]]
      BY <1>1, <2>3 DEF C!RenameFails, C!DropDies
    <3>2. After([dropper[d] EXCEPT !.pc = "done", !.base = {}])
      BY <1>1
    <3>. HIDE DEF After
    <3>. QED  BY <3>1, <3>2
  <2>4. \E r : dropper' = [dropper EXCEPT ![d] = r] /\ After(r)
    BY <2>1, <2>2, <2>3
  <2>. QED  BY <1>1, <2>4
<1>5. \A g \in C!Names : queueTmp'[g].lines \subseteq queueTmp[g].lines \cup WrittenTo(g)
  <2>1. CASE C!WriteTmp(d)
    <3>1. queueTmp' = [queueTmp EXCEPT ![f] = [there |-> TRUE, lines |-> C!Kept(d)]]
      BY <1>2, <2>1 DEF C!WriteTmp
    <3>2. C!Kept(d) \subseteq WrittenTo(f)
      BY <1>2 DEF LinesInv, C!Kept
    <3>. QED  BY <1>1, <3>1, <3>2
  <2>2. CASE ~C!WriteTmp(d)
    BY <2>2 DEF C!StartDrop, C!ListForDrop, C!RenameFails, C!DropDies
  <2>. QED  BY <2>1, <2>2
<1>6. LinesInv'
  <2>1. \A g : WrittenTo(g)' = WrittenTo(g)
    BY <1>3 DEF WrittenTo, C!Line
  <2>2. ASSUME NEW e \in Droppers PROVE dropper'[e].base \subseteq WrittenTo(C!Family(e))'
    <3>1. CASE e # d
      <4>1. dropper'[e] = dropper[e] /\ WrittenTo(C!Family(e))' = WrittenTo(C!Family(e))
        BY <1>3, <1>4, <3>1 DEF C!Family, WrittenTo, C!Line
      <4>. QED  BY <4>1 DEF LinesInv
    <3>2. CASE e = d /\ dropper'[d].base # {}
      <4>1. WrittenTo(C!Family(d))' = WrittenTo(C!Family(d))
        BY <1>3, <1>4, <3>2 DEF C!Family, WrittenTo, C!Line
      <4>2. dropper[d].base \subseteq WrittenTo(C!Family(d)) /\ queue[f] \subseteq WrittenTo(C!Family(d))
        BY <1>2 DEF LinesInv
      <4>. QED  BY <1>4, <3>2, <4>1, <4>2
    <3>. QED  BY <3>1, <3>2
  <2>3. \A g \in C!Names : queue'[g] \subseteq WrittenTo(g)' /\ queueTmp'[g].lines \subseteq WrittenTo(g)'
    BY <1>3, <1>5, <2>1 DEF LinesInv
  <2>. QED  BY <1>3, <2>2, <2>3 DEF LinesInv
<1>7. [C!Atomic!Next]_(C!Atomic!vars)
  <2>1. CASE raced' = raced
    BY <1>3, <2>1 DEF C!Atomic!vars
  <2>2. CASE raced' # raced
    <3>1. raced' = raced \cup {f}
      BY <1>2, <2>2 DEF C!StartDrop, C!ListForDrop, C!WriteTmp, C!RenameFails, C!DropDies
    <3>2. PICK some : some = Waiting(f)
      OBVIOUS
    <3>3. some \subseteq Ever(f) /\ some \in SUBSET Adders
      BY <1>1, <3>2, WrittenIsPut DEF LinesInv, Waiting
    <3>4. C!Atomic!Spoil(f, some)
      BY <1>2, <1>3, <3>1, <3>2, <3>3 DEF C!Atomic!Spoil, Waiting, Ever
    <3>5. \E chosen \in SUBSET Adders : C!Atomic!Spoil(f, chosen)
      BY <3>3, <3>4
    <3>. QED  BY <3>5 DEF C!Atomic!Next
  <2>. QED  BY <2>1, <2>2
<1>. QED  BY <1>6, <1>7

\* A drop that replaces the file takes the ids that were in it at once, or it has
\* met another command.
LEMMA ReplaceTakes ==
    ASSUME QueuesInv, LinesInv, NEW d \in Droppers, C!ReplaceQueue(d)
    PROVE  LinesInv' /\ C!Atomic!Next
<1>1. /\ dropper \in [Droppers -> [pc: {"off", "list", "tmp", "rename", "done"}, ids: SUBSET Adders,
                                   pos: 1..Len(Families), base: SUBSET C!Line]]
      /\ queueTmp \in [C!Names -> [there: BOOLEAN, lines: SUBSET C!Line]]
      /\ queue \in [C!Names -> SUBSET C!Line] /\ added \subseteq C!Names \X C!Line
      /\ adder \in [Adders -> [pc: {"off", "open", "write", "done"}, family: C!Names \cup {C!None},
                               attached: BOOLEAN]]
  BY DEF QueuesInv, C!TypeOK
<1>2. PICK f \in C!Names : f = C!Family(d)
  BY <1>1 DEF C!Family, C!Names
<1>. DEFINE opened == {a \in Adders : adder[a].pc = "write" /\ adder[a].family = f}
<1>3. /\ dropper[d].pc = "rename" /\ queueTmp[f].there /\ added' = added
      /\ queue' = [queue EXCEPT ![f] = queueTmp[f].lines]
      /\ queueTmp' = [queueTmp EXCEPT ![f] = C!NoTmp]
      /\ adder' = [a \in Adders |-> IF a \in opened THEN [adder[a] EXCEPT !.attached = FALSE] ELSE adder[a]]
      /\ dropper' = [dropper EXCEPT ![d] = C!NextFamily(dropper[d])]
      /\ raced' = IF queue[f] # dropper[d].base \/ opened # {} THEN raced \cup {f} ELSE raced
  BY <1>2 DEF C!ReplaceQueue
<1>4. C!Names' = C!Names /\ \A g : WrittenTo(g)' = WrittenTo(g) /\ Ever(g)' = Ever(g)
  BY <1>3 DEF C!Names, WrittenTo, C!Line, Ever
<1>5. LinesInv'
  <2>1. \A a \in Adders : adder'[a].pc = adder[a].pc
    BY <1>1, <1>3
  <2>2. ASSUME NEW e \in added' PROVE adder'[e[2].id].pc = "done"
    <3>1. e[2].id \in Adders /\ adder[e[2].id].pc = "done"
      BY <1>1, <1>3 DEF LinesInv, C!Line
    <3>. QED  BY <2>1, <3>1
  <2>3. ASSUME NEW e \in Droppers PROVE dropper'[e].base \subseteq WrittenTo(C!Family(e))'
    <3>1. CASE e = d
      <4>1. C!NextFamily(dropper[d]).base = {}
        BY <1>1 DEF C!NextFamily
      <4>. QED  BY <1>1, <1>3, <3>1, <4>1
    <3>2. CASE e # d
      <4>1. dropper'[e] = dropper[e]
        BY <1>1, <1>3, <3>2
      <4>2. WrittenTo(C!Family(e))' = WrittenTo(C!Family(e))
        BY <1>3, <4>1 DEF C!Family, WrittenTo, C!Line
      <4>. QED  BY <4>1, <4>2 DEF LinesInv
    <3>. QED  BY <3>1, <3>2
  <2>4. ASSUME NEW g \in C!Names
        PROVE  queue'[g] \subseteq WrittenTo(g)' /\ queueTmp'[g].lines \subseteq WrittenTo(g)'
    BY <1>1, <1>3, <1>4 DEF LinesInv, C!NoTmp
  <2>. QED  BY <1>4, <2>2, <2>3, <2>4 DEF LinesInv
<1>6. /\ UNCHANGED [g \in C!Names |-> Ever(g)]
      /\ [g \in C!Names |-> Waiting(g)]' = [[g \in C!Names |-> Waiting(g)] EXCEPT ![f] = Waiting(f)']
  <2>1. UNCHANGED [g \in C!Names |-> Ever(g)]
    BY <1>4
  <2>2. \A g \in C!Names : g # f => Waiting(g)' = Waiting(g)
    BY <1>1, <1>3 DEF Waiting
  <2>. QED  BY <1>4, <2>1, <2>2
<1>7. CASE raced' = raced \cup {f}
  <2>1. PICK some : some = Waiting(f)'
    OBVIOUS
  <2>2. some \subseteq Ever(f) /\ some \in SUBSET Adders
    <3>1. queueTmp[f].lines \in SUBSET WrittenTo(f) /\ queue'[f] = queueTmp[f].lines
      BY <1>1, <1>3 DEF LinesInv
    <3>. QED  BY <2>1, <3>1, WrittenIsPut DEF Waiting
  <2>3. C!Atomic!Spoil(f, some)
    BY <1>6, <1>7, <2>1, <2>2 DEF C!Atomic!Spoil, Waiting, Ever
  <2>4. \E chosen \in SUBSET Adders : C!Atomic!Spoil(f, chosen)
    BY <2>2, <2>3
  <2>. QED  BY <1>5, <2>4 DEF C!Atomic!Next
<1>8. CASE raced' # raced \cup {f}
  <2>1. f \notin raced /\ raced' = raced /\ queue[f] = dropper[d].base
    BY <1>3, <1>8
  <2>2. queueTmp[f].lines = C!Kept(d)
    BY <1>2, <1>3, <2>1 DEF QueuesInv
  <2>3. PICK gone \in SUBSET Adders : gone = dropper[d].ids
    BY <1>1
  <2>4. queue'[f] = {l \in queue[f] : l.id \notin gone}
    BY <1>1, <1>3, <2>1, <2>2, <2>3 DEF C!Kept
  <2>5. Waiting(f)' = Waiting(f) \ gone
    <3>1. Waiting(f)' = {l.id : l \in {k \in queue[f] : k.id \notin gone}}
      BY <2>4 DEF Waiting
    <3>2. \A x : x \in Waiting(f)' <=> x \in Waiting(f) \ gone
      BY <3>1 DEF Waiting
    <3>. QED  BY <3>2
  <2>6. C!Atomic!Take(f, gone)
    BY <1>6, <2>1, <2>5 DEF C!Atomic!Take, Waiting, Ever
  <2>7. \E chosen \in SUBSET Adders : C!Atomic!Take(f, chosen)
    BY <2>3, <2>6
  <2>. QED  BY <1>5, <2>7 DEF C!Atomic!Next
<1>. QED  BY <1>5, <1>7, <1>8

\* Every step of a command is one of the queue that puts and takes at once, or changes
\* nothing that queue tells apart.
LEMMA StepIsAtomic ==
    ASSUME QueuesInv, LinesInv, [C!Next]_(C!vars)
    PROVE  LinesInv' /\ [C!Atomic!Next]_(C!Atomic!vars)
<1>1. CASE C!Next
  BY <1>1, AppendPuts, AddOpens, DropReads, ReplaceTakes DEF C!Next, C!Add, C!Drop
<1>2. CASE UNCHANGED C!vars
  <2>1. UNCHANGED <<queue, queueTmp, adder, dropper, added, raced>>
    BY <1>2 DEF C!vars
  <2>2. UNCHANGED C!Atomic!vars /\ C!Names' = C!Names
    BY <2>1 DEF C!Atomic!vars, C!Names
  <2>3. /\ \A g : WrittenTo(g)' = WrittenTo(g)
        /\ \A d \in Droppers : WrittenTo(C!Family(d))' = WrittenTo(C!Family(d))
    BY <2>1 DEF WrittenTo, C!Line, C!Family
  <2>. QED  BY <2>1, <2>2, <2>3 DEF LinesInv
<1>. QED  BY <1>1, <1>2

\* The commands of the judge queues implement a queue that puts and takes at once, but in
\* families in which a drop overlapped another command.
THEOREM QueuesAreAtomic == FilesSpec => C!ImplementsAtomicQueue
<1>1. FilesInit => LinesInv /\ C!Atomic!Init
  BY AtomicStart DEF FilesInit
<1>2. QueuesInv /\ LinesInv /\ [FilesNext]_filesVars
      => LinesInv' /\ [C!Atomic!Next]_(C!Atomic!vars)
  BY QueuesMove, StepIsAtomic
<1>. QED  BY <1>1, <1>2, QueuesHold, PTL DEF FilesSpec, C!ImplementsAtomicQueue, C!Atomic!Spec

-----------------------------------------------------------------------------
(* The stage file of Gmail messages.                                         *)

ApplyRow ==
    [pc: {"off", "read", "trash", "log", "tmp", "rename", "done"},
     todo: SUBSET Msgs, keep: SUBSET Msgs, done: SUBSET Msgs]
Applying(r) == r.pc \in {"trash", "log", "tmp", "rename"}

\* What an apply holds at each place.
ApplyIs(r) ==
    /\ r.pc # "trash" => r.todo = {}
    /\ r.pc \notin {"trash", "log"} => r.done = {}
    /\ ~Applying(r) => r.keep = {}
    /\ r.todo \cap r.keep = {}

\* Until two overlap: what an apply holds is staged still, its temporary file is its
\* own, and of what was trashed it knows where it is.
Apart ==
    /\ \A p, q \in Appliers : Applying(apply[p]) /\ Applying(apply[q]) => p = q
    /\ \A p \in Appliers : Applying(apply[p]) =>
         /\ apply[p].todo \cup apply[p].keep \cup apply[p].done \subseteq stage
         /\ apply[p].pc = "rename" /\ stageTmp.there => stageTmp.lines = apply[p].keep
         /\ trashed \subseteq applied \cup apply[p].todo \cup apply[p].keep \cup apply[p].done

\* Until one is cut short, too: what was trashed is on no list to trash, and is staged
\* only while an apply is about to take it out.
NotAgain ==
    \A m \in trashed :
        /\ \A p \in Appliers : m \notin apply[p].todo
        /\ m \in stage => \E p \in Appliers : Applying(apply[p]) /\ m \notin apply[p].keep

GmailInv ==
    /\ G!TypeOK
    /\ \A p \in Appliers : ApplyIs(apply[p])
    /\ undone \subseteq trashed
    /\ ~appliesOverlapped => Apart
    /\ ~appliesOverlapped /\ ~cut => NotAgain
    /\ G!TrashedIsOnRecord

LEMMA GmailTypes ==
    GmailInv => /\ stage \subseteq Msgs /\ applied \subseteq Msgs
                /\ stageTmp \in [there: BOOLEAN, lines: SUBSET Msgs]
                /\ trash \subseteq Msgs /\ trashed \subseteq Msgs /\ undone \subseteq Msgs
                /\ apply \in [Appliers -> ApplyRow]
                /\ gmailFaults \in 0..GmailFaults
                /\ appliesOverlapped \in BOOLEAN /\ cut \in BOOLEAN
  BY DEF GmailInv, G!TypeOK, ApplyRow

LEMMA GmailStarts == ASSUME G!Init PROVE GmailInv
<1>1. ReaderRuns \in Nat /\ GmailFaults \in Nat
  BY GmailAssumption
<1>2. apply = [p \in Appliers |-> G!NotApplying] /\ G!NotApplying \in ApplyRow
      /\ G!NotApplying = [pc |-> "off", todo |-> {}, keep |-> {}, done |-> {}]
  BY DEF G!Init, G!NotApplying, ApplyRow
<1>3. G!TypeOK
  <2>1. reader \in [runs: 0..ReaderRuns, running: BOOLEAN, begun: SUBSET Msgs, ok: BOOLEAN, covered: SUBSET Msgs]
    BY <1>1 DEF G!Init
  <2>2. stager \in [Stagers -> [pc: {"off", "append", "done"}, add: SUBSET Msgs, attached: BOOLEAN]]
    BY DEF G!Init, G!NotStaging
  <2>3. stageTmp \in [there: BOOLEAN, lines: SUBSET Msgs] /\ gmailFaults \in 0..GmailFaults
    BY <1>1 DEF G!Init, G!NoTmp
  <2>4. apply \in [Appliers -> ApplyRow]
    BY <1>2
  <2>. QED  BY <2>1, <2>2, <2>3, <2>4 DEF G!Init, G!TypeOK, ApplyRow
<1>4. \A p \in Appliers : ApplyIs(apply[p]) /\ ~Applying(apply[p])
  BY <1>2 DEF ApplyIs, Applying
<1>5. trashed = {} /\ undone = {}
  BY DEF G!Init
<1>. QED  BY <1>3, <1>4, <1>5 DEF GmailInv, Apart, NotAgain, G!TrashedIsOnRecord

\* A step of one apply that leaves the stage file alone.
LEMMA ApplierKeeps ==
    ASSUME GmailInv, NEW p \in Appliers, NEW r \in ApplyRow, ApplyIs(r),
           apply' = [apply EXCEPT ![p] = r], UNCHANGED <<stage, stager, reader, undone>>,
           trash' \subseteq Msgs, applied' \subseteq Msgs, gmailFaults' \in 0..GmailFaults,
           stageTmp' \in [there: BOOLEAN, lines: SUBSET Msgs],
           appliesOverlapped' \in BOOLEAN, cut' \in BOOLEAN,
           appliesOverlapped => appliesOverlapped', cut => cut',
           applied \subseteq applied',
           trashed \subseteq trashed', trashed' \subseteq trashed \cup apply[p].todo,
           Applying(r) \/ UNCHANGED <<stageTmp, trashed>>,
           ~appliesOverlapped' /\ Applying(r) =>
             /\ \A q \in Appliers : Applying(apply[q]) => q = p
             /\ r.todo \cup r.keep \cup r.done \subseteq stage
             /\ r.pc = "rename" /\ stageTmp'.there => stageTmp'.lines = r.keep
             /\ trashed' \subseteq applied' \cup r.todo \cup r.keep \cup r.done,
           ~appliesOverlapped' /\ ~cut' =>
             /\ \A m \in trashed' : m \notin r.todo
             /\ \A m \in trashed' \cap stage :
                  (Applying(r) /\ m \notin r.keep) \/ (~Applying(apply[p]) /\ ~Applying(r))
    PROVE  GmailInv'
<1>1. apply \in [Appliers -> ApplyRow] /\ apply' \in [Appliers -> ApplyRow]
      /\ apply'[p] = r /\ \A q \in Appliers : q # p => apply'[q] = apply[q]
  BY GmailTypes
<1>2. G!TypeOK'
  BY <1>1, GmailTypes DEF GmailInv, G!TypeOK, ApplyRow
<1>3. \A q \in Appliers : ApplyIs(apply'[q])
  BY <1>1 DEF GmailInv
<1>4. undone' \subseteq trashed'
  BY DEF GmailInv
<1>5. ASSUME ~appliesOverlapped' PROVE Apart'
  <2>1. Apart
    BY <1>5 DEF GmailInv
  <2>2. CASE Applying(r)
    <3>1. \A q \in Appliers : Applying(apply'[q]) => q = p
      BY <1>1, <1>5, <2>2
    <3>. QED  BY <1>1, <1>5, <2>2, <3>1 DEF Apart
  <2>3. CASE ~Applying(r)
    <3>1. \A q \in Appliers : Applying(apply'[q]) => q # p /\ Applying(apply[q])
      BY <1>1, <2>3
    <3>2. UNCHANGED <<stageTmp, trashed>>
      BY <2>3
    <3>3. \A q, s \in Appliers : Applying(apply'[q]) /\ Applying(apply'[s]) => q = s
      BY <1>1, <2>1, <3>1 DEF Apart
    <3>4. ASSUME NEW q \in Appliers, Applying(apply'[q])
          PROVE  /\ apply'[q].todo \cup apply'[q].keep \cup apply'[q].done \subseteq stage
                 /\ apply'[q].pc = "rename" /\ stageTmp.there => stageTmp.lines = apply'[q].keep
                 /\ trashed \subseteq applied' \cup apply'[q].todo \cup apply'[q].keep \cup apply'[q].done
      <4>1. apply'[q] = apply[q] /\ Applying(apply[q])
        BY <1>1, <3>1, <3>4
      <4>. QED  BY <2>1, <4>1 DEF Apart
    <3>. QED  BY <3>2, <3>3, <3>4 DEF Apart
  <2>. QED  BY <2>2, <2>3
<1>6. ASSUME ~appliesOverlapped', ~cut' PROVE NotAgain'
  <2>1. Apart /\ NotAgain
    BY <1>6 DEF GmailInv
  <2>. SUFFICES ASSUME NEW m \in trashed'
       PROVE  /\ \A q \in Appliers : m \notin apply'[q].todo
              /\ m \in stage => \E q \in Appliers : Applying(apply'[q]) /\ m \notin apply'[q].keep
    BY DEF NotAgain
  <2>2. CASE m \in trashed
    <3>1. \A q \in Appliers : m \notin apply'[q].todo
      BY <1>1, <1>6, <2>1, <2>2 DEF NotAgain
    <3>2. ASSUME m \in stage PROVE \E q \in Appliers : Applying(apply'[q]) /\ m \notin apply'[q].keep
      <4>1. PICK q \in Appliers : Applying(apply[q]) /\ m \notin apply[q].keep
        BY <2>1, <2>2, <3>2 DEF NotAgain
      <4>2. (Applying(r) /\ m \notin r.keep) \/ (~Applying(apply[p]) /\ ~Applying(r))
        BY <1>6, <3>2
      <4>. QED  BY <1>1, <4>1, <4>2
    <3>. QED  BY <3>1, <3>2
  <2>3. CASE m \notin trashed
    <3>1. m \in apply[p].todo /\ Applying(r)
      BY <2>3
    <3>2. Applying(apply[p])
      BY <3>1 DEF GmailInv, ApplyIs, Applying
    <3>3. \A q \in Appliers : q # p => ~Applying(apply[q])
      BY <2>1, <3>2 DEF Apart
    <3>4. \A q \in Appliers : q # p => apply[q].todo = {}
      BY <3>3 DEF GmailInv, ApplyIs, Applying
    <3>5. m \notin r.todo /\ (m \in stage => m \notin r.keep)
      BY <1>6, <3>1, <3>2
    <3>. QED  BY <1>1, <3>1, <3>4, <3>5
  <2>. QED  BY <2>2, <2>3
<1>7. G!TrashedIsOnRecord'
  <2>. SUFFICES ASSUME NEW m \in trashed', ~appliesOverlapped'
       PROVE  m \in applied' \cup stage
    BY DEF G!TrashedIsOnRecord
  <2>1. Apart
    BY DEF GmailInv
  <2>2. CASE Applying(r)
    BY <2>2
  <2>3. CASE ~Applying(r)
    <3>1. m \in trashed
      BY <2>3
    <3>2. m \in applied \cup stage \/ \E q \in Appliers : m \in apply[q].done
      BY <3>1 DEF GmailInv, G!TrashedIsOnRecord
    <3>3. \A q \in Appliers : apply[q].done \subseteq stage
      BY <2>1 DEF GmailInv, ApplyIs, Apart, Applying
    <3>. QED  BY <3>2, <3>3
  <2>. QED  BY <2>2, <2>3
<1>. QED  BY <1>2, <1>3, <1>4, <1>5, <1>6, <1>7 DEF GmailInv

LEMMA ApplierBooks ==
    ASSUME GmailInv, NEW p \in Appliers,
           \/ G!GatePasses(p) \/ G!GateRefuses(p)
           \/ \E account : G!AccountFails(p, account)
           \/ G!RequestsDone(p)
    PROVE  GmailInv'
<1>. DEFINE r == apply'[p]
<1>1. apply[p] \in ApplyRow /\ ApplyIs(apply[p]) /\ apply \in [Appliers -> ApplyRow]
      /\ (~appliesOverlapped => Apart) /\ (~appliesOverlapped /\ ~cut => NotAgain)
  BY GmailTypes DEF GmailInv
<1>2. /\ UNCHANGED <<stage, stageTmp, applied, trash, stager, reader, trashed, undone, appliesOverlapped, cut>>
      /\ gmailFaults' \in 0..GmailFaults
  <2>1. /\ UNCHANGED <<stage, stageTmp, applied, trash, stager, reader, trashed, undone, appliesOverlapped, cut>>
        /\ gmailFaults' = gmailFaults \/ (gmailFaults < GmailFaults /\ gmailFaults' = gmailFaults + 1)
    BY DEF G!GatePasses, G!GateRefuses, G!AccountFails, G!RequestsDone, G!files, G!history
  <2>2. GmailFaults \in Nat /\ gmailFaults \in 0..GmailFaults
    BY GmailAssumption, GmailTypes
  <2>. QED  BY <2>1, <2>2
<1>3. /\ r \in ApplyRow /\ ApplyIs(r) /\ apply' = [apply EXCEPT ![p] = r]
      /\ (Applying(r) <=> Applying(apply[p])) /\ r.pc # "rename" /\ r.todo \subseteq apply[p].todo
      /\ r.todo \cup r.keep = apply[p].todo \cup apply[p].keep /\ r.done = apply[p].done
      /\ \A m \in r.keep : m \in apply[p].todo \/ m \in apply[p].keep
  <2>1. CASE G!GatePasses(p) \/ G!GateRefuses(p)
    BY <1>1, <2>1 DEF G!GatePasses, G!GateRefuses, ApplyRow, ApplyIs, Applying
  <2>2. ASSUME NEW account, G!AccountFails(p, account)
        PROVE  /\ r \in ApplyRow /\ ApplyIs(r) /\ apply' = [apply EXCEPT ![p] = r]
               /\ (Applying(r) <=> Applying(apply[p])) /\ r.pc # "rename" /\ r.todo \subseteq apply[p].todo
               /\ r.todo \cup r.keep = apply[p].todo \cup apply[p].keep /\ r.done = apply[p].done
               /\ \A m \in r.keep : m \in apply[p].todo \/ m \in apply[p].keep
    <3>. DEFINE batch == {m \in apply[p].todo : Account[m] = account}
    <3>1. apply' = [apply EXCEPT ![p] = [apply[p] EXCEPT !.todo = apply[p].todo \ batch,
                                                         !.keep = apply[p].keep \cup batch]]
          /\ apply[p].pc = "trash"
      BY <2>2 DEF G!AccountFails
    <3>2. batch \subseteq apply[p].todo
      OBVIOUS
    <3>. HIDE DEF batch
    <3>3. r = [apply[p] EXCEPT !.todo = apply[p].todo \ batch, !.keep = apply[p].keep \cup batch]
      BY <1>1, <3>1
    <3>4. r \in ApplyRow /\ r.pc = "trash" /\ r.done = apply[p].done
          /\ r.todo = apply[p].todo \ batch /\ r.keep = apply[p].keep \cup batch
      BY <1>1, <3>1, <3>2, <3>3 DEF ApplyRow
    <3>. QED  BY <1>1, <3>1, <3>2, <3>3, <3>4 DEF ApplyIs, Applying
  <2>3. CASE G!RequestsDone(p)
    BY <1>1, <2>3 DEF G!RequestsDone, ApplyRow, ApplyIs, Applying
  <2>. QED  BY <2>1, <2>2, <2>3
<1>. HIDE DEF r
<1>4. ASSUME ~appliesOverlapped, Applying(r)
      PROVE  /\ \A q \in Appliers : Applying(apply[q]) => q = p
             /\ r.todo \cup r.keep \cup r.done \subseteq stage
             /\ trashed \subseteq applied \cup r.todo \cup r.keep \cup r.done
  BY <1>1, <1>3, <1>4 DEF Apart
<1>5. ASSUME ~appliesOverlapped, ~cut, NEW m \in trashed
      PROVE  /\ m \notin r.todo
             /\ m \in stage => (Applying(r) /\ m \notin r.keep) \/ (~Applying(apply[p]) /\ ~Applying(r))
  <2>1. \A q \in Appliers : m \notin apply[q].todo
    BY <1>1, <1>5 DEF NotAgain
  <2>2. ASSUME m \in stage, Applying(apply[p]) PROVE m \notin r.keep
    <3>1. \E q \in Appliers : Applying(apply[q]) /\ m \notin apply[q].keep
      BY <1>1, <1>5, <2>2 DEF NotAgain
    <3>2. m \notin apply[p].keep
      BY <1>1, <1>5, <2>2, <3>1 DEF Apart
    <3>. QED  BY <1>3, <2>1, <3>2
  <2>. QED  BY <1>3, <2>1, <2>2
<1>6. trash \subseteq Msgs /\ applied \subseteq Msgs /\ stageTmp \in [there: BOOLEAN, lines: SUBSET Msgs]
      /\ appliesOverlapped \in BOOLEAN /\ cut \in BOOLEAN
  BY GmailTypes
<1>7. Applying(r) \/ UNCHANGED <<stageTmp, trashed>>
  BY <1>2
<1>. QED  BY <1>2, <1>3, <1>4, <1>5, <1>6, <1>7, ApplierKeeps

LEMMA ApplierReads == ASSUME GmailInv, NEW p \in Appliers, NEW accounts, G!ReadStage(p, accounts) PROVE GmailInv'
<1>. DEFINE todo == {m \in stage : Account[m] \in accounts}
            r == [pc |-> "trash", todo |-> todo, keep |-> stage \ todo, done |-> {}]
<1>1. /\ apply[p].pc \in {"read", "off"}
      /\ apply' = [apply EXCEPT ![p] = r]
      /\ appliesOverlapped' = (appliesOverlapped \/ \E other \in Appliers : G!Busy(other))
      /\ UNCHANGED <<stage, stageTmp, applied, trash, reader, stager, gmailFaults, trashed, undone, cut>>
  BY DEF G!ReadStage, G!files
<1>2. todo \subseteq stage /\ stage \subseteq Msgs
  BY GmailTypes
<1>. HIDE DEF todo
<1>3. r \in ApplyRow /\ ApplyIs(r) /\ Applying(r) /\ r.pc # "rename" /\ ~Applying(apply[p])
      /\ r.todo \cup r.keep = stage /\ r.done = {} /\ r.todo \subseteq stage
  BY <1>1, <1>2 DEF ApplyRow, ApplyIs, Applying
<1>. HIDE DEF r
<1>4. \A q \in Appliers : G!Busy(q) <=> Applying(apply[q])
  BY DEF G!Busy, Applying
<1>5. ASSUME ~appliesOverlapped'
      PROVE  /\ \A q \in Appliers : ~Applying(apply[q])
             /\ trashed \subseteq applied \cup stage
             /\ ~cut => \A m \in trashed : m \notin stage
  <2>1. ~appliesOverlapped /\ \A q \in Appliers : ~Applying(apply[q])
    BY <1>1, <1>4, <1>5
  <2>2. \A q \in Appliers : apply[q].done = {}
    BY <2>1 DEF GmailInv, ApplyIs, Applying
  <2>3. trashed \subseteq applied \cup stage
    BY <2>1, <2>2 DEF GmailInv, G!TrashedIsOnRecord
  <2>4. ~cut => \A m \in trashed : m \notin stage
    BY <2>1 DEF GmailInv, NotAgain
  <2>. QED  BY <2>1, <2>3, <2>4
<1>6. trash \subseteq Msgs /\ applied \subseteq Msgs /\ stageTmp \in [there: BOOLEAN, lines: SUBSET Msgs]
      /\ appliesOverlapped' \in BOOLEAN /\ cut \in BOOLEAN /\ gmailFaults \in 0..GmailFaults
      /\ (appliesOverlapped => appliesOverlapped')
  BY <1>1, GmailTypes
<1>7. ASSUME ~appliesOverlapped', ~cut'
      PROVE  /\ \A m \in trashed' : m \notin r.todo
             /\ \A m \in trashed' \cap stage :
                  (Applying(r) /\ m \notin r.keep) \/ (~Applying(apply[p]) /\ ~Applying(r))
  BY <1>1, <1>3, <1>5, <1>7
<1>8. ASSUME ~appliesOverlapped', Applying(r)
      PROVE  /\ \A q \in Appliers : Applying(apply[q]) => q = p
             /\ r.todo \cup r.keep \cup r.done \subseteq stage
             /\ r.pc = "rename" /\ stageTmp'.there => stageTmp'.lines = r.keep
             /\ trashed' \subseteq applied' \cup r.todo \cup r.keep \cup r.done
  BY <1>1, <1>3, <1>5, <1>8
<1>. QED  BY <1>1, <1>3, <1>6, <1>7, <1>8, ApplierKeeps

LEMMA ApplierTrashes ==
    ASSUME GmailInv, NEW p \in Appliers, NEW batch,
           G!BatchTrashed(p, batch) \/ \E carriedOut \in BOOLEAN : G!BatchFails(p, batch, carriedOut)
    PROVE  GmailInv'
<1>. DEFINE went == G!BatchTrashed(p, batch)
            r == [apply[p] EXCEPT !.todo = apply[p].todo \ batch,
                    !.keep = IF went THEN apply[p].keep ELSE apply[p].keep \cup batch,
                    !.done = IF went THEN apply[p].done \cup batch ELSE apply[p].done]
<1>1. /\ apply[p].pc = "trash" /\ batch \subseteq apply[p].todo
      /\ UNCHANGED <<stage, stageTmp, applied, reader, stager, undone, appliesOverlapped>>
  BY DEF G!BatchTrashed, G!BatchFails, G!IsBatch, G!files
<1>2. apply[p] \in ApplyRow /\ ApplyIs(apply[p]) /\ apply \in [Appliers -> ApplyRow]
      /\ (~appliesOverlapped => Apart) /\ (~appliesOverlapped /\ ~cut => NotAgain)
  BY GmailTypes DEF GmailInv
<1>3. apply' = [apply EXCEPT ![p] = r]
  <2>1. CASE went
    BY <1>2, <2>1 DEF G!BatchTrashed, ApplyRow
  <2>2. CASE ~went
    BY <1>2, <2>2 DEF G!BatchFails, ApplyRow
  <2>. QED  BY <2>1, <2>2
<1>4. /\ trash' = trash \/ trash' = trash \cup batch
      /\ \/ trashed' = trashed /\ ~went /\ cut' = cut
         \/ trashed' = trashed \cup batch /\ (went \/ cut') /\ (went => cut' = cut)
      /\ cut' \in BOOLEAN /\ (cut => cut')
      /\ gmailFaults' = gmailFaults \/ (gmailFaults < GmailFaults /\ gmailFaults' = gmailFaults + 1)
  <2>1. CASE went
    <3>1. cut' = cut /\ gmailFaults' = gmailFaults /\ trash' = trash \cup batch /\ trashed' = trashed \cup batch
      BY <2>1 DEF G!BatchTrashed
    <3>. HIDE DEF went
    <3>. QED  BY <2>1, <3>1, GmailTypes
  <2>2. CASE ~went
    <3>1. PICK carriedOut \in BOOLEAN : G!BatchFails(p, batch, carriedOut)
      BY <2>2
    <3>2. /\ cut' = (cut \/ carriedOut) /\ gmailFaults < GmailFaults /\ gmailFaults' = gmailFaults + 1
          /\ trash' = (IF carriedOut THEN trash \cup batch ELSE trash)
          /\ trashed' = (IF carriedOut THEN trashed \cup batch ELSE trashed)
      BY <3>1 DEF G!BatchFails
    <3>. HIDE DEF went
    <3>. QED  BY <2>2, <3>2, GmailTypes
  <2>. QED  BY <2>1, <2>2
<1>. HIDE DEF went
<1>5. gmailFaults' \in 0..GmailFaults
  <2>1. GmailFaults \in Nat /\ gmailFaults \in 0..GmailFaults
    BY GmailAssumption, GmailTypes
  <2>. QED  BY <1>4, <2>1
<1>6. /\ r \in ApplyRow /\ r.pc = "trash" /\ r.todo = apply[p].todo \ batch
      /\ r.keep = (IF went THEN apply[p].keep ELSE apply[p].keep \cup batch)
      /\ r.done = (IF went THEN apply[p].done \cup batch ELSE apply[p].done)
  BY <1>1, <1>2 DEF ApplyRow
<1>. HIDE DEF r
<1>7. ApplyIs(r) /\ Applying(r) /\ Applying(apply[p])
  BY <1>1, <1>2, <1>6 DEF ApplyIs, Applying
<1>8. ASSUME ~appliesOverlapped'
      PROVE  /\ \A q \in Appliers : Applying(apply[q]) => q = p
             /\ r.todo \cup r.keep \cup r.done \subseteq stage
             /\ trashed' \subseteq applied \cup r.todo \cup r.keep \cup r.done
  <2>1. Apart
    BY <1>1, <1>2, <1>8
  <2>2. \A q \in Appliers : Applying(apply[q]) => q = p
    BY <1>7, <2>1 DEF Apart
  <2>3. apply[p].todo \cup apply[p].keep \cup apply[p].done \subseteq stage
        /\ trashed \subseteq applied \cup apply[p].todo \cup apply[p].keep \cup apply[p].done
    BY <1>7, <2>1 DEF Apart
  <2>4. r.todo \cup r.keep \cup r.done = apply[p].todo \cup apply[p].keep \cup apply[p].done
    BY <1>1, <1>6
  <2>. QED  BY <1>1, <1>4, <2>2, <2>3, <2>4
<1>9. ASSUME ~appliesOverlapped', ~cut', NEW m \in trashed'
      PROVE  m \notin r.todo /\ (m \in stage => m \notin r.keep)
  <2>1. Apart /\ NotAgain
    BY <1>1, <1>2, <1>4, <1>9
  <2>2. CASE m \in trashed
    <3>1. \A q \in Appliers : m \notin apply[q].todo
      BY <2>1, <2>2 DEF NotAgain
    <3>2. m \in stage => m \notin apply[p].keep
      BY <1>7, <2>1, <2>2 DEF NotAgain, Apart
    <3>. QED  BY <1>1, <1>6, <3>1, <3>2
  <2>3. CASE m \notin trashed
    <3>1. m \in batch /\ went
      BY <1>4, <1>9, <2>3
    <3>2. m \notin apply[p].keep
      BY <1>1, <1>2, <3>1 DEF ApplyIs
    <3>. QED  BY <1>6, <3>1, <3>2
  <2>. QED  BY <2>2, <2>3
<1>10. trash' \subseteq Msgs /\ applied \subseteq Msgs /\ stageTmp \in [there: BOOLEAN, lines: SUBSET Msgs]
       /\ appliesOverlapped \in BOOLEAN
  <2>1. batch \subseteq Msgs
    BY <1>1, <1>2 DEF ApplyRow
  <2>. QED  BY <1>4, <2>1, GmailTypes
<1>11. trashed \subseteq trashed' /\ trashed' \subseteq trashed \cup apply[p].todo
  BY <1>1, <1>4
<1>. QED  BY <1>1, <1>3, <1>4, <1>5, <1>6, <1>7, <1>8, <1>9, <1>10, <1>11, ApplierKeeps

LEMMA ApplierLogs ==
    ASSUME GmailInv, NEW p \in Appliers, (\E m \in Msgs : G!LogApplied(p, m)) \/ G!WriteTmp(p)
    PROVE  GmailInv'
<1>. DEFINE r == apply'[p]
<1>1. apply[p] \in ApplyRow /\ ApplyIs(apply[p]) /\ apply \in [Appliers -> ApplyRow]
      /\ (~appliesOverlapped => Apart) /\ (~appliesOverlapped /\ ~cut => NotAgain)
  BY GmailTypes DEF GmailInv
<1>2. UNCHANGED <<stage, trash, reader, stager, gmailFaults, trashed, undone, appliesOverlapped, cut>>
  BY DEF G!LogApplied, G!WriteTmp, G!history
<1>3. /\ r \in ApplyRow /\ apply' = [apply EXCEPT ![p] = r] /\ apply[p].pc \in {"log", "tmp"}
      /\ r.pc \in {"log", "tmp", "rename"} /\ r.todo = apply[p].todo /\ r.keep = apply[p].keep
      /\ r.done \subseteq apply[p].done /\ (r.pc # "log" => r.done = {})
      /\ applied \cup apply[p].done = applied' \cup r.done /\ applied \subseteq applied'
      /\ IF r.pc = "rename" THEN stageTmp' = [there |-> TRUE, lines |-> apply[p].keep]
         ELSE stageTmp' = stageTmp
  <2>1. ASSUME NEW m \in Msgs, G!LogApplied(p, m)
        PROVE  /\ r \in ApplyRow /\ apply' = [apply EXCEPT ![p] = r] /\ apply[p].pc = "log"
               /\ r.pc \in {"log", "tmp"} /\ r.todo = apply[p].todo /\ r.keep = apply[p].keep
               /\ r.done = apply[p].done \ {m} /\ (r.pc # "log" => r.done = {})
               /\ applied' = applied \cup {m} /\ m \in apply[p].done /\ stageTmp' = stageTmp
    <3>1. /\ apply' = [apply EXCEPT ![p] = [apply[p] EXCEPT !.done = apply[p].done \ {m},
                                              !.pc = IF apply[p].done = {m} THEN "tmp" ELSE apply[p].pc]]
          /\ apply[p].pc = "log" /\ m \in apply[p].done
          /\ applied' = applied \cup {m} /\ stageTmp' = stageTmp
      BY <1>1, <2>1 DEF G!LogApplied, ApplyRow
    <3>2. r = [apply[p] EXCEPT !.done = apply[p].done \ {m},
                               !.pc = IF apply[p].done = {m} THEN "tmp" ELSE apply[p].pc]
      BY <1>1, <3>1
    <3>3. r \in ApplyRow /\ r.todo = apply[p].todo /\ r.keep = apply[p].keep
          /\ r.done = apply[p].done \ {m} /\ r.pc = (IF apply[p].done = {m} THEN "tmp" ELSE "log")
      BY <1>1, <3>1, <3>2 DEF ApplyRow
    <3>4. apply' = [apply EXCEPT ![p] = r]
      BY <3>1, <3>2
    <3>. HIDE DEF r
    <3>. QED  BY <3>1, <3>3, <3>4
  <2>2. ASSUME G!WriteTmp(p)
        PROVE  /\ r \in ApplyRow /\ apply' = [apply EXCEPT ![p] = r] /\ apply[p].pc = "tmp"
               /\ r.pc = "rename" /\ r.todo = apply[p].todo /\ r.keep = apply[p].keep
               /\ r.done = apply[p].done
               /\ applied' = applied /\ stageTmp' = [there |-> TRUE, lines |-> apply[p].keep]
    BY <1>1, <2>2 DEF G!WriteTmp, ApplyRow
  <2>3. CASE \E m \in Msgs : G!LogApplied(p, m)
    <3>. HIDE DEF r
    <3>1. PICK m \in Msgs : G!LogApplied(p, m)
      BY <2>3
    <3>2. /\ r \in ApplyRow /\ apply' = [apply EXCEPT ![p] = r] /\ apply[p].pc = "log"
          /\ r.pc \in {"log", "tmp"} /\ r.todo = apply[p].todo /\ r.keep = apply[p].keep
          /\ r.done = apply[p].done \ {m} /\ (r.pc # "log" => r.done = {})
          /\ applied' = applied \cup {m} /\ m \in apply[p].done /\ stageTmp' = stageTmp
      BY <2>1, <3>1
    <3>. QED  BY <3>2
  <2>4. CASE G!WriteTmp(p)
    <3>. HIDE DEF r
    <3>1. apply[p].done = {}
      BY <1>1, <2>2, <2>4 DEF ApplyIs
    <3>. QED  BY <2>2, <2>4, <3>1
  <2>. QED  BY <2>3, <2>4
<1>. HIDE DEF r
<1>4. ApplyIs(r) /\ Applying(r) /\ Applying(apply[p])
  BY <1>1, <1>3 DEF ApplyIs, Applying
<1>5. ASSUME ~appliesOverlapped'
      PROVE  /\ \A q \in Appliers : Applying(apply[q]) => q = p
             /\ r.todo \cup r.keep \cup r.done \subseteq stage
             /\ r.pc = "rename" /\ stageTmp'.there => stageTmp'.lines = r.keep
             /\ trashed' \subseteq applied' \cup r.todo \cup r.keep \cup r.done
  <2>1. Apart
    BY <1>1, <1>2, <1>5
  <2>2. \A q \in Appliers : Applying(apply[q]) => q = p
    BY <1>4, <2>1 DEF Apart
  <2>3. apply[p].todo \cup apply[p].keep \cup apply[p].done \subseteq stage
        /\ trashed \subseteq applied \cup apply[p].todo \cup apply[p].keep \cup apply[p].done
    BY <1>4, <2>1 DEF Apart
  <2>4. r.todo \cup r.keep \cup r.done \subseteq stage
    BY <1>3, <2>3
  <2>5. trashed' \subseteq applied' \cup r.todo \cup r.keep \cup r.done
    BY <1>2, <1>3, <2>3
  <2>6. r.pc = "rename" => stageTmp'.lines = r.keep
    BY <1>3
  <2>. QED  BY <2>2, <2>4, <2>5, <2>6
<1>6. ASSUME ~appliesOverlapped', ~cut', NEW m \in trashed'
      PROVE  m \notin r.todo /\ (m \in stage => m \notin r.keep)
  <2>1. Apart /\ NotAgain
    BY <1>1, <1>2, <1>6
  <2>2. m \in trashed
    BY <1>2
  <2>. QED  BY <1>3, <1>4, <2>1, <2>2 DEF NotAgain, Apart
<1>7. trash' \subseteq Msgs /\ applied' \subseteq Msgs /\ gmailFaults' \in 0..GmailFaults
      /\ appliesOverlapped' \in BOOLEAN /\ cut' \in BOOLEAN
      /\ stageTmp' \in [there: BOOLEAN, lines: SUBSET Msgs]
  <2>1. apply[p].done \subseteq Msgs /\ apply[p].keep \subseteq Msgs
    BY <1>1 DEF ApplyRow
  <2>2. applied' \subseteq Msgs
    BY <1>3, <2>1, GmailTypes
  <2>3. stageTmp' \in [there: BOOLEAN, lines: SUBSET Msgs]
    <3>1. [there |-> TRUE, lines |-> apply[p].keep] \in [there: BOOLEAN, lines: SUBSET Msgs]
      BY <2>1
    <3>2. stageTmp' = [there |-> TRUE, lines |-> apply[p].keep] \/ stageTmp' = stageTmp
      BY <1>3
    <3>. QED  BY <3>1, <3>2, GmailTypes
  <2>. QED  BY <1>2, <2>2, <2>3, GmailTypes
<1>. QED  BY <1>2, <1>3, <1>4, <1>5, <1>6, <1>7, ApplierKeeps

LEMMA ApplierEnds == ASSUME GmailInv, NEW p \in Appliers, G!ApplyEnds(p) PROVE GmailInv'
<1>. DEFINE r == [G!NotApplying EXCEPT !.pc = "done"]
<1>1. /\ apply' = [apply EXCEPT ![p] = r] /\ cut' = TRUE
      /\ UNCHANGED <<stage, stageTmp, applied, trash, reader, stager, trashed, undone, appliesOverlapped>>
      /\ gmailFaults' = gmailFaults \/ (gmailFaults < GmailFaults /\ gmailFaults' = gmailFaults + 1)
  BY DEF G!ApplyEnds, G!files
<1>2. gmailFaults' \in 0..GmailFaults
  <2>1. GmailFaults \in Nat /\ gmailFaults \in 0..GmailFaults
    BY GmailAssumption, GmailTypes
  <2>. QED  BY <1>1, <2>1
<1>3. r \in ApplyRow /\ ApplyIs(r) /\ ~Applying(r)
  BY DEF G!NotApplying, ApplyRow, ApplyIs, Applying
<1>. HIDE DEF r
<1>4. trash \subseteq Msgs /\ applied \subseteq Msgs /\ stageTmp \in [there: BOOLEAN, lines: SUBSET Msgs]
      /\ appliesOverlapped \in BOOLEAN /\ cut' \in BOOLEAN /\ trashed \subseteq trashed'
      /\ trashed' \subseteq trashed \cup apply[p].todo
  BY <1>1, GmailTypes
<1>. QED  BY <1>1, <1>2, <1>3, <1>4, ApplierKeeps

\* The stage file is what the apply kept, and the lines staged meanwhile are lost.
LEMMA StageReplaced == ASSUME GmailInv, NEW p \in Appliers, G!ReplaceStage(p) PROVE GmailInv'
<1>. DEFINE r == [G!NotApplying EXCEPT !.pc = "done"]
<1>1. /\ apply[p].pc = "rename" /\ stageTmp.there /\ stage' = stageTmp.lines
      /\ stageTmp' = [there |-> FALSE, lines |-> {}]
      /\ stager' = [s \in Stagers |-> [stager[s] EXCEPT !.attached = FALSE]]
      /\ apply' = [apply EXCEPT ![p] = r]
      /\ UNCHANGED <<applied, trash, reader, gmailFaults, trashed, undone, appliesOverlapped, cut>>
  BY DEF G!ReplaceStage, G!NoTmp, G!history
<1>2. r \in ApplyRow /\ ApplyIs(r) /\ ~Applying(r) /\ r.todo = {}
  BY DEF G!NotApplying, ApplyRow, ApplyIs, Applying
<1>. HIDE DEF r
<1>3. apply[p] \in ApplyRow /\ ApplyIs(apply[p]) /\ Applying(apply[p]) /\ apply \in [Appliers -> ApplyRow]
  BY <1>1, GmailTypes DEF GmailInv, Applying
<1>4. apply' \in [Appliers -> ApplyRow] /\ apply'[p] = r /\ \A q \in Appliers : q # p => apply'[q] = apply[q]
  BY <1>1, <1>2, <1>3
<1>5. G!TypeOK'
  <2>1. stager' \in [Stagers -> [pc: {"off", "append", "done"}, add: SUBSET Msgs, attached: BOOLEAN]]
    <3>1. stager \in [Stagers -> [pc: {"off", "append", "done"}, add: SUBSET Msgs, attached: BOOLEAN]]
      BY DEF GmailInv, G!TypeOK
    <3>. QED  BY <1>1, <3>1
  <2>2. stage' \subseteq Msgs /\ stageTmp' \in [there: BOOLEAN, lines: SUBSET Msgs]
    BY <1>1, GmailTypes
  <2>3. reader' \in [runs: 0..ReaderRuns, running: BOOLEAN, begun: SUBSET Msgs, ok: BOOLEAN, covered: SUBSET Msgs]
    BY <1>1 DEF GmailInv, G!TypeOK
  <2>. QED  BY <1>1, <1>4, <2>1, <2>2, <2>3, GmailTypes DEF G!TypeOK, ApplyRow
<1>6. \A q \in Appliers : ApplyIs(apply'[q])
  BY <1>2, <1>4 DEF GmailInv
<1>7. ASSUME ~appliesOverlapped
      PROVE  /\ \A q \in Appliers : ~Applying(apply'[q])
             /\ stage' = apply[p].keep /\ apply[p].keep \subseteq stage
             /\ trashed \subseteq applied \cup apply[p].keep
             /\ ~cut => \A m \in trashed : m \notin apply[p].keep
  <2>1. Apart
    BY <1>7 DEF GmailInv
  <2>2. \A q \in Appliers : ~Applying(apply'[q])
    BY <1>2, <1>3, <1>4, <2>1 DEF Apart
  <2>3. apply[p].todo = {} /\ apply[p].done = {}
    BY <1>1, <1>3 DEF ApplyIs
  <2>4. stage' = apply[p].keep /\ apply[p].keep \subseteq stage /\ trashed \subseteq applied \cup apply[p].keep
    BY <1>1, <1>3, <2>1, <2>3 DEF Apart
  <2>5. ASSUME ~cut, NEW m \in trashed, m \in apply[p].keep PROVE FALSE
    <3>1. m \in stage /\ NotAgain
      BY <1>7, <2>4, <2>5 DEF GmailInv
    <3>. QED  BY <1>3, <2>1, <2>5, <3>1 DEF NotAgain, Apart
  <2>. QED  BY <2>2, <2>4, <2>5
<1>8. ~appliesOverlapped' => Apart'
  BY <1>1, <1>7 DEF Apart
<1>9. ASSUME ~appliesOverlapped', ~cut' PROVE NotAgain'
  <2>1. \A q \in Appliers : apply'[q].todo = {}
    BY <1>1, <1>6, <1>7, <1>9 DEF ApplyIs, Applying
  <2>. QED  BY <1>1, <1>7, <1>9, <2>1 DEF NotAgain
<1>10. G!TrashedIsOnRecord'
  BY <1>1, <1>7 DEF G!TrashedIsOnRecord
<1>11. undone' \subseteq trashed'
  BY <1>1 DEF GmailInv
<1>. QED  BY <1>5, <1>6, <1>8, <1>9, <1>10, <1>11 DEF GmailInv

LEMMA StagedAppended == ASSUME GmailInv, NEW s \in Stagers, NEW m \in Msgs, G!AppendStaged(s, m) PROVE GmailInv'
<1>1. /\ stage' = IF stager[s].attached THEN stage \cup {m} ELSE stage
      /\ trashed' = trashed \ {m} /\ undone' = undone \ {m}
      /\ stager' = [stager EXCEPT ![s] = [stager[s] EXCEPT !.add = stager[s].add \ {m},
                      !.pc = IF stager[s].add = {m} THEN "done" ELSE stager[s].pc]]
      /\ UNCHANGED <<stageTmp, applied, trash, reader, apply, gmailFaults, appliesOverlapped, cut>>
  <2>1. stager \in [Stagers -> [pc: {"off", "append", "done"}, add: SUBSET Msgs, attached: BOOLEAN]]
    BY DEF GmailInv, G!TypeOK
  <2>. QED  BY <2>1 DEF G!AppendStaged
<1>2. G!TypeOK'
  <2>1. stager \in [Stagers -> [pc: {"off", "append", "done"}, add: SUBSET Msgs, attached: BOOLEAN]]
    BY DEF GmailInv, G!TypeOK
  <2>2. stager' \in [Stagers -> [pc: {"off", "append", "done"}, add: SUBSET Msgs, attached: BOOLEAN]]
    <3>. DEFINE row == [stager[s] EXCEPT !.add = stager[s].add \ {m},
                          !.pc = IF stager[s].add = {m} THEN "done" ELSE stager[s].pc]
    <3>1. row \in [pc: {"off", "append", "done"}, add: SUBSET Msgs, attached: BOOLEAN]
      BY <2>1
    <3>. HIDE DEF row
    <3>2. stager' = [stager EXCEPT ![s] = row]
      BY <1>1 DEF row
    <3>. QED  BY <2>1, <3>1, <3>2
  <2>3. stage' \subseteq Msgs /\ trashed' \subseteq Msgs /\ undone' \subseteq Msgs
    BY <1>1, GmailTypes
  <2>4. reader' \in [runs: 0..ReaderRuns, running: BOOLEAN, begun: SUBSET Msgs, ok: BOOLEAN, covered: SUBSET Msgs]
    BY <1>1 DEF GmailInv, G!TypeOK
  <2>. QED  BY <1>1, <2>2, <2>3, <2>4, GmailTypes DEF G!TypeOK, ApplyRow
<1>3. stage \subseteq stage' /\ stage' \subseteq stage \cup {m}
  BY <1>1
<1>4. ~appliesOverlapped' => Apart'
  BY <1>1, <1>3 DEF GmailInv, Apart
<1>5. ~appliesOverlapped' /\ ~cut' => NotAgain'
  BY <1>1, <1>3 DEF GmailInv, NotAgain
<1>6. G!TrashedIsOnRecord'
  BY <1>1, <1>3 DEF GmailInv, G!TrashedIsOnRecord
<1>7. (\A p \in Appliers : ApplyIs(apply'[p])) /\ undone' \subseteq trashed'
  BY <1>1 DEF GmailInv
<1>. QED  BY <1>2, <1>4, <1>5, <1>6, <1>7 DEF GmailInv

LEMMA OthersKeepStage ==
    ASSUME GmailInv,
           \/ G!ReaderStarts \/ (\E ok \in BOOLEAN : G!ReaderEnds(ok))
           \/ (\E s \in Stagers : G!ReadForStage(s))
           \/ (\E m \in Msgs : G!Untrash(m))
           \/ UNCHANGED G!vars
    PROVE  GmailInv'
<1>1. /\ UNCHANGED <<stage, stageTmp, applied, apply, gmailFaults, trashed, appliesOverlapped, cut>>
      /\ undone' \subseteq trashed /\ trash' \subseteq Msgs
  <2>1. CASE \E m \in Msgs : G!Untrash(m)
    BY <2>1, GmailTypes DEF GmailInv, G!Untrash, G!files
  <2>2. CASE ~\E m \in Msgs : G!Untrash(m)
    <3>1. UNCHANGED <<stage, stageTmp, applied, trash, apply, gmailFaults, trashed, undone, appliesOverlapped, cut>>
      BY <2>2 DEF G!ReaderStarts, G!ReaderEnds, G!ReadForStage, G!vars, G!files, G!history
    <3>. QED  BY <3>1, GmailTypes DEF GmailInv
  <2>. QED  BY <2>1, <2>2
<1>2. /\ reader \in [runs: 0..ReaderRuns, running: BOOLEAN, begun: SUBSET Msgs, ok: BOOLEAN, covered: SUBSET Msgs]
      /\ stager \in [Stagers -> [pc: {"off", "append", "done"}, add: SUBSET Msgs, attached: BOOLEAN]]
  BY DEF GmailInv, G!TypeOK
<1>3. reader' \in [runs: 0..ReaderRuns, running: BOOLEAN, begun: SUBSET Msgs, ok: BOOLEAN, covered: SUBSET Msgs]
  <2>1. CASE G!ReaderStarts
    <3>1. ReaderRuns \in Nat
      BY GmailAssumption
    <3>2. reader.runs + 1 \in 0..ReaderRuns
      BY <1>2, <2>1, <3>1 DEF G!ReaderStarts
    <3>. QED  BY <1>2, <2>1, <3>2 DEF G!ReaderStarts
  <2>2. ASSUME NEW ok \in BOOLEAN, G!ReaderEnds(ok)
        PROVE  reader' \in [runs: 0..ReaderRuns, running: BOOLEAN, begun: SUBSET Msgs, ok: BOOLEAN, covered: SUBSET Msgs]
    <3>. DEFINE covers == IF ok THEN reader.begun ELSE reader.covered
                fine == reader.ok \/ ok
    <3>1. covers \in SUBSET Msgs /\ fine \in BOOLEAN
      BY <1>2
    <3>2. reader' = [reader EXCEPT !.running = FALSE, !.begun = {}, !.ok = fine, !.covered = covers]
      BY <1>2, <2>2 DEF G!ReaderEnds
    <3>. HIDE DEF covers, fine
    <3>3. reader' = [runs |-> reader.runs, running |-> FALSE, begun |-> {}, ok |-> fine, covered |-> covers]
          /\ reader.runs \in 0..ReaderRuns
      BY <1>2, <3>2
    <3>. QED  BY <3>1, <3>3
  <2>3. ASSUME NEW s \in Stagers, G!ReadForStage(s)
        PROVE  reader' \in [runs: 0..ReaderRuns, running: BOOLEAN, begun: SUBSET Msgs, ok: BOOLEAN, covered: SUBSET Msgs]
    <3>. DEFINE new == Batch[s] \ stage
    <3>1. reader' = [reader EXCEPT !.begun = reader.begun \ new, !.covered = reader.covered \ new]
      BY <1>2, <2>3 DEF G!ReadForStage
    <3>. HIDE DEF new
    <3>2. /\ reader' = [runs |-> reader.runs, running |-> reader.running, begun |-> reader.begun \ new,
                        ok |-> reader.ok, covered |-> reader.covered \ new]
          /\ reader.runs \in 0..ReaderRuns /\ reader.begun \subseteq Msgs /\ reader.covered \subseteq Msgs
      BY <1>2, <3>1
    <3>3. reader.running \in BOOLEAN /\ reader.ok \in BOOLEAN
      BY <1>2
    <3>4. reader.begun \ new \in SUBSET Msgs /\ reader.covered \ new \in SUBSET Msgs
      BY <3>2
    <3>. QED  BY <3>2, <3>3, <3>4
  <2>4. CASE (\E m \in Msgs : G!Untrash(m)) \/ UNCHANGED G!vars
    BY <1>2, <2>4 DEF G!Untrash, G!vars
  <2>. QED  BY <2>1, <2>2, <2>3, <2>4
<1>4. stager' \in [Stagers -> [pc: {"off", "append", "done"}, add: SUBSET Msgs, attached: BOOLEAN]]
  <2>1. ASSUME NEW s \in Stagers, G!ReadForStage(s)
        PROVE  stager' \in [Stagers -> [pc: {"off", "append", "done"}, add: SUBSET Msgs, attached: BOOLEAN]]
    <3>. DEFINE row == IF Batch[s] \subseteq stage THEN [stager[s] EXCEPT !.pc = "done"]
                       ELSE [pc |-> "append", add |-> Batch[s] \ stage, attached |-> TRUE]
    <3>1. Batch[s] \subseteq Msgs
      BY GmailAssumption
    <3>2. row \in [pc: {"off", "append", "done"}, add: SUBSET Msgs, attached: BOOLEAN]
      <4>1. [stager[s] EXCEPT !.pc = "done"] \in [pc: {"off", "append", "done"}, add: SUBSET Msgs, attached: BOOLEAN]
        BY <1>2
      <4>2. [pc |-> "append", add |-> Batch[s] \ stage, attached |-> TRUE]
               \in [pc: {"off", "append", "done"}, add: SUBSET Msgs, attached: BOOLEAN]
        BY <3>1
      <4>. QED  BY <4>1, <4>2
    <3>3. stager' = [stager EXCEPT ![s] = row]
      BY <1>2, <2>1 DEF G!ReadForStage
    <3>. HIDE DEF row
    <3>. QED  BY <1>2, <3>2, <3>3
  <2>2. CASE ~\E s \in Stagers : G!ReadForStage(s)
    BY <1>2, <2>2 DEF G!ReaderStarts, G!ReaderEnds, G!Untrash, G!vars
  <2>. QED  BY <2>1, <2>2
<1>5. G!TypeOK'
  BY <1>1, <1>3, <1>4, GmailTypes DEF G!TypeOK, ApplyRow
<1>6. ~appliesOverlapped' => Apart'
  BY <1>1 DEF GmailInv, Apart
<1>7. ~appliesOverlapped' /\ ~cut' => NotAgain'
  BY <1>1 DEF GmailInv, NotAgain
<1>8. G!TrashedIsOnRecord'
  BY <1>1 DEF GmailInv, G!TrashedIsOnRecord
<1>9. (\A p \in Appliers : ApplyIs(apply'[p])) /\ undone' \subseteq trashed'
  BY <1>1 DEF GmailInv
<1>. QED  BY <1>5, <1>6, <1>7, <1>8, <1>9 DEF GmailInv

LEMMA GmailKeeps == ASSUME GmailInv, [G!Next]_(G!vars) PROVE GmailInv'
<1>1. ASSUME NEW p \in Appliers, G!Apply(p) PROVE GmailInv'
  <2>1. CASE \/ G!GatePasses(p) \/ G!GateRefuses(p) \/ G!RequestsDone(p)
             \/ \E m \in Msgs : G!AccountFails(p, Account[m])
    BY <2>1, ApplierBooks
  <2>2. CASE \/ \E m \in Msgs : G!ReadStage(p, {Account[m]})
             \/ G!ReadStage(p, {Account[m] : m \in Msgs})
    BY <2>2, ApplierReads
  <2>3. CASE \/ \E batch \in SUBSET Msgs : G!BatchTrashed(p, batch)
             \/ \E batch \in SUBSET Msgs, carriedOut \in BOOLEAN : G!BatchFails(p, batch, carriedOut)
    BY <2>3, ApplierTrashes
  <2>4. CASE (\E m \in Msgs : G!LogApplied(p, m)) \/ G!WriteTmp(p)
    BY <2>4, ApplierLogs
  <2>5. CASE G!ReplaceStage(p) \/ G!ApplyEnds(p)
    BY <2>5, StageReplaced, ApplierEnds
  <2>. QED  BY <1>1, <2>1, <2>2, <2>3, <2>4, <2>5 DEF G!Apply
<1>2. ASSUME NEW s \in Stagers, G!Stage(s) PROVE GmailInv'
  BY <1>2, StagedAppended, OthersKeepStage DEF G!Stage
<1>. QED  BY <1>1, <1>2, OthersKeepStage DEF G!Next

\* What the user took out is not on a list to trash.
LEMMA NotTrashedAgain ==
    ASSUME GmailInv, [G!Next]_(G!vars), NEW m \in undone, m \in trash' \ trash
    PROVE  appliesOverlapped \/ cut
<1>. SUFFICES ASSUME ~appliesOverlapped, ~cut PROVE FALSE
  OBVIOUS
<1>1. ~UNCHANGED trash
  OBVIOUS
<1>2. PICK p \in Appliers : m \in apply[p].todo
  <2>1. ASSUME NEW s \in Stagers, G!Stage(s) PROVE FALSE
    BY <1>1, <2>1 DEF G!Stage, G!ReadForStage, G!AppendStaged
  <2>2. ASSUME NEW n \in Msgs, G!Untrash(n) PROVE FALSE
    BY <2>2 DEF G!Untrash
  <2>3. PICK p \in Appliers : G!Apply(p)
    BY <1>1, <2>1, <2>2 DEF G!Next, G!vars, G!ReaderStarts, G!ReaderEnds
  <2>4. CASE \E batch \in SUBSET Msgs : G!BatchTrashed(p, batch)
    BY <2>4 DEF G!BatchTrashed, G!IsBatch
  <2>5. CASE \E batch \in SUBSET Msgs, carriedOut \in BOOLEAN : G!BatchFails(p, batch, carriedOut)
    BY <2>5 DEF G!BatchFails, G!IsBatch
  <2>. QED  BY <1>1, <2>3, <2>4, <2>5 DEF G!Apply, G!GatePasses, G!GateRefuses, G!ReadStage, G!AccountFails,
            G!RequestsDone, G!LogApplied, G!WriteTmp, G!ReplaceStage, G!ApplyEnds
<1>3. m \in trashed /\ NotAgain
  BY DEF GmailInv
<1>. QED  BY <1>2, <1>3 DEF NotAgain

LEMMA GmailMove == ASSUME [FilesNext]_filesVars PROVE [G!Next]_(G!vars)
BY DEF FilesNext, filesVars, gmailVars, G!vars

LEMMA GmailHold == FilesSpec => []GmailInv
<1>1. FilesInit => GmailInv
  BY GmailStarts DEF FilesInit
<1>2. GmailInv /\ [FilesNext]_filesVars => GmailInv'
  BY GmailMove, GmailKeeps
<1>. QED  BY <1>1, <1>2, PTL DEF FilesSpec

LEMMA UndoneHolds == FilesSpec => G!UndoneStaysUndone
<1>1. ASSUME GmailInv, [FilesNext]_filesVars
      PROVE  [\A m \in undone : m \in trash' \ trash => appliesOverlapped \/ cut]_(G!vars)
  BY <1>1, GmailMove, NotTrashedAgain
<1>. QED  BY <1>1, GmailHold, PTL DEF FilesSpec, G!UndoneStaysUndone

-----------------------------------------------------------------------------
(* The reminders.                                                            *)

TickRow ==
    [pc : {"idle", "done", "load", "notify", "save"}, at : 0..RemindTime, due : SUBSET StampedLines,
     copy : [Reminders -> R!Times], notified : SUBSET Reminders]
ResetRow == [pc : {"off", "save", "done"}, copy : [Reminders -> R!Times]]

Holds(t) == tick[t].pc \in {"notify", "save"}
Resetting(x) == reset[x].pc = "save"

\* One command at a time is between load and save.
OneHolder ==
    /\ \A t, u \in Ticks : Holds(t) /\ Holds(u) => t = u
    /\ \A t \in Ticks, x \in Resets : ~(Holds(t) /\ Resetting(x))
    /\ \A x, y \in Resets : Resetting(x) /\ Resetting(y) => x = y

\* What it holds is the file as it is, but for what it has notified itself.
Copies ==
    /\ \A t \in Ticks : Holds(t) =>
         /\ \A r \in Reminders :
              tick[t].copy[r] = IF r \in tick[t].notified THEN last[r] ELSE sent[r]
         /\ \A l \in tick[t].due : sent[KeyOf[l]] = R!Never
    /\ \A x \in Resets : Resetting(x) => reset[x].copy = sent

\* A delivery is in the file, too old, or in the hands of the one who is to save it.
Delivered ==
    \A r \in Reminders : last[r] # R!Never /\ r \notin excused =>
        \/ sent[r] = last[r]
        \/ now > last[r] + Retention
        \/ \E t \in Ticks : Holds(t) /\ r \in tick[t].notified

RemindInv ==
    /\ R!TypeOK
    /\ \A t \in Ticks : tick[t].at <= now /\ (tick[t].pc = "load" => tick[t].notified = {})
    /\ ~remindOverlapped => OneHolder /\ Copies /\ Delivered

LEMMA RemindStarts == ASSUME R!Init PROVE RemindInv
<1>1. RemindTime \in Nat /\ RemindFaults \in Nat /\ R!Never \in Nat /\ 0 \in 0..RemindTime
      /\ R!Never \in R!Times
  <2>1. RemindTime \in Nat /\ RemindFaults \in Nat
    BY RemindAssumption
  <2>. QED  BY <2>1 DEF R!Never, R!Times
<1>2. now = 0 /\ remindFaults = 0
  BY DEF R!Init
<1>3. now \in 0..RemindTime /\ remindFaults \in 0..RemindFaults
  BY <1>1, <1>2
<1>4. R!Nothing \in [Reminders -> R!Times]
  BY <1>1 DEF R!Nothing
<1>5. tick \in [Ticks -> TickRow] /\ \A t \in Ticks : tick[t] = R!AtRest
  <2>1. R!AtRest \in TickRow
    BY <1>1, <1>4 DEF R!AtRest, TickRow
  <2>. QED  BY <2>1 DEF R!Init
<1>6. reset \in [Resets -> ResetRow] /\ \A x \in Resets : reset[x].pc = "off"
  BY <1>4 DEF R!Init, R!NotResetting, ResetRow
<1>7. line \in [StampedLines -> {"none", "open", "ticked"}] /\ sent = R!Nothing /\ last = R!Nothing
      /\ excused = {} /\ remindOverlapped = FALSE
  BY DEF R!Init
<1>8. R!TypeOK
  BY <1>3, <1>4, <1>5, <1>6, <1>7 DEF R!TypeOK, TickRow, ResetRow
<1>9. \A t \in Ticks : tick[t].at = 0 /\ tick[t].pc = "idle"
  BY <1>5 DEF R!AtRest
<1>10. \A t \in Ticks : tick[t].at <= now
  BY <1>2, <1>9
<1>11. OneHolder /\ Copies
  BY <1>6, <1>9 DEF OneHolder, Copies, Holds, Resetting
<1>12. Delivered
  BY <1>7 DEF Delivered, R!Nothing
<1>. QED  BY <1>8, <1>9, <1>10, <1>11, <1>12 DEF RemindInv

LEMMA RemindTypes == ASSUME RemindInv
    PROVE  /\ now \in 0..RemindTime /\ RemindTime \in Nat /\ Retention \in Nat
           /\ sent \in [Reminders -> R!Times] /\ last \in [Reminders -> R!Times]
           /\ tick \in [Ticks -> TickRow] /\ reset \in [Resets -> ResetRow]
           /\ excused \subseteq Reminders /\ remindOverlapped \in BOOLEAN
           /\ R!Never = RemindTime + 1 /\ R!Times = 0..R!Never
           /\ line \in [StampedLines -> {"none", "open", "ticked"}] /\ remindFaults \in 0..RemindFaults
<1>1. RemindTime \in Nat /\ Retention \in Nat
  BY RemindAssumption
<1>. QED  BY <1>1 DEF RemindInv, R!TypeOK, TickRow, ResetRow, R!Never, R!Times

\* What a step of one tick leaves to show.
LEMMA TickKeeps ==
    ASSUME RemindInv, NEW t \in Ticks, tick'[t] \in TickRow, tick' = [tick EXCEPT ![t] = tick'[t]],
           tick'[t].at <= now, tick'[t].pc = "load" => tick'[t].notified = {},
           UNCHANGED <<now, line, reset>>,
           sent' \in [Reminders -> R!Times], last' \in [Reminders -> R!Times],
           remindFaults' \in 0..RemindFaults, excused' \subseteq Reminders,
           remindOverlapped' \in BOOLEAN,
           ~remindOverlapped' => OneHolder' /\ Copies' /\ Delivered'
    PROVE  RemindInv'
<1>1. tick' \in [Ticks -> TickRow] /\ \A u \in Ticks : u # t => tick'[u] = tick[u]
  BY RemindTypes
<1>2. R!TypeOK'
  <2>1. R!TypeOK
    BY DEF RemindInv
  <2>. QED  BY <1>1, <2>1 DEF R!TypeOK, TickRow, R!Times, R!Never
<1>3. \A u \in Ticks : tick'[u].at <= now' /\ (tick'[u].pc = "load" => tick'[u].notified = {})
  BY <1>1 DEF RemindInv
<1>. QED  BY <1>2, <1>3 DEF RemindInv

\* A step after which the tick holds nothing, and in which the files stay.
LEMMA LetsGo ==
    ASSUME RemindInv, NEW t \in Ticks, tick'[t] \in TickRow, tick' = [tick EXCEPT ![t] = tick'[t]],
           tick'[t].pc \notin {"notify", "save"}, UNCHANGED <<now, reset, sent, last>>,
           ~remindOverlapped,
           excused \subseteq excused', Holds(t) => tick[t].notified \subseteq excused'
    PROVE  OneHolder' /\ Copies' /\ Delivered'
<1>1. \A u \in Ticks : u # t => tick'[u] = tick[u]
  BY RemindTypes
<1>2. \A u \in Ticks : (Holds(u)' => u # t /\ Holds(u)) /\ (Holds(u) /\ u # t => Holds(u)')
  BY <1>1 DEF Holds
<1>3. \A x : Resetting(x)' <=> Resetting(x)
  BY DEF Resetting
<1>4. OneHolder /\ Copies /\ Delivered
  BY DEF RemindInv
<1>5. OneHolder'
  BY <1>2, <1>3, <1>4 DEF OneHolder
<1>6. Copies'
  <2>1. R!Never' = R!Never
    BY DEF R!Never
  <2>2. ASSUME NEW u \in Ticks, Holds(u)'
        PROVE  /\ \A r \in Reminders :
                    tick'[u].copy[r] = IF r \in tick'[u].notified THEN last[r] ELSE sent[r]
               /\ \A l \in tick'[u].due : sent[KeyOf[l]] = R!Never
    <3>1. Holds(u) /\ tick'[u] = tick[u]
      BY <1>1, <1>2, <2>2
    <3>. QED  BY <1>4, <3>1 DEF Copies
  <2>3. \A x \in Resets : Resetting(x)' => reset'[x].copy = sent'
    BY <1>3, <1>4 DEF Copies
  <2>. QED  BY <2>1, <2>2, <2>3 DEF Copies
<1>7. Delivered'
  <2>. SUFFICES ASSUME NEW r \in Reminders, last[r] # R!Never, r \notin excused'
       PROVE  sent[r] = last[r] \/ now > last[r] + Retention
              \/ \E u \in Ticks : Holds(u)' /\ r \in tick'[u].notified
    BY DEF Delivered, R!Never
  <2>1. r \notin excused
    OBVIOUS
  <2>2. sent[r] = last[r] \/ now > last[r] + Retention \/ \E u \in Ticks : Holds(u) /\ r \in tick[u].notified
    BY <1>4, <2>1 DEF Delivered
  <2>3. ASSUME NEW u \in Ticks, Holds(u), r \in tick[u].notified
        PROVE  Holds(u)' /\ r \in tick'[u].notified
    <3>1. u # t
      BY <2>3
    <3>. QED  BY <1>1, <1>2, <2>3, <3>1
  <2>. QED  BY <2>2, <2>3
<1>. QED  BY <1>5, <1>6, <1>7

LEMMA OverIs == ASSUME RemindInv, NEW t
    PROVE  R!Over(t) \in TickRow /\ R!Over(t).pc \in {"idle", "done"} /\ R!Over(t).at = 0
           /\ R!AtRest \in TickRow /\ R!AtRest.notified = {}
<1>1. R!Nothing \in [Reminders -> R!Times] /\ 0 \in 0..RemindTime
  <2>1. R!Never \in R!Times /\ 0 \in 0..RemindTime
    BY RemindTypes
  <2>. QED  BY <2>1 DEF R!Nothing
<1>. QED  BY <1>1 DEF R!Over, R!AtRest, TickRow

LEMMA ScanReminders ==
    ASSUME RemindInv, NEW t \in Ticks, NEW missed \in SUBSET StampedLines, R!Scan(t, missed)
    PROVE  RemindInv'
<1>. DEFINE due == {l \in StampedLines \ missed : line[l] = "open" /\ DueAt[KeyOf[l]] <= now}
            row == [R!AtRest EXCEPT !.pc = "load", !.at = now, !.due = due]
<1>1. /\ tick[t].pc = "idle" /\ tick' = [tick EXCEPT ![t] = row]
      /\ UNCHANGED <<now, line, sent, reset, last, excused, remindOverlapped>>
  BY DEF R!Scan, R!history
<1>1a. remindFaults' \in 0..RemindFaults
  <2>1. remindFaults \in 0..RemindFaults /\ RemindFaults \in Nat
    BY RemindAssumption, RemindTypes
  <2>2. (remindFaults' = remindFaults) \/ (remindFaults < RemindFaults /\ remindFaults' = remindFaults + 1)
    BY DEF R!Scan
  <2>. QED  BY <2>1, <2>2
<1>2. row \in TickRow /\ row.pc = "load" /\ row.at = now /\ row.notified = {}
  BY OverIs, RemindTypes DEF TickRow
<1>. HIDE DEF row
<1>3. tick'[t] = row /\ tick' = [tick EXCEPT ![t] = tick'[t]]
  BY <1>1, RemindTypes
<1>4. now <= now
  BY RemindTypes
<1>5. ~remindOverlapped => OneHolder' /\ Copies' /\ Delivered'
  BY <1>1, <1>2, <1>3, LetsGo DEF Holds
<1>. QED  BY <1>1, <1>1a, <1>2, <1>3, <1>4, <1>5, RemindTypes, TickKeeps

LEMMA TickLoads == ASSUME RemindInv, NEW t \in Ticks, R!LoadState(t) PROVE RemindInv'
<1>. DEFINE pending == {l \in tick[t].due : sent[KeyOf[l]] = R!Never}
            row == [tick[t] EXCEPT !.pc = "notify", !.due = pending, !.copy = sent]
<1>1. /\ tick[t].pc = "load"
      /\ tick' = [tick EXCEPT ![t] = IF pending = {} THEN R!Over(t) ELSE row]
      /\ remindOverlapped' = (remindOverlapped \/ (pending # {} /\ R!Holding # {}))
      /\ UNCHANGED <<now, line, sent, reset, remindFaults, last, excused>>
  BY DEF R!LoadState
<1>2. tick[t] \in TickRow /\ tick[t].at <= now /\ tick[t].notified = {} /\ now \in Nat
      /\ remindOverlapped' \in BOOLEAN
  BY <1>1, RemindTypes DEF RemindInv
<1>3. CASE pending = {}
  <2>1. tick'[t] = R!Over(t) /\ tick' = [tick EXCEPT ![t] = tick'[t]]
    BY <1>1, <1>3, RemindTypes
  <2>2. ~remindOverlapped' => OneHolder' /\ Copies' /\ Delivered'
    BY <1>1, <2>1, OverIs, LetsGo DEF Holds
  <2>3. 0 <= now
    BY RemindTypes
  <2>4. tick'[t].at <= now /\ tick'[t].pc # "load" /\ tick'[t] \in TickRow
    BY <2>1, <2>3, OverIs
  <2>. HIDE DEF row, pending
  <2>. QED  BY <1>1, <1>2, <2>1, <2>2, <2>4, RemindTypes, TickKeeps
<1>4. CASE pending # {}
  <2>1. row \in TickRow /\ row.pc = "notify" /\ row.at = tick[t].at /\ row.notified = {}
        /\ row.copy = sent /\ row.due = pending
    BY <1>2, RemindTypes DEF TickRow
  <2>2. tick' = [tick EXCEPT ![t] = row]
    BY <1>1, <1>4
  <2>. HIDE DEF row
  <2>3. tick'[t] = row /\ tick' = [tick EXCEPT ![t] = tick'[t]] /\ \A u \in Ticks : u # t => tick'[u] = tick[u]
    BY <2>2, RemindTypes
  <2>4. ASSUME ~remindOverlapped' PROVE OneHolder' /\ Copies' /\ Delivered'
    <3>1. ~remindOverlapped /\ R!Holding = {}
      BY <1>1, <1>4, <2>4
    <3>2. \A u \in Ticks : ~Holds(u)
      BY <3>1 DEF R!Holding, Holds
    <3>3. \A x \in Resets : ~Resetting(x)
      BY <3>1 DEF R!Holding, Resetting
    <3>4. \A u \in Ticks : Holds(u)' => u = t
      BY <2>3, <3>2 DEF Holds
    <3>5. \A x \in Resets : ~Resetting(x)'
      BY <1>1, <3>3 DEF Resetting
    <3>6. OneHolder'
      BY <3>4, <3>5 DEF OneHolder
    <3>7. Copies'
      <4>1. /\ \A r \in Reminders : row.copy[r] = IF r \in row.notified THEN last[r] ELSE sent[r]
            /\ \A l \in row.due : sent[KeyOf[l]] = R!Never
        BY <2>1
      <4>2. R!Never' = R!Never
        BY DEF R!Never
      <4>. QED  BY <1>1, <2>3, <3>4, <3>5, <4>1, <4>2 DEF Copies
    <3>8. Delivered'
      <4>1. Delivered
        BY <3>1 DEF RemindInv
      <4>. QED  BY <1>1, <3>2, <4>1 DEF Delivered, R!Never
    <3>. QED  BY <3>6, <3>7, <3>8
  <2>. QED  BY <1>1, <1>2, <2>1, <2>3, <2>4, RemindTypes, TickKeeps
<1>. QED  BY <1>3, <1>4

\* Of one that is told, the time is noted; what is not told is not marked either.
LEMMA TickTells ==
    ASSUME RemindInv, NEW t \in Ticks, NEW l \in StampedLines,
           R!Notify(t, l) \/ R!NotifyFails(t, l)
    PROVE  RemindInv'
<1>0. PICK r \in Reminders : r = KeyOf[l]
  BY RemindAssumption
<1>. DEFINE told == R!Notify(t, l)
            tick1 == [tick[t] EXCEPT !.due = tick[t].due \ {l},
                        !.copy = IF told THEN [tick[t].copy EXCEPT ![r] = tick[t].at] ELSE tick[t].copy,
                        !.notified = IF told THEN tick[t].notified \cup {r} ELSE tick[t].notified,
                        !.pc = IF tick[t].due = {l} THEN "save" ELSE "notify"]
<1>1. /\ tick[t].pc = "notify" /\ l \in tick[t].due
      /\ tick' = [tick EXCEPT ![t] = tick1]
      /\ IF told THEN last' = [last EXCEPT ![r] = tick[t].at] /\ excused' = excused \ {r}
                      /\ UNCHANGED remindFaults
         ELSE UNCHANGED <<last, excused>> /\ remindFaults < RemindFaults /\ remindFaults' = remindFaults + 1
      /\ UNCHANGED <<now, line, sent, reset, remindOverlapped>>
  <2>1. CASE told
    BY <1>0, <2>1 DEF R!Notify, R!Notified, R!Marked
  <2>2. CASE ~told
    BY <1>0, <2>2 DEF R!NotifyFails, R!Notified, R!history
  <2>. QED  BY <2>1, <2>2
<1>. HIDE DEF told
<1>2. tick[t] \in TickRow /\ tick[t].at <= now /\ now \in Nat /\ tick[t].at \in 0..RemindTime
      /\ tick[t].at \in R!Times
  <2>1. tick[t] \in TickRow /\ tick[t].at <= now
    BY RemindTypes DEF RemindInv
  <2>2. tick[t].at \in 0..RemindTime
    BY <2>1 DEF TickRow
  <2>. QED  BY <2>1, <2>2, RemindTypes
<1>3. tick1 \in TickRow /\ tick1.pc \in {"notify", "save"} /\ tick1.at = tick[t].at
      /\ tick1.due = tick[t].due \ {l}
      /\ tick1.notified = (IF told THEN tick[t].notified \cup {r} ELSE tick[t].notified)
      /\ \A q \in Reminders : tick1.copy[q] = IF told /\ q = r THEN tick[t].at ELSE tick[t].copy[q]
  <2>. DEFINE copy == IF told THEN [tick[t].copy EXCEPT ![r] = tick[t].at] ELSE tick[t].copy
              notified == IF told THEN tick[t].notified \cup {r} ELSE tick[t].notified
              pc == IF tick[t].due = {l} THEN "save" ELSE "notify"
  <2>1. tick[t].copy \in [Reminders -> R!Times] /\ tick[t].notified \subseteq Reminders
    BY <1>2 DEF TickRow
  <2>2. copy \in [Reminders -> R!Times]
        /\ \A q \in Reminders : copy[q] = IF told /\ q = r THEN tick[t].at ELSE tick[t].copy[q]
    BY <1>2, <2>1
  <2>3. notified \in SUBSET Reminders /\ pc \in {"notify", "save"}
    BY <2>1
  <2>4. tick1 = [tick[t] EXCEPT !.due = tick[t].due \ {l}, !.copy = copy, !.notified = notified, !.pc = pc]
    OBVIOUS
  <2>5. notified = (IF told THEN tick[t].notified \cup {r} ELSE tick[t].notified)
    OBVIOUS
  <2>. HIDE DEF tick1, copy, notified, pc
  <2>6. tick1 \in TickRow /\ tick1.pc = pc /\ tick1.at = tick[t].at /\ tick1.due = tick[t].due \ {l}
        /\ tick1.notified = notified /\ tick1.copy = copy
    BY <1>2, <2>2, <2>3, <2>4 DEF TickRow
  <2>. QED  BY <2>2, <2>3, <2>5, <2>6
<1>. HIDE DEF tick1
<1>4. tick'[t] = tick1 /\ tick' = [tick EXCEPT ![t] = tick'[t]] /\ \A u \in Ticks : u # t => tick'[u] = tick[u]
  BY <1>1, RemindTypes
<1>5. last' \in [Reminders -> R!Times] /\ excused' \subseteq Reminders
      /\ \A q \in Reminders : last'[q] = IF told /\ q = r THEN tick[t].at ELSE last[q]
  <2>1. last \in [Reminders -> R!Times] /\ excused \subseteq Reminders
    BY RemindTypes
  <2>. QED  BY <1>1, <1>2, <2>1
<1>6. remindFaults' \in 0..RemindFaults
  <2>1. remindFaults \in 0..RemindFaults /\ RemindFaults \in Nat
    BY RemindAssumption, RemindTypes
  <2>2. (remindFaults' = remindFaults) \/ (remindFaults < RemindFaults /\ remindFaults' = remindFaults + 1)
    BY <1>1
  <2>. QED  BY <2>1, <2>2
<1>7. ASSUME ~remindOverlapped' PROVE OneHolder' /\ Copies' /\ Delivered'
  <2>1. OneHolder /\ Copies /\ Delivered
    BY <1>1, <1>7 DEF RemindInv
  <2>2. \A u \in Ticks : Holds(u)' <=> Holds(u)
    BY <1>1, <1>3, <1>4 DEF Holds
  <2>3. \A x : Resetting(x)' <=> Resetting(x)
    BY <1>1 DEF Resetting
  <2>4. Holds(t)
    BY <1>1 DEF Holds
  <2>5. OneHolder'
    BY <2>1, <2>2, <2>3 DEF OneHolder
  <2>6. Copies'
    <3>1. \A u \in Ticks : Holds(u) => u = t
      BY <2>1, <2>4 DEF OneHolder
    <3>2. \A x \in Resets : ~Resetting(x)
      BY <2>1, <2>4 DEF OneHolder
    <3>3. ASSUME NEW q \in Reminders
          PROVE  tick1.copy[q] = IF q \in tick1.notified THEN last'[q] ELSE sent[q]
      <4>1. tick[t].copy[q] = IF q \in tick[t].notified THEN last[q] ELSE sent[q]
        BY <2>1, <2>4 DEF Copies
      <4>. QED  BY <1>3, <1>5, <4>1
    <3>4. \A k \in tick1.due : sent[KeyOf[k]] = R!Never
      BY <1>3, <2>1, <2>4 DEF Copies
    <3>5. R!Never' = R!Never
      BY DEF R!Never
    <3>. QED  BY <1>1, <1>4, <2>2, <2>3, <3>1, <3>2, <3>3, <3>4, <3>5 DEF Copies
  <2>7. Delivered'
    <3>. SUFFICES ASSUME NEW q \in Reminders, last'[q] # R!Never, q \notin excused'
         PROVE  sent[q] = last'[q] \/ now > last'[q] + Retention
                \/ \E u \in Ticks : Holds(u)' /\ q \in tick'[u].notified
      BY <1>1 DEF Delivered, R!Never
    <3>1. CASE told /\ q = r
      BY <1>3, <1>4, <2>2, <2>4, <3>1
    <3>2. CASE ~(told /\ q = r)
      <4>1. last'[q] = last[q] /\ q \notin excused
        BY <1>1, <1>5, <3>2
      <4>2. sent[q] = last[q] \/ now > last[q] + Retention
            \/ \E u \in Ticks : Holds(u) /\ q \in tick[u].notified
        BY <2>1, <4>1 DEF Delivered
      <4>3. \A u \in Ticks : q \in tick[u].notified => q \in tick'[u].notified
        BY <1>3, <1>4
      <4>. QED  BY <2>2, <4>1, <4>2, <4>3
    <3>. QED  BY <3>1, <3>2
  <2>. QED  BY <2>5, <2>6, <2>7
<1>8. tick'[t].at <= now /\ tick'[t].pc # "load"
  BY <1>2, <1>3, <1>4
<1>. QED  BY <1>1, <1>3, <1>4, <1>5, <1>6, <1>7, <1>8, RemindTypes, TickKeeps

\* What Save prunes is too old by the time of the scan, and so by now.
LEMMA PrunedIs ==
    ASSUME RemindInv, NEW copy \in [Reminders -> R!Times], NEW at \in 0..RemindTime, at <= now
    PROVE  /\ R!Pruned(copy, at) \in [Reminders -> R!Times]
           /\ \A r \in Reminders : \/ R!Pruned(copy, at)[r] = copy[r]
                                   \/ now > copy[r] + Retention
<1>1. R!Never \in R!Times
  BY RemindTypes
<1>2. ASSUME NEW r \in Reminders, at > copy[r] + Retention PROVE now > copy[r] + Retention
  <2>1. copy[r] \in Nat /\ now \in Nat /\ at \in Nat /\ Retention \in Nat
    BY RemindTypes
  <2>. QED  BY <1>2, <2>1
<1>. QED  BY <1>1, <1>2 DEF R!Pruned

LEMMA TickSaves == ASSUME RemindInv, NEW t \in Ticks, R!SaveState(t) PROVE RemindInv'
<1>1. /\ tick[t].pc = "save" /\ sent' = R!Pruned(tick[t].copy, tick[t].at)
      /\ tick' = [tick EXCEPT ![t] = R!Over(t)]
      /\ UNCHANGED <<now, line, reset, remindFaults, last, excused, remindOverlapped>>
  BY DEF R!SaveState, R!history
<1>2. tick[t].copy \in [Reminders -> R!Times] /\ tick[t].at \in 0..RemindTime /\ tick[t].at <= now
  BY RemindTypes DEF RemindInv, TickRow
<1>3. sent' \in [Reminders -> R!Times]
      /\ \A r \in Reminders : sent'[r] = tick[t].copy[r] \/ now > tick[t].copy[r] + Retention
  BY <1>1, <1>2, PrunedIs
<1>4. tick'[t] = R!Over(t) /\ tick' = [tick EXCEPT ![t] = tick'[t]] /\ \A u \in Ticks : u # t => tick'[u] = tick[u]
  BY <1>1, RemindTypes
<1>5. 0 <= now
  BY RemindTypes
<1>6. tick'[t].at <= now /\ tick'[t].pc # "load"
  BY <1>4, <1>5, OverIs
<1>7. ASSUME ~remindOverlapped' PROVE OneHolder' /\ Copies' /\ Delivered'
  <2>1. OneHolder /\ Copies /\ Delivered
    BY <1>1, <1>7 DEF RemindInv
  <2>2. Holds(t) /\ \A u \in Ticks : Holds(u) => u = t
    BY <1>1, <2>1 DEF Holds, OneHolder
  <2>3. \A x \in Resets : ~Resetting(x)
    BY <2>1, <2>2 DEF OneHolder
  <2>4. \A u \in Ticks : ~Holds(u)'
    <3>1. ~Holds(t)'
      BY <1>4, OverIs DEF Holds
    <3>. QED  BY <1>4, <2>2, <3>1 DEF Holds
  <2>5. \A x \in Resets : ~Resetting(x)'
    BY <1>1, <2>3 DEF Resetting
  <2>6. OneHolder' /\ Copies'
    BY <2>4, <2>5 DEF OneHolder, Copies
  <2>7. Delivered'
    <3>. SUFFICES ASSUME NEW r \in Reminders, last[r] # R!Never, r \notin excused
         PROVE  sent'[r] = last[r] \/ now > last[r] + Retention
      BY <1>1 DEF Delivered, R!Never
    <3>1. tick[t].copy[r] = IF r \in tick[t].notified THEN last[r] ELSE sent[r]
      BY <2>1, <2>2 DEF Copies
    <3>2. r \notin tick[t].notified => sent[r] = last[r] \/ now > last[r] + Retention
      BY <2>1, <2>2 DEF Delivered
    <3>. QED  BY <1>3, <3>1, <3>2
  <2>. QED  BY <2>6, <2>7
<1>. QED  BY <1>1, <1>3, <1>4, <1>6, <1>7, OverIs, RemindTypes, TickKeeps

LEMMA TickEnds == ASSUME RemindInv, NEW t \in Ticks, R!TickDies(t) PROVE RemindInv'
<1>1. /\ remindFaults < RemindFaults /\ remindFaults' = remindFaults + 1
      /\ excused' = excused \cup tick[t].notified
      /\ tick' = [tick EXCEPT ![t] = R!Over(t)]
      /\ UNCHANGED <<now, line, sent, reset, last, remindOverlapped>>
  BY DEF R!TickDies
<1>2. tick'[t] = R!Over(t) /\ tick' = [tick EXCEPT ![t] = tick'[t]]
  BY <1>1, RemindTypes
<1>3. 0 <= now /\ excused' \subseteq Reminders
  BY <1>1, RemindTypes DEF TickRow
<1>4. tick'[t].at <= now /\ tick'[t].pc # "load"
  BY <1>2, <1>3, OverIs
<1>5. remindFaults' \in 0..RemindFaults
  <2>1. remindFaults \in 0..RemindFaults /\ RemindFaults \in Nat
    BY RemindAssumption, RemindTypes
  <2>. QED  BY <1>1, <2>1
<1>6. ~remindOverlapped' => OneHolder' /\ Copies' /\ Delivered'
  BY <1>1, <1>2, OverIs, LetsGo
<1>. QED  BY <1>1, <1>2, <1>3, <1>4, <1>5, <1>6, OverIs, RemindTypes, TickKeeps

LEMMA ResetLoads == ASSUME RemindInv, NEW x \in Resets, R!LoadForReset(x) PROVE RemindInv'
<1>1. /\ reset' = [reset EXCEPT ![x] = [pc |-> "save", copy |-> sent]]
      /\ remindOverlapped' = (remindOverlapped \/ R!Holding # {})
      /\ UNCHANGED <<now, line, sent, tick, remindFaults, last, excused>>
  BY DEF R!LoadForReset
<1>2. reset' \in [Resets -> ResetRow] /\ reset'[x] = [pc |-> "save", copy |-> sent]
      /\ \A y \in Resets : y # x => reset'[y] = reset[y]
  <2>1. [pc |-> "save", copy |-> sent] \in ResetRow
    BY RemindTypes DEF ResetRow
  <2>. QED  BY <1>1, <2>1, RemindTypes
<1>3. R!TypeOK'
  BY <1>1, <1>2, RemindTypes DEF RemindInv, R!TypeOK, ResetRow, R!Times, R!Never
<1>4. \A t \in Ticks : tick'[t].at <= now' /\ (tick'[t].pc = "load" => tick'[t].notified = {})
  BY <1>1 DEF RemindInv
<1>5. ASSUME ~remindOverlapped' PROVE OneHolder' /\ Copies' /\ Delivered'
  <2>1. ~remindOverlapped /\ R!Holding = {}
    BY <1>1, <1>5
  <2>2. \A u \in Ticks : ~Holds(u)
    BY <2>1 DEF R!Holding, Holds
  <2>3. \A y \in Resets : ~Resetting(y)
    BY <2>1 DEF R!Holding, Resetting
  <2>4. \A u \in Ticks : ~Holds(u)'
    BY <1>1, <2>2 DEF Holds
  <2>5. \A y \in Resets : Resetting(y)' => y = x
    BY <1>2, <2>3 DEF Resetting
  <2>6. OneHolder' /\ Copies'
    BY <1>1, <1>2, <2>4, <2>5 DEF OneHolder, Copies
  <2>7. Delivered'
    <3>1. Delivered
      BY <2>1 DEF RemindInv
    <3>. QED  BY <1>1, <2>2, <3>1 DEF Delivered, R!Never
  <2>. QED  BY <2>6, <2>7
<1>. QED  BY <1>3, <1>4, <1>5 DEF RemindInv

LEMMA ResetSaves ==
    ASSUME RemindInv, NEW x \in Resets, NEW matching \in SUBSET Reminders, R!SaveReset(x, matching)
    PROVE  RemindInv'
<1>. DEFINE copy == [r \in Reminders |-> IF r \in matching THEN R!Never ELSE reset[x].copy[r]]
            row == [R!NotResetting EXCEPT !.pc = "done"]
<1>1. /\ reset[x].pc = "save" /\ sent' = R!Pruned(copy, now) /\ excused' = excused \cup matching
      /\ reset' = [reset EXCEPT ![x] = row]
      /\ UNCHANGED <<now, line, tick, remindFaults, last, remindOverlapped>>
  BY DEF R!SaveReset
<1>2. copy \in [Reminders -> R!Times] /\ now \in 0..RemindTime /\ now <= now
      /\ \A r \in Reminders : r \notin matching => copy[r] = reset[x].copy[r]
  <2>1. reset[x].copy \in [Reminders -> R!Times] /\ R!Never \in R!Times
    BY RemindTypes DEF ResetRow
  <2>. QED  BY <2>1, RemindTypes
<1>3. row \in ResetRow /\ row.pc = "done"
  <2>1. R!Nothing \in [Reminders -> R!Times]
    <3>1. R!Never \in R!Times
      BY RemindTypes
    <3>. QED  BY <3>1 DEF R!Nothing
  <2>. QED  BY <2>1 DEF R!NotResetting, ResetRow
<1>. HIDE DEF copy, row
<1>4. sent' \in [Reminders -> R!Times]
      /\ \A r \in Reminders : sent'[r] = copy[r] \/ now > copy[r] + Retention
  BY <1>1, <1>2, PrunedIs
<1>5. reset' \in [Resets -> ResetRow] /\ reset'[x] = row /\ \A y \in Resets : y # x => reset'[y] = reset[y]
  BY <1>1, <1>3, RemindTypes
<1>6. R!TypeOK'
  BY <1>1, <1>4, <1>5, RemindTypes DEF RemindInv, R!TypeOK, ResetRow, R!Times, R!Never
<1>7. \A t \in Ticks : tick'[t].at <= now' /\ (tick'[t].pc = "load" => tick'[t].notified = {})
  BY <1>1 DEF RemindInv
<1>8. ASSUME ~remindOverlapped' PROVE OneHolder' /\ Copies' /\ Delivered'
  <2>1. OneHolder /\ Copies /\ Delivered
    BY <1>1, <1>8 DEF RemindInv
  <2>2. Resetting(x)
    BY <1>1 DEF Resetting
  <2>3. \A u \in Ticks : ~Holds(u) /\ ~Holds(u)'
    BY <1>1, <2>1, <2>2 DEF OneHolder, Holds
  <2>4. \A y \in Resets : ~Resetting(y)'
    <3>1. \A y \in Resets : Resetting(y) => y = x
      BY <2>1, <2>2 DEF OneHolder
    <3>. QED  BY <1>3, <1>5, <3>1 DEF Resetting
  <2>5. OneHolder' /\ Copies'
    BY <2>3, <2>4 DEF OneHolder, Copies
  <2>6. Delivered'
    <3>. SUFFICES ASSUME NEW r \in Reminders, last[r] # R!Never, r \notin excused'
         PROVE  sent'[r] = last[r] \/ now > last[r] + Retention
      BY <1>1 DEF Delivered, R!Never
    <3>1. r \notin excused /\ r \notin matching
      BY <1>1
    <3>2. sent[r] = last[r] \/ now > last[r] + Retention
      BY <2>1, <2>3, <3>1 DEF Delivered
    <3>3. copy[r] = sent[r]
      BY <1>2, <2>1, <2>2, <3>1 DEF Copies
    <3>. QED  BY <1>4, <3>2, <3>3
  <2>. QED  BY <2>5, <2>6
<1>. QED  BY <1>6, <1>7, <1>8 DEF RemindInv

LEMMA VaultKeeps ==
    ASSUME RemindInv, R!Time \/ \E l \in StampedLines : R!AddLine(l) \/ R!TickLineOff(l)
    PROVE  RemindInv'
<1>1. UNCHANGED <<sent, tick, reset, remindFaults, last, excused, remindOverlapped>>
  BY DEF R!Time, R!AddLine, R!TickLineOff, R!history
<1>2. now' \in 0..RemindTime /\ now <= now' /\ line' \in [StampedLines -> {"none", "open", "ticked"}]
  <2>1. CASE R!Time
    <3>1. now < RemindTime /\ now' = now + 1 /\ line' = line
      BY <2>1 DEF R!Time
    <3>. QED  BY <3>1, RemindTypes
  <2>2. CASE \E l \in StampedLines : R!AddLine(l) \/ R!TickLineOff(l)
    <3>1. now' = now
      BY <2>2 DEF R!AddLine, R!TickLineOff
    <3>2. line' \in [StampedLines -> {"none", "open", "ticked"}]
      BY <2>2, RemindTypes DEF R!AddLine, R!TickLineOff
    <3>. QED  BY <3>1, <3>2, RemindTypes
  <2>. QED  BY <2>1, <2>2
<1>3. R!TypeOK'
  BY <1>1, <1>2, RemindTypes DEF RemindInv, R!TypeOK, R!Times, R!Never
<1>4. \A t \in Ticks : tick[t].at <= now'
  <2>1. ASSUME NEW t \in Ticks PROVE tick[t].at <= now'
    <3>1. tick[t].at \in Nat /\ tick[t].at <= now
      BY RemindTypes DEF RemindInv, TickRow
    <3>. QED  BY <1>2, <3>1, RemindTypes
  <2>. QED  BY <2>1
<1>5. ASSUME ~remindOverlapped PROVE OneHolder' /\ Copies' /\ Delivered'
  <2>1. OneHolder /\ Copies /\ Delivered
    BY <1>5 DEF RemindInv
  <2>2. OneHolder' /\ Copies'
    BY <1>1, <2>1 DEF OneHolder, Copies, Holds, Resetting, R!Never
  <2>3. Delivered'
    <3>. SUFFICES ASSUME NEW r \in Reminders, last[r] # R!Never, r \notin excused
         PROVE  sent[r] = last[r] \/ now' > last[r] + Retention
                \/ \E u \in Ticks : Holds(u) /\ r \in tick[u].notified
      BY <1>1 DEF Delivered, R!Never, Holds
    <3>1. now > last[r] + Retention => now' > last[r] + Retention
      <4>1. last[r] \in Nat
        BY RemindTypes
      <4>. QED  BY <1>2, <4>1, RemindTypes
    <3>. QED  BY <2>1, <3>1 DEF Delivered
  <2>. QED  BY <2>2, <2>3
<1>. QED  BY <1>1, <1>3, <1>4, <1>5 DEF RemindInv

LEMMA RemindKeeps == ASSUME RemindInv, [R!Next]_(R!vars) PROVE RemindInv'
<1>1. CASE R!Next
  BY <1>1, VaultKeeps, ScanReminders, TickLoads, TickTells, TickSaves, TickEnds, ResetLoads, ResetSaves
  DEF R!Next, R!Step
<1>2. CASE UNCHANGED R!vars
  <2>1. UNCHANGED <<now, line, sent, tick, reset, remindFaults, last, excused, remindOverlapped>>
    BY <1>2 DEF R!vars, R!history
  <2>2. R!TypeOK' /\ R!Never' = R!Never
    BY <2>1 DEF RemindInv, R!TypeOK, R!Times, R!Never
  <2>3. ~remindOverlapped => OneHolder' /\ Copies' /\ Delivered'
    BY <2>1, <2>2 DEF RemindInv, OneHolder, Copies, Delivered, Holds, Resetting
  <2>. QED  BY <2>1, <2>2, <2>3 DEF RemindInv
<1>. QED  BY <1>1, <1>2

\* Nobody is told twice, but by one command of two lines that say the same.
LEMMA ToldOnce ==
    ASSUME RemindInv, NEW t \in Ticks, NEW l \in StampedLines, R!Notify(t, l)
    PROVE  last[KeyOf[l]] = R!Never \/ now > last[KeyOf[l]] + Retention \/ KeyOf[l] \in excused
           \/ KeyOf[l] \in tick[t].notified \/ remindOverlapped
<1>0. PICK r \in Reminders : r = KeyOf[l]
  BY RemindAssumption
<1>. SUFFICES ASSUME last[r] # R!Never, r \notin excused, r \notin tick[t].notified, ~remindOverlapped
     PROVE  now > last[r] + Retention
  BY <1>0
<1>1. Holds(t) /\ l \in tick[t].due
  BY DEF R!Notify, Holds
<1>2. OneHolder /\ Copies /\ Delivered
  BY DEF RemindInv
<1>3. sent[r] = R!Never
  BY <1>0, <1>1, <1>2 DEF Copies
<1>4. \A u \in Ticks : Holds(u) => u = t
  BY <1>1, <1>2 DEF OneHolder
<1>. QED  BY <1>2, <1>3, <1>4 DEF Delivered

LEMMA RemindMove == ASSUME [FilesNext]_filesVars PROVE [R!Next]_(R!vars)
BY DEF FilesNext, filesVars, remindVars, R!history, R!vars

LEMMA RemindHold == FilesSpec => []RemindInv
<1>1. FilesInit => RemindInv
  BY RemindStarts DEF FilesInit
<1>2. RemindInv /\ [FilesNext]_filesVars => RemindInv'
  BY RemindMove, RemindKeeps
<1>. QED  BY <1>1, <1>2, PTL DEF FilesSpec

LEMMA ToldHolds == FilesSpec => R!NotifiedOnce
<1>1. ASSUME RemindInv, [FilesNext]_filesVars
      PROVE  [\A t \in Ticks, l \in StampedLines :
                R!Notify(t, l) => \/ last[KeyOf[l]] = R!Never
                                  \/ now > last[KeyOf[l]] + Retention
                                  \/ KeyOf[l] \in excused
                                  \/ KeyOf[l] \in tick[t].notified
                                  \/ remindOverlapped]_(R!vars)
  BY <1>1, ToldOnce
<1>. QED  BY <1>1, RemindHold, PTL DEF FilesSpec, R!NotifiedOnce

-----------------------------------------------------------------------------
(* The artifacts.                                                            *)

FileStates == {"none", "part", "whole"}
Adding == {"write1", "text1", "write2", "text2"}
AnyId == Documents \cup {""}

ArtTimed == day \in Nat /\ expires \in [Documents -> Nat]

ArtTyped ==
    /\ html \in [Documents -> FileStates] /\ json \in [Documents -> FileStates]
    /\ importer \in [pc : Adding \cup {"idle", "next"}, id : AnyId, todo : SUBSET Sources]
    /\ remover \in [pc : {"idle", "json", "html"}, id : AnyId]
    /\ page \in [listed : SUBSET Documents, pc : {"idle", "open", "served"}, id : AnyId,
                 got : FileStates \cup {"", "gone"}]

\* An id that somebody holds was taken; one that is removed was begun.
HeldInv ==
    /\ taken \subseteq Documents /\ ids \subseteq taken /\ page.listed \subseteq taken
    /\ page.pc # "idle" => page.id \in taken
    /\ importer.pc \in Adding => importer.id \in taken
    /\ remover.pc # "idle" => remover.id \in removed /\ remover.id \in Documents

\* A document is whole, or was removed.
Stands(i) == html[i] = "whole" \/ (html[i] = "none" /\ i \in removed)

\* A document is written before its sidecar, and an id is used once.
OrderInv ==
    /\ \A i \in Documents : json[i] # "none" => Stands(i)
    /\ \A i \in Documents \ taken : json[i] = "none"
    /\ importer.pc \in {"write1", "text1"} => json[importer.id] = "none"
    /\ importer.pc = "text1" =>
         html[importer.id] = "part" \/ (html[importer.id] = "none" /\ importer.id \in removed)
    /\ importer.pc \in {"write2", "text2"} => Stands(importer.id) /\ json[importer.id] # "whole"
    /\ importer.pc = "text2" => json[importer.id] = "part" \/ importer.id \in removed

\* What is listed, or a run's, is on disk, or somebody removes it; it is not being written.
ListInv ==
    /\ \A i \in page.listed \cup ids : json[i] = "whole" \/ i \in removed
    /\ importer.pc \in Adding => importer.id \notin page.listed \cup ids
    /\ page.pc = "open" => Stands(page.id)
    /\ page.pc = "open" /\ importer.pc \in Adding => page.id # importer.id

\* Who is served nothing, or less than the whole.
Missed == page.pc = "served" /\ page.got # "whole"
MissedInv ==
    Missed => page.got = "gone" /\ (page.id \in removed \/ expires[page.id] <= day)

ArtifactInv == ArtTimed /\ ArtTyped /\ HeldInv /\ OrderInv /\ ListInv /\ MissedInv

-----------------------------------------------------------------------------
(* Facts about ids, times and files.                                         *)

LEMMA AnyIds == "" \in AnyId /\ \A i \in Documents : i \in AnyId
BY DEF AnyId

LEMMA LiveIsWhole == \A i \in Documents : A!Live(i) => json[i] = "whole"
BY DEF A!Live

LEMMA NotLive ==
    ASSUME ArtTimed, NEW i \in Documents, json[i] = "whole", ~A!Live(i)
    PROVE  expires[i] <= day
<1>1. day \in Nat /\ expires[i] \in Nat
  BY DEF ArtTimed
<1>2. ~(expires[i] > day)
  BY DEF A!Live
<1>. QED  BY <1>1, <1>2

\* A step that gives nobody a page, and leaves the times, misses nobody.
LEMMA NobodyMissed ==
    ASSUME MissedInv, UNCHANGED <<page, expires, day>>, removed \subseteq removed'
    PROVE  MissedInv'
BY DEF MissedInv, Missed

LEMMA TimesStay == ASSUME ArtTimed, UNCHANGED <<day, expires>> PROVE ArtTimed'
BY DEF ArtTimed

LEMMA OrderIs == A!Order[1] = "html" /\ A!Order[2] = "json"
BY DEF A!Order

\* The first file is the document, the second the sidecar.
LEMMA PutIs ==
    ASSUME NEW text
    PROVE  /\ A!Put(1, text) => html' = A!Puts(html, text) /\ json' = json
           /\ A!Put(2, text) => json' = A!Puts(json, text) /\ html' = html
BY OrderIs DEF A!Put

\* What a write leaves in a file.
LEMMA PutsIs ==
    ASSUME NEW f \in [Documents -> FileStates], NEW text \in FileStates, importer.id \in Documents
    PROVE  /\ A!Puts(f, text) \in [Documents -> FileStates]
           /\ \A i \in Documents : i # importer.id => A!Puts(f, text)[i] = f[i]
           /\ text = "part" => A!Puts(f, text)[importer.id] = "part"
           /\ text = "whole" =>
                A!Puts(f, text)[importer.id] = IF f[importer.id] = "none" THEN "none" ELSE "whole"
BY DEF A!Puts, FileStates

LEMMA ArtifactsStart == ASSUME A!Init PROVE ArtifactInv
<1>1. ArtTimed
  BY DEF A!Init, ArtTimed
<1>2. ArtTyped
  BY AnyIds DEF A!Init, ArtTyped, FileStates
<1>3. HeldInv /\ OrderInv /\ ListInv /\ MissedInv
  BY DEF A!Init, HeldInv, OrderInv, ListInv, MissedInv, Missed, Adding
<1>. QED  BY <1>1, <1>2, <1>3 DEF ArtifactInv

-----------------------------------------------------------------------------
(* The adder.                                                                *)

LEMMA ImportKeepsArtifacts ==
    ASSUME ArtifactInv, NEW todo \in SUBSET Sources, A!Import(todo)
    PROVE  ArtifactInv'
<1>. USE DEF ArtifactInv, A!Import, A!store
<1>1. ArtTimed' /\ MissedInv'
  BY TimesStay, NobodyMissed
<1>2. ArtTyped'
  BY AnyIds DEF ArtTyped, Adding
<1>3. HeldInv' /\ OrderInv' /\ ListInv'
  BY DEF HeldInv, OrderInv, ListInv, Stands, Adding
<1>. QED  BY <1>1, <1>2, <1>3

LEMMA RefuseKeepsArtifacts ==
    ASSUME ArtifactInv, NEW s \in Sources, A!Refuse(s)
    PROVE  ArtifactInv'
<1>. USE DEF ArtifactInv, A!Refuse, A!store
<1>1. ArtTimed' /\ MissedInv'
  BY TimesStay, NobodyMissed
<1>2. ArtTyped'
  BY DEF ArtTyped
<1>3. HeldInv' /\ OrderInv' /\ ListInv'
  BY DEF ArtTyped, HeldInv, OrderInv, ListInv, Stands, Adding
<1>. QED  BY <1>1, <1>2, <1>3

\* The id is new: nobody holds it, and no file of it is there.
LEMMA AddKeepsArtifacts ==
    ASSUME TTL \in Nat, ArtifactInv, NEW s \in Sources, NEW i \in Documents, A!Add(s, i)
    PROVE  ArtifactInv'
<1>1. ArtTimed'
  <2>1. day \in Nat /\ day' = day /\ expires \in [Documents -> Nat]
    BY DEF ArtifactInv, ArtTimed, A!Add
  <2>2. day + TTL \in Nat
    BY <2>1
  <2>3. expires' = [expires EXCEPT ![i] = day + TTL]
    BY DEF A!Add
  <2>. QED  BY <2>1, <2>2, <2>3 DEF ArtTimed
<1>2. ArtTyped'
  BY AnyIds DEF ArtifactInv, ArtTyped, Adding, A!Add
<1>3. HeldInv'
  BY DEF ArtifactInv, HeldInv, Adding, A!Add
<1>4. OrderInv'
  BY DEF ArtifactInv, HeldInv, OrderInv, Stands, A!Add
<1>5. ListInv'
  BY DEF ArtifactInv, HeldInv, ListInv, Stands, A!Add
<1>6. MissedInv'
  <2>1. page.pc # "idle" => page.id \in Documents /\ page.id # i
    BY DEF ArtifactInv, HeldInv, A!Add
  <2>2. page.pc # "idle" => expires'[page.id] = expires[page.id]
    BY <2>1 DEF ArtifactInv, ArtTimed, A!Add
  <2>. QED  BY <2>2 DEF ArtifactInv, MissedInv, Missed, A!Add
<1>. QED  BY <1>1, <1>2, <1>3, <1>4, <1>5, <1>6 DEF ArtifactInv

LEMMA WriteFirstKeepsArtifacts ==
    ASSUME ArtifactInv, A!WriteFirst
    PROVE  ArtifactInv'
<1>1. ArtTimed' /\ MissedInv' /\ HeldInv' /\ ArtTyped'
  <2>1. ArtTimed' /\ MissedInv'
    BY TimesStay, NobodyMissed DEF ArtifactInv, A!WriteFirst
  <2>2. HeldInv'
    BY DEF ArtifactInv, ArtTyped, HeldInv, Adding, A!WriteFirst
  <2>3. importer.id \in Documents /\ UNCHANGED <<remover, page>> /\ importer.pc \in {"write1", "text1"}
    BY DEF ArtifactInv, HeldInv, Adding, A!WriteFirst
  <2>4. html' \in [Documents -> FileStates] /\ json' \in [Documents -> FileStates]
    <3>1. "part" \in FileStates /\ "whole" \in FileStates
      BY DEF FileStates
    <3>2. A!Puts(html, "part") \in [Documents -> FileStates] /\ A!Puts(html, "whole") \in [Documents -> FileStates]
      BY <2>3, <3>1, PutsIs DEF ArtifactInv, ArtTyped
    <3>. QED  BY <3>2, PutIs DEF ArtifactInv, ArtTyped, A!WriteFirst
  <2>5. importer' \in [pc : Adding \cup {"idle", "next"}, id : AnyId, todo : SUBSET Sources]
    BY DEF ArtifactInv, ArtTyped, Adding, A!WriteFirst
  <2>. QED  BY <2>1, <2>2, <2>3, <2>4, <2>5 DEF ArtifactInv, ArtTyped
<1>2. CASE importer' = [importer EXCEPT !.pc = "next"] /\ UNCHANGED <<html, json>>
  <2>1. OrderInv' /\ ListInv'
    BY <1>2 DEF ArtifactInv, ArtTyped, OrderInv, ListInv, Stands, Adding, A!WriteFirst
  <2>. QED  BY <1>1, <2>1 DEF ArtifactInv
<1>3. ASSUME NEW pc \in {"text1", "write2"}, NEW text \in {"part", "whole"},
             pc = "text1" => importer.pc = "write1" /\ text = "part",
             pc = "write2" => importer.pc = "text1" /\ text = "whole",
             A!Put(1, text), importer' = [importer EXCEPT !.pc = pc]
      PROVE  OrderInv' /\ ListInv'
  <2>1. importer.id \in Documents /\ importer.pc \in Adding
    BY <1>3 DEF ArtifactInv, HeldInv, Adding
  <2>2. html' = A!Puts(html, text) /\ json' = json
    BY <1>3, PutIs
  <2>3. UNCHANGED <<page, ids, removed, taken>> /\ importer'.pc = pc /\ importer'.id = importer.id
    <3>1. importer \in [pc : Adding \cup {"idle", "next"}, id : AnyId, todo : SUBSET Sources]
      BY DEF ArtifactInv, ArtTyped
    <3>2. importer'.pc = pc /\ importer'.id = importer.id
      BY <1>3, <3>1
    <3>. QED  BY <3>2 DEF A!WriteFirst
  <2>4. text \in FileStates /\ html \in [Documents -> FileStates] /\ json[importer.id] = "none"
    BY <1>3 DEF FileStates, ArtifactInv, ArtTyped, OrderInv
  <2>5. \A i \in Documents : i # importer.id => html'[i] = html[i]
    BY <2>1, <2>2, <2>4, PutsIs
  <2>6. /\ pc = "text1" => html'[importer.id] = "part"
        /\ pc = "write2" =>
             html'[importer.id] = "whole" \/ (html'[importer.id] = "none" /\ importer.id \in removed)
    <3>1. text = "part" => html'[importer.id] = "part"
      BY <2>1, <2>2, <2>4, PutsIs
    <3>2. text = "whole" => html'[importer.id] = IF html[importer.id] = "none" THEN "none" ELSE "whole"
      BY <2>1, <2>2, <2>4, PutsIs
    <3>. QED  BY <1>3, <3>1, <3>2 DEF ArtifactInv, OrderInv
  <2>7. OrderInv'
    BY <1>3, <2>1, <2>2, <2>3, <2>4, <2>5, <2>6 DEF ArtifactInv, HeldInv, OrderInv, Stands
  <2>8. ListInv'
    <3>1. page.pc = "open" => page.id \in Documents /\ page.id # importer.id
      BY <2>1 DEF ArtifactInv, HeldInv, ListInv
    <3>. QED  BY <2>1, <2>2, <2>3, <2>5, <3>1 DEF ArtifactInv, ListInv, Stands
  <2>. QED  BY <2>7, <2>8
<1>4. CASE importer.pc = "write1" /\ A!Put(1, "part") /\ importer' = [importer EXCEPT !.pc = "text1"]
  BY <1>1, <1>3, <1>4 DEF ArtifactInv
<1>5. CASE importer.pc = "text1" /\ A!Put(1, "whole") /\ importer' = [importer EXCEPT !.pc = "write2"]
  BY <1>1, <1>3, <1>5 DEF ArtifactInv
<1>. QED  BY <1>2, <1>4, <1>5 DEF A!WriteFirst

LEMMA WriteSecondKeepsArtifacts ==
    ASSUME ArtifactInv, A!WriteSecond
    PROVE  ArtifactInv'
<1>1. ArtTimed' /\ MissedInv' /\ HeldInv' /\ ArtTyped'
  <2>1. ArtTimed' /\ MissedInv'
    BY TimesStay, NobodyMissed DEF ArtifactInv, A!WriteSecond
  <2>2. importer.id \in Documents /\ importer.id \in taken /\ UNCHANGED <<remover, page>>
    BY DEF ArtifactInv, HeldInv, Adding, A!WriteSecond
  <2>3. HeldInv'
    BY <2>2 DEF ArtifactInv, ArtTyped, HeldInv, Adding, A!WriteSecond
  <2>4. html' \in [Documents -> FileStates] /\ json' \in [Documents -> FileStates]
    <3>1. "part" \in FileStates /\ "whole" \in FileStates
      BY DEF FileStates
    <3>2. A!Puts(json, "part") \in [Documents -> FileStates] /\ A!Puts(json, "whole") \in [Documents -> FileStates]
      BY <2>2, <3>1, PutsIs DEF ArtifactInv, ArtTyped
    <3>. QED  BY <3>2, PutIs DEF ArtifactInv, ArtTyped, A!WriteSecond
  <2>5. importer' \in [pc : Adding \cup {"idle", "next"}, id : AnyId, todo : SUBSET Sources]
    BY DEF ArtifactInv, ArtTyped, Adding, A!WriteSecond
  <2>. QED  BY <2>1, <2>2, <2>3, <2>4, <2>5 DEF ArtifactInv, ArtTyped
<1>2. CASE importer' = [importer EXCEPT !.pc = "next"] /\ UNCHANGED <<html, json, ids>>
  <2>1. OrderInv' /\ ListInv'
    BY <1>2 DEF ArtifactInv, ArtTyped, OrderInv, ListInv, Stands, Adding, A!WriteSecond
  <2>. QED  BY <1>1, <2>1 DEF ArtifactInv
<1>3. ASSUME NEW pc \in {"text2", "next"}, NEW text \in {"part", "whole"},
             pc = "text2" => importer.pc = "write2" /\ text = "part" /\ ids' = ids,
             pc = "next" => importer.pc = "text2" /\ text = "whole" /\ ids' = ids \cup {importer.id},
             A!Put(2, text), importer' = [importer EXCEPT !.pc = pc]
      PROVE  OrderInv' /\ ListInv'
  <2>1. importer.id \in Documents /\ importer.pc \in Adding /\ importer.id \in taken /\ Stands(importer.id)
    BY <1>3 DEF ArtifactInv, HeldInv, OrderInv, Adding
  <2>2. json' = A!Puts(json, text) /\ html' = html
    BY <1>3, PutIs
  <2>3. UNCHANGED <<page, removed, taken>> /\ importer'.pc = pc /\ importer'.id = importer.id
    <3>1. importer \in [pc : Adding \cup {"idle", "next"}, id : AnyId, todo : SUBSET Sources]
      BY DEF ArtifactInv, ArtTyped
    <3>2. importer'.pc = pc /\ importer'.id = importer.id
      BY <1>3, <3>1
    <3>. QED  BY <3>2 DEF A!WriteSecond
  <2>4. text \in FileStates /\ json \in [Documents -> FileStates]
    BY <1>3 DEF FileStates, ArtifactInv, ArtTyped
  <2>5. \A i \in Documents : i # importer.id => json'[i] = json[i]
    BY <2>1, <2>2, <2>4, PutsIs
  <2>6. /\ text = "part" => json'[importer.id] = "part"
        /\ text = "whole" => json'[importer.id] = IF json[importer.id] = "none" THEN "none" ELSE "whole"
    BY <2>1, <2>2, <2>4, PutsIs
  <2>7. OrderInv'
    BY <1>3, <2>1, <2>2, <2>3, <2>5, <2>6 DEF ArtifactInv, HeldInv, OrderInv, Stands
  <2>8. ListInv'
    BY <1>3, <2>1, <2>2, <2>3, <2>5, <2>6 DEF ArtifactInv, HeldInv, OrderInv, ListInv, Stands, Adding
  <2>. QED  BY <2>7, <2>8
<1>4. CASE importer.pc = "write2" /\ A!Put(2, "part") /\ importer' = [importer EXCEPT !.pc = "text2"] /\ UNCHANGED ids
  BY <1>1, <1>3, <1>4 DEF ArtifactInv
<1>5. CASE /\ importer.pc = "text2" /\ A!Put(2, "whole")
           /\ importer' = [importer EXCEPT !.pc = "next"] /\ ids' = ids \cup {importer.id}
  BY <1>1, <1>3, <1>5 DEF ArtifactInv
<1>. QED  BY <1>2, <1>4, <1>5 DEF A!WriteSecond

LEMMA AddedKeepsArtifacts == ASSUME ArtifactInv, A!Added PROVE ArtifactInv'
<1>. USE DEF ArtifactInv, A!Added, A!store
<1>1. ArtTimed' /\ MissedInv'
  BY TimesStay, NobodyMissed
<1>2. ArtTyped'
  BY AnyIds DEF ArtTyped
<1>3. HeldInv' /\ OrderInv' /\ ListInv'
  BY DEF HeldInv, OrderInv, ListInv, Stands, Adding
<1>. QED  BY <1>1, <1>2, <1>3

-----------------------------------------------------------------------------
(* Everybody else.                                                           *)

LEMMA RemoverKeepsArtifacts ==
    ASSUME ArtifactInv,
           A!RemoveSidecar \/ A!RemoveDocument \/ \E i \in Documents, by \in {"hand", "purge"} : A!Begin(i, by)
    PROVE  ArtifactInv'
<1>1. ArtTimed' /\ MissedInv'
  BY TimesStay, NobodyMissed DEF ArtifactInv, A!RemoveSidecar, A!RemoveDocument, A!Begin, A!store
<1>2. CASE A!RemoveSidecar
  <2>1. ArtTyped'
    BY <1>2 DEF ArtifactInv, ArtTyped, FileStates, A!RemoveSidecar
  <2>2. HeldInv'
    BY <1>2 DEF ArtifactInv, ArtTyped, HeldInv, A!RemoveSidecar
  <2>3. OrderInv' /\ ListInv'
    BY <1>2 DEF ArtifactInv, ArtTyped, HeldInv, OrderInv, ListInv, Stands, A!RemoveSidecar
  <2>. QED  BY <1>1, <2>1, <2>2, <2>3 DEF ArtifactInv
<1>3. CASE A!RemoveDocument
  <2>1. ArtTyped'
    BY <1>3, AnyIds DEF ArtifactInv, ArtTyped, FileStates, A!RemoveDocument
  <2>2. HeldInv'
    BY <1>3 DEF ArtifactInv, ArtTyped, HeldInv, A!RemoveDocument
  <2>3. OrderInv' /\ ListInv'
    BY <1>3 DEF ArtifactInv, ArtTyped, HeldInv, OrderInv, ListInv, Stands, A!RemoveDocument
  <2>. QED  BY <1>1, <2>1, <2>2, <2>3 DEF ArtifactInv
<1>4. ASSUME NEW i \in Documents, NEW by \in {"hand", "purge"}, A!Begin(i, by) PROVE ArtifactInv'
  <2>1. ArtTyped'
    BY <1>4, AnyIds DEF ArtifactInv, ArtTyped, A!Begin, A!store
  <2>2. HeldInv'
    BY <1>4 DEF ArtifactInv, HeldInv, A!Begin, A!store
  <2>3. OrderInv' /\ ListInv'
    BY <1>4 DEF ArtifactInv, OrderInv, ListInv, Stands, A!Begin, A!store
  <2>. QED  BY <1>1, <2>1, <2>2, <2>3 DEF ArtifactInv
<1>. QED  BY <1>2, <1>3, <1>4

LEMMA ListKeepsArtifacts == ASSUME ArtifactInv, A!List PROVE ArtifactInv'
<1>1. ArtTimed'
  BY TimesStay DEF ArtifactInv, A!List, A!store
<1>2. page.pc = "idle" /\ page' = [page EXCEPT !.listed = {i \in Documents : A!Live(i)}]
  BY DEF A!List
<1>3. \A i \in Documents : A!Live(i) => json[i] = "whole" /\ i \in taken
  BY LiveIsWhole DEF ArtifactInv, OrderInv
<1>4. page \in [listed : SUBSET Documents, pc : {"idle", "open", "served"}, id : AnyId,
               got : FileStates \cup {"", "gone"}]
  BY DEF ArtifactInv, ArtTyped
<1>5. page'.listed = {i \in Documents : A!Live(i)} /\ page'.pc = "idle" /\ page' \in
        [listed : SUBSET Documents, pc : {"idle", "open", "served"}, id : AnyId,
         got : FileStates \cup {"", "gone"}]
  BY <1>2, <1>4
<1>6. ArtTyped' /\ HeldInv'
  BY <1>3, <1>5 DEF ArtifactInv, ArtTyped, HeldInv, A!List, A!store
<1>7. OrderInv'
  BY DEF ArtifactInv, OrderInv, Stands, A!List, A!store
<1>8. ListInv'
  <2>1. importer.pc \in Adding => json[importer.id] # "whole"
    BY DEF ArtifactInv, OrderInv, Adding
  <2>. QED  BY <1>3, <1>5, <2>1 DEF ArtifactInv, ListInv, A!List, A!store
<1>9. MissedInv'
  BY <1>5 DEF MissedInv, Missed
<1>. QED  BY <1>1, <1>6, <1>7, <1>8, <1>9 DEF ArtifactInv

LEMMA PathKeepsArtifacts == ASSUME ArtifactInv, NEW i \in Documents, A!Path(i) PROVE ArtifactInv'
<1>1. ArtTimed'
  BY TimesStay DEF ArtifactInv, A!Path, A!store
<1>2. UNCHANGED <<day, html, json, expires, taken, importer, ids, remover, removed>>
  BY DEF A!Path, A!store
<1>3. /\ page'.listed = page.listed /\ page'.id = i
      /\ page'.pc = IF A!Live(i) THEN "open" ELSE "served"
      /\ page'.got = IF A!Live(i) THEN "" ELSE "gone"
      /\ page' \in [listed : SUBSET Documents, pc : {"idle", "open", "served"}, id : AnyId,
                   got : FileStates \cup {"", "gone"}]
  <2>1. page \in [listed : SUBSET Documents, pc : {"idle", "open", "served"}, id : AnyId,
                 got : FileStates \cup {"", "gone"}]
    BY DEF ArtifactInv, ArtTyped
  <2>. QED  BY <2>1, AnyIds DEF A!Path
<1>4. i \in taken /\ (json[i] = "whole" \/ i \in removed)
  BY DEF ArtifactInv, HeldInv, ListInv, A!Path
<1>5. ArtTyped' /\ HeldInv' /\ OrderInv'
  BY <1>2, <1>3, <1>4 DEF ArtifactInv, ArtTyped, HeldInv, OrderInv, Stands
<1>6. ListInv'
  <2>1. A!Live(i) => Stands(i)
    BY LiveIsWhole DEF ArtifactInv, OrderInv
  <2>2. importer.pc \in Adding => importer.id # i
    BY DEF ArtifactInv, ListInv, A!Path
  <2>. QED  BY <1>2, <1>3, <2>1, <2>2 DEF ArtifactInv, ListInv, Stands
<1>7. MissedInv'
  <2>1. A!Live(i) \/ i \in removed \/ expires[i] <= day
    BY <1>4, NotLive DEF ArtifactInv
  <2>. QED  BY <1>2, <1>3, <2>1 DEF MissedInv, Missed
<1>. QED  BY <1>1, <1>5, <1>6, <1>7 DEF ArtifactInv

LEMMA PageKeepsArtifacts ==
    ASSUME ArtifactInv, A!List \/ A!Serve \/ A!Close \/ \E i \in Documents : A!Path(i)
    PROVE  ArtifactInv'
<1>1. CASE A!Serve
  <2>1. ArtTimed'
    BY <1>1, TimesStay DEF ArtifactInv, A!Serve, A!store
  <2>2. page.id \in Documents /\ html[page.id] \in FileStates /\ Stands(page.id)
    BY <1>1 DEF ArtifactInv, ArtTyped, HeldInv, ListInv, A!Serve
  <2>3. ArtTyped'
    BY <1>1, <2>2 DEF ArtifactInv, ArtTyped, A!Serve, A!store
  <2>4. HeldInv' /\ OrderInv' /\ ListInv'
    BY <1>1 DEF ArtifactInv, ArtTyped, HeldInv, OrderInv, ListInv, Stands, A!Serve, A!store
  <2>5. MissedInv'
    BY <1>1, <2>2 DEF ArtifactInv, ArtTyped, MissedInv, Missed, Stands, A!Serve, A!store
  <2>. QED  BY <2>1, <2>3, <2>4, <2>5 DEF ArtifactInv
<1>2. CASE A!Close
  <2>1. ArtTimed'
    BY <1>2, TimesStay DEF ArtifactInv, A!Close, A!store
  <2>2. ArtTyped'
    BY <1>2, AnyIds DEF ArtifactInv, ArtTyped, A!Close, A!store
  <2>3. HeldInv' /\ OrderInv' /\ ListInv' /\ MissedInv'
    BY <1>2 DEF ArtifactInv, ArtTyped, HeldInv, OrderInv, ListInv, MissedInv, Missed, Stands, A!Close, A!store
  <2>. QED  BY <2>1, <2>2, <2>3 DEF ArtifactInv
<1>. QED  BY <1>1, <1>2, ListKeepsArtifacts, PathKeepsArtifacts

LEMMA DayKeepsArtifacts == ASSUME ArtifactInv, A!Tick PROVE ArtifactInv'
<1>1. day \in Nat /\ day' = day + 1 /\ expires \in [Documents -> Nat]
  BY DEF ArtifactInv, ArtTimed, A!Tick
<1>2. day + 1 \in Nat
  BY <1>1
<1>3. UNCHANGED <<html, json, expires, taken, importer, ids, remover, page, removed>>
  BY DEF A!Tick, A!store
<1>4. ArtTyped' /\ HeldInv' /\ OrderInv' /\ ListInv'
  BY <1>3 DEF ArtifactInv, ArtTyped, HeldInv, OrderInv, ListInv, Stands
<1>5. ArtTimed'
  BY <1>1, <1>2, <1>3 DEF ArtTimed
<1>6. \A i \in Documents : expires[i] <= day => expires[i] <= day'
  BY <1>1
<1>7. MissedInv'
  BY <1>3, <1>6 DEF ArtifactInv, HeldInv, MissedInv, Missed
<1>. QED  BY <1>4, <1>5, <1>7 DEF ArtifactInv

LEMMA DeathKeepsArtifacts == ASSUME ArtifactInv, A!Dies PROVE ArtifactInv'
<1>1. ArtTimed' /\ MissedInv'
  BY TimesStay, NobodyMissed DEF ArtifactInv, A!Dies, A!store
<1>2. CASE importer' = [pc |-> "idle", id |-> "", todo |-> {}] /\ UNCHANGED remover
  <2>1. ArtTyped'
    BY <1>2, AnyIds DEF ArtifactInv, ArtTyped, A!Dies, A!store
  <2>2. HeldInv' /\ OrderInv' /\ ListInv'
    BY <1>2 DEF ArtifactInv, HeldInv, OrderInv, ListInv, Stands, Adding, A!Dies, A!store
  <2>. QED  BY <1>1, <2>1, <2>2 DEF ArtifactInv
<1>3. CASE remover' = [pc |-> "idle", id |-> ""] /\ UNCHANGED importer
  <2>1. ArtTyped'
    BY <1>3, AnyIds DEF ArtifactInv, ArtTyped, A!Dies, A!store
  <2>2. HeldInv' /\ OrderInv' /\ ListInv'
    BY <1>3 DEF ArtifactInv, HeldInv, OrderInv, ListInv, Stands, A!Dies, A!store
  <2>. QED  BY <1>1, <2>1, <2>2 DEF ArtifactInv
<1>. QED  BY <1>2, <1>3 DEF A!Dies

\* The day and the deaths keep within their bounds.
LEMMA BoundsKeep ==
    ASSUME day \in 0..LastDay, deaths \in 0..ArtifactDeaths, [A!Next]_(A!vars)
    PROVE  day' \in 0..LastDay /\ deaths' \in 0..ArtifactDeaths
<1>0. LastDay \in Nat /\ ArtifactDeaths \in Nat
  BY ArtifactAssumption
<1>1. CASE A!Tick
  BY <1>0, <1>1 DEF A!Tick
<1>2. CASE A!Dies
  <2>1. deaths < ArtifactDeaths /\ deaths' = deaths + 1 /\ day' = day
    BY <1>2 DEF A!Dies
  <2>. QED  BY <1>0, <2>1
<1>3. CASE UNCHANGED <<day, deaths>>
  BY <1>3
<1>4. A!Tick \/ A!Dies \/ UNCHANGED <<day, deaths>>
  BY DEF A!vars, A!Next, A!Import, A!Refuse, A!Add, A!WriteFirst, A!WriteSecond, A!Added,
         A!Begin, A!RemoveSidecar, A!RemoveDocument, A!List, A!Serve, A!Close, A!Path
<1>. QED  BY <1>1, <1>2, <1>3, <1>4

LEMMA ArtifactsMove == ASSUME [FilesNext]_filesVars PROVE [A!Next]_(A!vars)
BY DEF FilesNext, filesVars, artifactVars, A!vars

ArtifactsWell == ArtifactInv /\ day \in 0..LastDay /\ deaths \in 0..ArtifactDeaths

LEMMA ArtifactsHold == FilesSpec => []ArtifactsWell
<1>1. FilesInit => ArtifactsWell
  <2>1. A!Init => day = 0 /\ deaths = 0
    BY DEF A!Init
  <2>2. LastDay \in Nat /\ ArtifactDeaths \in Nat
    BY ArtifactAssumption
  <2>3. 0 \in 0..LastDay /\ 0 \in 0..ArtifactDeaths
    BY <2>2
  <2>. QED  BY <2>1, <2>3, ArtifactsStart DEF FilesInit, ArtifactsWell
<1>2. ArtifactsWell /\ [FilesNext]_filesVars => ArtifactsWell'
  <2>. SUFFICES ASSUME ArtifactsWell, [A!Next]_(A!vars) PROVE ArtifactsWell'
    BY ArtifactsMove
  <2>0. ArtifactInv
    BY DEF ArtifactsWell
  <2>1. CASE UNCHANGED A!vars
    <3>1. ArtTimed' /\ MissedInv'
      BY <2>0, <2>1, TimesStay, NobodyMissed DEF ArtifactInv, A!vars
    <3>2. ArtTyped' /\ HeldInv' /\ OrderInv' /\ ListInv'
      BY <2>0, <2>1 DEF ArtifactInv, ArtTyped, HeldInv, OrderInv, ListInv, Stands, A!vars
    <3>. QED  BY <2>1, <3>1, <3>2, BoundsKeep DEF ArtifactInv, ArtifactsWell
  <2>2. CASE A!Next
    <3>1. ArtifactInv'
      BY <2>0, <2>2, ArtifactAssumption, ImportKeepsArtifacts, RefuseKeepsArtifacts,
         AddKeepsArtifacts, WriteFirstKeepsArtifacts, WriteSecondKeepsArtifacts,
         AddedKeepsArtifacts, RemoverKeepsArtifacts, PageKeepsArtifacts, DayKeepsArtifacts,
         DeathKeepsArtifacts DEF A!Next
    <3>. QED  BY <3>1, BoundsKeep DEF ArtifactsWell
  <2>. QED  BY <2>1, <2>2
<1>. QED  BY <1>1, <1>2, PTL DEF FilesSpec

LEMMA ArtifactTypes == ASSUME ArtifactsWell PROVE A!TypeOK
<1>1. ArtifactInv
  BY DEF ArtifactsWell
<1>2. day \in 0..LastDay /\ deaths \in 0..ArtifactDeaths
  BY DEF ArtifactsWell
<1>3. taken \subseteq Documents /\ ids \subseteq taken /\ page.listed \subseteq taken
  BY <1>1 DEF ArtifactInv, HeldInv
<1>4. \A i \in Documents : {html[i], json[i]} \subseteq {"none", "part", "whole"}
  BY <1>1 DEF ArtifactInv, ArtTyped, FileStates
<1>5. remover.id \in Documents \cup {""} /\ importer.id \in Documents \cup {""}
  BY <1>1 DEF ArtifactInv, ArtTyped, AnyId
<1>. QED  BY <1>2, <1>3, <1>4, <1>5 DEF A!TypeOK

\* What the page lists, or a run has on record, it serves whole, or it has expired, or
\* somebody began to remove it: for any artifacts, time to live and number of deaths.
THEOREM ListedIsServedHolds == FilesSpec => []ListedIsServed
<1>1. ArtifactsWell => ListedIsServed
  BY DEF ArtifactsWell, ArtifactInv, MissedInv, Missed, ListedIsServed, A!ListedIsServed
<1>. QED  BY <1>1, ArtifactsHold, PTL

-----------------------------------------------------------------------------
(* The plugin's directory.                                                   *)

\* The first m of the directories are gone through: what is there so far, that it is all,
\* in order, and which comes first.
Given(t, ds, S, m) == \A i \in 1..Len(t) : \E k \in 1..m : ds[k] = t[i] /\ ds[k] \in S
All(t, ds, S, m) == \A k \in 1..m : ds[k] \in S => \E i \in 1..Len(t) : t[i] = ds[k]
InOrder(t, ds, m) ==
    \A i, j \in 1..Len(t) : i < j => \E k, l \in 1..m : k < l /\ ds[k] = t[i] /\ ds[l] = t[j]
FirstOf(t, ds, S, m) ==
    Len(t) > 0 => \E k \in 1..m : t[1] = ds[k] /\ ds[k] \in S /\ \A j \in 1..(k - 1) : ds[j] \notin S
Upto(t, ds, S, m) ==
    t \in Seq(Dirs) /\ Given(t, ds, S, m) /\ All(t, ds, S, m) /\ InOrder(t, ds, m) /\ FirstOf(t, ds, S, m)

LEMMA UptoNext ==
    ASSUME NEW t, NEW ds \in Seq(Dirs), NEW S, NEW m \in Nat, m + 1 <= Len(ds), Upto(t, ds, S, m)
    PROVE  Upto(IF ds[m + 1] \in S THEN Append(t, ds[m + 1]) ELSE t, ds, S, m + 1)
<1>. DEFINE d == ds[m + 1]
            u == Append(t, d)
<1>1. t \in Seq(Dirs) /\ d \in Dirs /\ Len(t) \in Nat
  BY LenProperties DEF Upto
<1>2. \A k \in 1..(m + 1) : k \in 1..m \/ k = m + 1
  OBVIOUS
<1>3. \A k \in 1..m : k \in 1..(m + 1) /\ k < m + 1
  OBVIOUS
<1>4. m + 1 \in 1..(m + 1)
  OBVIOUS
<1>5. CASE d \notin S
  <2>1. \A k \in 1..(m + 1) : ds[k] \in S => k \in 1..m
    BY <1>2, <1>5
  <2>2. Given(t, ds, S, m + 1)
    BY <1>3 DEF Upto, Given
  <2>3. All(t, ds, S, m + 1)
    BY <2>1 DEF Upto, All
  <2>4. InOrder(t, ds, m + 1)
    BY <1>3 DEF Upto, InOrder
  <2>5. FirstOf(t, ds, S, m + 1)
    BY <1>3 DEF Upto, FirstOf
  <2>. QED  BY <1>1, <1>5, <2>2, <2>3, <2>4, <2>5 DEF Upto
<1>6. CASE d \in S
  <2>1. u \in Seq(Dirs) /\ Len(u) = Len(t) + 1 /\ u[Len(t) + 1] = d
        /\ \A i \in 1..Len(t) : u[i] = t[i]
    BY <1>1
  <2>2. \A i \in 1..Len(u) : i \in 1..Len(t) \/ i = Len(t) + 1
    BY <1>1, <2>1
  <2>3. Len(t) + 1 \in 1..Len(u) /\ \A i \in 1..Len(t) : i \in 1..Len(u)
    BY <1>1, <2>1
  <2>. HIDE DEF u
  <2>4. Given(u, ds, S, m + 1)
    <3>1. ASSUME NEW i \in 1..Len(t) PROVE \E k \in 1..(m + 1) : ds[k] = u[i] /\ ds[k] \in S
      <4>1. PICK k \in 1..m : ds[k] = t[i] /\ ds[k] \in S
        BY DEF Upto, Given
      <4>. QED  BY <1>3, <2>1, <4>1
    <3>2. \E k \in 1..(m + 1) : ds[k] = u[Len(t) + 1] /\ ds[k] \in S
      BY <1>4, <1>6, <2>1
    <3>. QED  BY <2>2, <3>1, <3>2 DEF Given
  <2>5. All(u, ds, S, m + 1)
    <3>1. ASSUME NEW k \in 1..m, ds[k] \in S PROVE \E i \in 1..Len(u) : u[i] = ds[k]
      <4>1. PICK i \in 1..Len(t) : t[i] = ds[k]
        BY <3>1 DEF Upto, All
      <4>. QED  BY <2>1, <2>3, <4>1
    <3>2. \E i \in 1..Len(u) : u[i] = ds[m + 1]
      BY <2>1, <2>3
    <3>. QED  BY <1>2, <3>1, <3>2 DEF All
  <2>6. InOrder(u, ds, m + 1)
    <3>. SUFFICES ASSUME NEW i \in 1..Len(u), NEW j \in 1..Len(u), i < j
         PROVE  \E k, l \in 1..(m + 1) : k < l /\ ds[k] = u[i] /\ ds[l] = u[j]
      BY DEF InOrder
    <3>1. i \in 1..Len(t)
      BY <1>1, <2>1
    <3>2. CASE j \in 1..Len(t)
      <4>1. PICK k \in 1..m, l \in 1..m : k < l /\ ds[k] = t[i] /\ ds[l] = t[j]
        BY <3>1, <3>2 DEF Upto, InOrder
      <4>. QED  BY <1>3, <2>1, <3>1, <3>2, <4>1
    <3>3. CASE j = Len(t) + 1
      <4>1. PICK k \in 1..m : ds[k] = t[i]
        BY <3>1 DEF Upto, Given
      <4>. QED  BY <1>3, <1>4, <2>1, <3>1, <3>3, <4>1
    <3>. QED  BY <2>2, <3>2, <3>3
  <2>7. FirstOf(u, ds, S, m + 1)
    <3>1. CASE Len(t) > 0
      <4>1. PICK k \in 1..m : t[1] = ds[k] /\ ds[k] \in S /\ \A j \in 1..(k - 1) : ds[j] \notin S
        BY <3>1 DEF Upto, FirstOf
      <4>2. u[1] = t[1]
        BY <1>1, <2>1, <3>1
      <4>. QED  BY <1>3, <4>1, <4>2 DEF FirstOf
    <3>2. CASE Len(t) = 0
      <4>1. u[1] = d
        BY <2>1, <3>2
      <4>2. \A k \in 1..m : ds[k] \notin S
        <5>1. ~\E i \in 1..Len(t) : TRUE
          BY <3>2
        <5>. QED  BY <5>1 DEF Upto, All
      <4>3. \A j \in 1..((m + 1) - 1) : ds[j] \notin S
        BY <4>2
      <4>. QED  BY <1>4, <1>6, <4>1, <4>3 DEF FirstOf
    <3>. QED  BY <1>1, <3>1, <3>2
  <2>8. Upto(u, ds, S, m + 1)
    BY <2>1, <2>4, <2>5, <2>6, <2>7 DEF Upto
  <2>. QED  BY <1>6, <2>8 DEF u
<1>. QED  BY <1>5, <1>6

\* What Those adds up, for the first of the directories.
Collects(f, ds, S, n) ==
    f = [i \in 0..n |-> IF i = 0 THEN <<>>
                        ELSE IF ds[i] \in S THEN Append(f[i - 1], ds[i]) ELSE f[i - 1]]

LEMMA SomeCollects == ASSUME NEW ds, NEW S, NEW n \in Nat PROVE \E f : Collects(f, ds, S, n)
<1>. DEFINE N == {m \in Nat : \E f : Collects(f, ds, S, m)}
<1>1. 0 \in N
  <2>. DEFINE f == [i \in 0..0 |-> <<>>]
  <2>1. Collects(f, ds, S, 0)
    BY DEF Collects
  <2>. HIDE DEF f
  <2>. QED  BY <2>1
<1>2. ASSUME NEW m \in N PROVE m + 1 \in N
  <2>1. PICK f : Collects(f, ds, S, m)
    OBVIOUS
  <2>. DEFINE at(h, i) == IF i = 0 THEN <<>>
                          ELSE IF ds[i] \in S THEN Append(h[i - 1], ds[i]) ELSE h[i - 1]
              g == [i \in 0..(m + 1) |-> at(f, i)]
  <2>2. m \in Nat /\ m + 1 \in Nat
    OBVIOUS
  <2>3. f = [i \in 0..m |-> at(f, i)]
    BY <2>1 DEF Collects
  <2>4. \A i \in 0..m : i \in 0..(m + 1) /\ f[i] = at(f, i)
    <3>. HIDE DEF at
    <3>. QED  BY <2>2, <2>3
  <2>5. \A i \in 0..m : g[i] = f[i]
    <3>. HIDE DEF at
    <3>. QED  BY <2>4
  <2>6. \A i \in 0..(m + 1) : i # 0 => i - 1 \in 0..m
    BY <2>2
  <2>. HIDE DEF g
  <2>7. \A i \in 0..(m + 1) : at(f, i) = at(g, i)
    BY <2>5, <2>6
  <2>8. g = [i \in 0..(m + 1) |-> at(g, i)]
    <3>. HIDE DEF at
    <3>1. g = [i \in 0..(m + 1) |-> at(f, i)]
      BY DEF g
    <3>. QED  BY <2>7, <3>1
  <2>9. Collects(g, ds, S, m + 1)
    BY <2>8 DEF Collects
  <2>. QED  BY <2>2, <2>9
<1>3. N \in SUBSET Nat
  OBVIOUS
<1>. HIDE DEF N
<1>4. N = Nat
  BY <1>1, <1>2, <1>3, AllNaturals
<1>. QED  BY <1>4 DEF N

LEMMA CollectsUpto ==
    ASSUME NEW f, NEW ds \in Seq(Dirs), NEW S, Collects(f, ds, S, Len(ds))
    PROVE  Upto(f[Len(ds)], ds, S, Len(ds))
<1>. DEFINE N == {m \in Nat : m <= Len(ds) => Upto(f[m], ds, S, m)}
<1>1. Len(ds) \in Nat
  OBVIOUS
<1>2. \A i \in 0..Len(ds) :
        f[i] = IF i = 0 THEN <<>> ELSE IF ds[i] \in S THEN Append(f[i - 1], ds[i]) ELSE f[i - 1]
  BY DEF Collects
<1>3. 0 \in N
  <2>1. f[0] = <<>>
    BY <1>1, <1>2
  <2>2. Upto(<<>>, ds, S, 0)
    BY DEF Upto, Given, All, InOrder, FirstOf
  <2>. QED  BY <2>1, <2>2
<1>4. ASSUME NEW m \in N PROVE m + 1 \in N
  <2>. SUFFICES ASSUME m + 1 <= Len(ds) PROVE Upto(f[m + 1], ds, S, m + 1)
    OBVIOUS
  <2>1. m \in Nat /\ m <= Len(ds) /\ m + 1 \in 0..Len(ds) /\ m + 1 # 0 /\ (m + 1) - 1 = m
    BY <1>1
  <2>2. Upto(f[m], ds, S, m)
    BY <2>1
  <2>3. f[m + 1] = IF ds[m + 1] \in S THEN Append(f[m], ds[m + 1]) ELSE f[m]
    BY <1>2, <2>1
  <2>. QED  BY <2>1, <2>2, <2>3, UptoNext
<1>5. N \in SUBSET Nat
  OBVIOUS
<1>. HIDE DEF N
<1>6. N = Nat
  BY <1>3, <1>4, <1>5, AllNaturals
<1>. QED  BY <1>1, <1>6 DEF N

LEMMA ThoseAre ==
    ASSUME NEW ds \in Seq(Dirs), NEW S
    PROVE  Upto(P!Those(ds, S), ds, S, Len(ds))
<1>. DEFINE f == CHOOSE g : Collects(g, ds, S, Len(ds))
<1>1. P!Those(ds, S) = f[Len(ds)]
  BY DEF P!Those, Collects
<1>2. Len(ds) \in Nat
  OBVIOUS
<1>3. Collects(f, ds, S, Len(ds))
  BY <1>2, SomeCollects
<1>. HIDE DEF f
<1>. QED  BY <1>1, <1>3, CollectsUpto

Texts == {"none", "theirs", "ours"}
UnionRow ==
    [pc : {"idle", "materialize", "scan", "list", "drop", "link", "refresh", "written", "failed", "done"},
     by : {"", "materialize", "scan"}, dirs : Orders \cup {<<>>}, todo : SUBSET Entries,
     want : SUBSET (Entries \X Dirs), at : Entries \cup {""}]

PluginTyped ==
    /\ dirs \in Orders /\ user \in [Dirs -> [Entries -> Texts]]
    /\ hooked \subseteq Dirs /\ shipped \subseteq Entries
    /\ entry \in [Entries -> Dirs \cup {"none", "real"}]
    /\ hooks \in Seq(Dirs) /\ cache \in [Entries -> Texts]
    /\ union \in [Procs -> UnionRow] /\ changes \in 0..PluginChanges /\ alone \subseteq Procs

\* While a command has the directory to itself, no other is under way.
Lone == \A p \in alone : \A r \in Procs : r # p => ~P!UnderWay(r) /\ r \notin alone

\* The link that an entry is to be.
Right(n) == P!First(dirs, n)

\* An entry that is qilla's own is not to be linked, one that is not there is to be if a
\* directory has it, and one that is linked is, if it is judged, right.
Sorted(p, n, judged) ==
    \A d \in Dirs : <<n, d>> \in union[p].want <=>
                    d = Right(n) /\ (entry[n] = "none" \/ (entry[n] \in Dirs /\ ~judged))
Linked(p, n, judged) == entry[n] \in Dirs /\ judged => entry[n] = Right(n)

Current == \A n \in Entries : entry[n] # "real" => entry[n] = Right(n)

\* How far a command has come that has the directory to itself.
Phase(p) ==
    /\ union[p].pc \in {"materialize", "scan", "list", "drop", "link", "refresh"} => union[p].dirs = dirs
    /\ union[p].pc \in {"materialize", "scan", "list"} => union[p].at = ""
    /\ union[p].pc = "materialize" => union[p].todo \subseteq shipped
    /\ union[p].pc = "failed" => \E n \in shipped : entry[n] \in Dirs
    /\ union[p].pc = "list" => \A n \in Entries : Sorted(p, n, FALSE)
    /\ union[p].pc = "drop" =>
         /\ \A n \in Entries : Sorted(p, n, n \notin union[p].todo) /\ Linked(p, n, n \notin union[p].todo)
         /\ union[p].at # "" => union[p].at \in union[p].todo /\ entry[union[p].at] \in Dirs
    /\ union[p].pc = "link" => \A n \in Entries : Sorted(p, n, TRUE) /\ Linked(p, n, TRUE)
    /\ union[p].pc \in {"refresh", "written", "done"} => Current /\ hooks = P!Those(dirs, hooked)
    /\ union[p].pc = "done" => \A n \in Entries : cache[n] = P!Text(n)

PluginInv == PluginTyped /\ Lone /\ \A p \in alone : Phase(p)

LEMMA PluginStarts == ASSUME P!Init PROVE PluginInv
<1>1. PluginChanges \in Nat /\ Orders \subseteq Seq(Dirs)
  BY PluginAssumption
<1>2. P!Idle \in UnionRow
  BY DEF P!Idle, UnionRow
<1>3. union \in [Procs -> UnionRow]
  BY <1>2 DEF P!Init
<1>4. changes = 0 /\ alone = {}
  BY DEF P!Init
<1>5. user \in [Dirs -> [Entries -> Texts]] /\ entry \in [Entries -> Dirs \cup {"none", "real"}]
      /\ cache \in [Entries -> Texts]
  BY DEF P!Init, Texts
<1>6. dirs \in Orders /\ hooked = {} /\ shipped = {} /\ hooks = <<>>
  BY DEF P!Init
<1>7. PluginTyped
  BY <1>1, <1>3, <1>4, <1>5, <1>6 DEF PluginTyped
<1>. QED  BY <1>4, <1>7 DEF PluginInv, Lone

\* The first directory that has an entry, if one does.
LEMMA FirstIs ==
    ASSUME PluginTyped, NEW n \in Entries, NEW ds \in Seq(Dirs)
    PROVE  /\ P!First(ds, n) \in Dirs \cup {"none"} /\ "none" \notin Dirs /\ "real" \notin Dirs
           /\ P!First(ds, n) = "none" <=> \A i \in 1..Len(ds) : ~P!Has(ds[i], n)
           /\ P!First(ds, n) # "none" =>
                \E k \in 1..Len(ds) : /\ P!First(ds, n) = ds[k] /\ P!Has(ds[k], n)
                                      /\ \A j \in 1..(k - 1) : ~P!Has(ds[j], n)
<1>. DEFINE S == {d \in Dirs : P!Has(d, n)}
            t == P!Those(ds, S)
<1>0. "none" \notin Dirs /\ "real" \notin Dirs
  BY PluginAssumption
<1>1. P!First(ds, n) = IF t = <<>> THEN "none" ELSE Head(t)
  BY DEF P!First
<1>2. Upto(t, ds, S, Len(ds))
  BY ThoseAre
<1>3. \A i \in 1..Len(ds) : ds[i] \in Dirs
  OBVIOUS
<1>4. \A i \in 1..Len(ds) : ds[i] \in S <=> P!Has(ds[i], n)
  BY <1>3
<1>. HIDE DEF t, S
<1>5. t \in Seq(Dirs)
  BY <1>2 DEF Upto
<1>6. CASE t = <<>>
  <2>1. ~\E i \in 1..Len(t) : TRUE
    BY <1>6
  <2>2. \A k \in 1..Len(ds) : ds[k] \notin S
    BY <1>2, <2>1 DEF Upto, All
  <2>. QED  BY <1>0, <1>1, <1>4, <1>6, <2>2
<1>7. CASE t # <<>>
  <2>1. Len(t) > 0 /\ Head(t) = t[1]
    BY <1>5, <1>7, EmptySeq
  <2>2. PICK k \in 1..Len(ds) : t[1] = ds[k] /\ ds[k] \in S /\ \A j \in 1..(k - 1) : ds[j] \notin S
    BY <1>2, <2>1 DEF Upto, FirstOf
  <2>3. \A j \in 1..(k - 1) : j \in 1..Len(ds)
    OBVIOUS
  <2>4. P!First(ds, n) = ds[k] /\ ds[k] \in Dirs /\ P!Has(ds[k], n)
        /\ \A j \in 1..(k - 1) : ~P!Has(ds[j], n)
    BY <1>1, <1>3, <1>4, <1>7, <2>1, <2>2, <2>3
  <2>. QED  BY <1>0, <2>4
<1>. QED  BY <1>6, <1>7

\* What a step of a command under way leaves to show.
LEMMA MoverKeeps ==
    ASSUME PluginInv, NEW p \in Procs, P!UnderWay(p), UNCHANGED <<dirs, hooked, shipped, changes, alone>>,
           user' \in [Dirs -> [Entries -> Texts]], entry' \in [Entries -> Dirs \cup {"none", "real"}],
           hooks' \in Seq(Dirs), cache' \in [Entries -> Texts],
           union'[p] \in UnionRow, union' = [union EXCEPT ![p] = union'[p]],
           p \in alone => Phase(p)'
    PROVE  PluginInv'
<1>1. union' \in [Procs -> UnionRow] /\ \A r \in Procs : r # p => union'[r] = union[r]
  BY DEF PluginInv, PluginTyped
<1>2. PluginTyped'
  BY <1>1 DEF PluginInv, PluginTyped
<1>3. \A q \in alone : q = p
  BY DEF PluginInv, Lone
<1>4. Lone'
  <2>1. \A r \in Procs : r # p => (P!UnderWay(r)' <=> P!UnderWay(r))
    BY <1>1 DEF P!UnderWay
  <2>. QED  BY <1>3, <2>1 DEF PluginInv, Lone
<1>5. \A q \in alone' : Phase(q)'
  BY <1>3
<1>. QED  BY <1>2, <1>4, <1>5 DEF PluginInv

LEMMA UnionStart ==
    ASSUME PluginInv, NEW p \in Procs, NEW pc \in {"materialize", "scan"}, P!Start(p, pc)
    PROVE  PluginInv'
<1>1. /\ ~P!UnderWay(p)
      /\ union' = [union EXCEPT ![p] = [P!Idle EXCEPT !.pc = pc, !.by = pc, !.dirs = dirs,
                                           !.todo = IF pc = "materialize" THEN shipped ELSE {}]]
      /\ alone' = IF \A r \in Procs : ~P!UnderWay(r) THEN {p} ELSE {}
      /\ UNCHANGED <<dirs, user, hooked, shipped, changes, entry, hooks, cache>>
  BY DEF P!Start, P!given, P!plugin
<1>2. /\ union'[p] \in UnionRow /\ union'[p].pc = pc /\ union'[p].dirs = dirs /\ union'[p].todo \subseteq shipped
      /\ union'[p].at = "" /\ union' = [union EXCEPT ![p] = union'[p]]
  <2>1. union \in [Procs -> UnionRow] /\ dirs \in Orders /\ shipped \subseteq Entries
    BY DEF PluginInv, PluginTyped
  <2>. DEFINE r == [P!Idle EXCEPT !.pc = pc, !.by = pc, !.dirs = dirs,
                                  !.todo = IF pc = "materialize" THEN shipped ELSE {}]
  <2>2. r \in UnionRow /\ r.pc = pc /\ r.dirs = dirs /\ r.todo \subseteq shipped /\ r.at = ""
    BY <2>1 DEF P!Idle, UnionRow
  <2>3. union' = [union EXCEPT ![p] = r]
    BY <1>1
  <2>. HIDE DEF r
  <2>. QED  BY <2>1, <2>2, <2>3
<1>3. union' \in [Procs -> UnionRow] /\ \A r \in Procs : r # p => union'[r] = union[r]
  BY <1>2 DEF PluginInv, PluginTyped
<1>4. PluginTyped'
  BY <1>1, <1>3 DEF PluginInv, PluginTyped
<1>5. Lone'
  <2>1. \A r \in Procs : r # p => (P!UnderWay(r)' <=> P!UnderWay(r))
    BY <1>3 DEF P!UnderWay
  <2>2. CASE \A r \in Procs : ~P!UnderWay(r)
    BY <1>1, <2>1, <2>2 DEF Lone
  <2>3. CASE ~ \A r \in Procs : ~P!UnderWay(r)
    BY <1>1, <2>3 DEF Lone
  <2>. QED  BY <2>2, <2>3
<1>6. Phase(p)'
  BY <1>1, <1>2 DEF Phase
<1>7. alone' \subseteq {p}
  BY <1>1
<1>. QED  BY <1>4, <1>5, <1>6, <1>7 DEF PluginInv

LEMMA RowOf == ASSUME PluginInv, NEW p \in Procs
    PROVE  union[p] \in UnionRow /\ union \in [Procs -> UnionRow] /\ user \in [Dirs -> [Entries -> Texts]]
           /\ entry \in [Entries -> Dirs \cup {"none", "real"}] /\ hooks \in Seq(Dirs)
           /\ cache \in [Entries -> Texts] /\ dirs \in Orders /\ "none" \notin Dirs /\ "real" \notin Dirs
BY PluginAssumption DEF PluginInv, PluginTyped

\* An entry is right as long as the directories have what they had.
LEMMA RightStays == ASSUME UNCHANGED <<dirs, user>> PROVE \A n \in Entries : Right(n)' = Right(n)
BY DEF Right, P!First, P!Has, P!Those

\* The row that Goes leaves.
LEMMA GoesIs ==
    ASSUME PluginInv, NEW p \in Procs,
           NEW pc \in {"idle", "scan", "refresh", "failed"}, P!Goes(p, pc)
    PROVE  /\ union'[p] \in UnionRow /\ union' = [union EXCEPT ![p] = union'[p]]
           /\ union'[p].pc = pc /\ union'[p].dirs = union[p].dirs /\ union'[p].at = ""
<1>. DEFINE r == [P!Idle EXCEPT !.pc = pc, !.by = union[p].by, !.dirs = union[p].dirs]
<1>1. union' = [union EXCEPT ![p] = r]
  BY DEF P!Goes
<1>2. r \in UnionRow /\ r.pc = pc /\ r.dirs = union[p].dirs /\ r.at = ""
  BY RowOf DEF P!Idle, UnionRow
<1>. HIDE DEF r
<1>. QED  BY <1>1, <1>2, RowOf

LEMMA MaterializeKeeps ==
    ASSUME PluginInv, NEW p \in Procs, NEW n \in Entries, P!Materialize(p, n)
    PROVE  PluginInv'
<1>1. /\ union[p].pc = "materialize" /\ n \in union[p].todo /\ P!UnderWay(p)
      /\ UNCHANGED <<dirs, hooked, shipped, changes, hooks, cache, alone>>
  BY DEF P!Materialize, P!UnderWay
<1>2. CASE entry[n] \in Dirs /\ ~P!Has(entry[n], n)
  <2>1. P!Goes(p, "failed") /\ UNCHANGED <<entry, user>>
    BY <1>2 DEF P!Materialize
  <2>2. union'[p] \in UnionRow /\ union' = [union EXCEPT ![p] = union'[p]] /\ union'[p].pc = "failed"
    BY <2>1, GoesIs
  <2>3. p \in alone => Phase(p)'
    <3>1. p \in alone => n \in shipped
      BY <1>1 DEF PluginInv, Phase
    <3>. QED  BY <1>1, <1>2, <2>1, <2>2, <3>1 DEF Phase
  <2>. QED  BY <1>1, <2>1, <2>2, <2>3, RowOf, MoverKeeps
<1>3. CASE ~(entry[n] \in Dirs /\ ~P!Has(entry[n], n))
  <2>1. /\ union' = [union EXCEPT ![p] = [union[p] EXCEPT !.todo = union[p].todo \ {n}]]
        /\ IF entry[n] \in Dirs
           THEN user' = [user EXCEPT ![entry[n]] = [user[entry[n]] EXCEPT ![n] = "ours"]] /\ UNCHANGED entry
           ELSE entry' = [entry EXCEPT ![n] = "real"] /\ UNCHANGED user
    BY <1>3 DEF P!Materialize
  <2>2. user' \in [Dirs -> [Entries -> Texts]] /\ entry' \in [Entries -> Dirs \cup {"none", "real"}]
    BY <2>1, RowOf DEF Texts
  <2>3. union'[p] \in UnionRow /\ union' = [union EXCEPT ![p] = union'[p]]
        /\ union'[p].pc = "materialize" /\ union'[p].dirs = union[p].dirs /\ union'[p].at = union[p].at
        /\ union'[p].todo \subseteq union[p].todo
    <3>. DEFINE r == [union[p] EXCEPT !.todo = union[p].todo \ {n}]
    <3>1. r \in UnionRow /\ r.pc = union[p].pc /\ r.dirs = union[p].dirs /\ r.at = union[p].at
          /\ r.todo \subseteq union[p].todo
      BY RowOf DEF UnionRow
    <3>2. union' = [union EXCEPT ![p] = r]
      BY <2>1
    <3>. HIDE DEF r
    <3>. QED  BY <1>1, <3>1, <3>2, RowOf
  <2>4. p \in alone => Phase(p)'
    BY <1>1, <2>3 DEF PluginInv, Phase
  <2>. QED  BY <1>1, <2>2, <2>3, <2>4, RowOf, MoverKeeps
<1>. QED  BY <1>2, <1>3

LEMMA ScanKeeps ==
    ASSUME PluginInv, NEW p \in Procs, P!Materialized(p) \/ P!Scan(p) \/ P!List(p) \/ P!Dropped(p)
    PROVE  PluginInv'
<1>1. /\ P!UnderWay(p)
      /\ UNCHANGED <<dirs, user, hooked, shipped, changes, entry, hooks, cache, alone>>
  BY DEF P!Materialized, P!Scan, P!List, P!Dropped, P!UnderWay, P!given, P!plugin
<1>2. /\ union'[p] \in UnionRow /\ union' = [union EXCEPT ![p] = union'[p]]
      /\ p \in alone => Phase(p)'
  <2>1. CASE P!Materialized(p)
    <3>1. union[p].pc = "materialize" /\ P!Goes(p, "scan")
      BY <2>1 DEF P!Materialized
    <3>2. union'[p] \in UnionRow /\ union' = [union EXCEPT ![p] = union'[p]]
          /\ union'[p].pc = "scan" /\ union'[p].dirs = union[p].dirs /\ union'[p].at = ""
      BY <3>1, GoesIs
    <3>. QED  BY <1>1, <3>1, <3>2 DEF PluginInv, Phase
  <2>2. CASE P!Scan(p)
    <3>. DEFINE W == {<<n, P!First(union[p].dirs, n)>> :
                        n \in {m \in Entries : entry[m] # "real" /\ P!First(union[p].dirs, m) # "none"}}
                r == [union[p] EXCEPT !.pc = "list", !.want = W]
    <3>1. union[p].pc = "scan" /\ union' = [union EXCEPT ![p] = r]
      BY <2>2 DEF P!Scan
    <3>2. W \subseteq Entries \X Dirs
      <4>1. union[p].dirs \in Seq(Dirs)
        <5>1. union[p].dirs \in Orders \cup {<<>>}
          BY RowOf DEF UnionRow
        <5>2. Orders \subseteq Seq(Dirs)
          BY PluginAssumption
        <5>3. <<>> \in Seq(Dirs)
          OBVIOUS
        <5>. QED  BY <5>1, <5>2, <5>3
      <4>2. \A n \in Entries : P!First(union[p].dirs, n) \in Dirs \cup {"none"}
        BY <4>1, FirstIs DEF PluginInv
      <4>. QED  BY <4>2
    <3>3. r \in UnionRow /\ r.pc = "list" /\ r.dirs = union[p].dirs /\ r.want = W
          /\ r.at = union[p].at
      BY <3>2, RowOf DEF UnionRow
    <3>4. p \in alone => \A n \in Entries, d \in Dirs :
            <<n, d>> \in W <=> d = Right(n) /\ (entry[n] = "none" \/ (entry[n] \in Dirs /\ ~FALSE))
      <4>1. p \in alone => union[p].dirs = dirs
        BY <3>1 DEF PluginInv, Phase
      <4>2. "none" \notin Dirs /\ "real" \notin Dirs
            /\ \A n \in Entries : entry[n] \in Dirs \cup {"none", "real"}
        BY RowOf
      <4>. QED  BY <4>1, <4>2 DEF Right
    <3>. HIDE DEF W, r
    <3>5. union'[p] = r /\ union' = [union EXCEPT ![p] = union'[p]]
      BY <3>1, RowOf
    <3>6. p \in alone => \A n \in Entries : Sorted(p, n, FALSE)'
      BY <1>1, <3>3, <3>4, <3>5, RightStays DEF Sorted
    <3>7. p \in alone => union[p].dirs = dirs /\ union[p].at = ""
      BY <3>1 DEF PluginInv, Phase
    <3>. QED  BY <1>1, <3>3, <3>5, <3>6, <3>7 DEF Phase
  <2>3. CASE P!List(p)
    <3>. DEFINE left == {n \in Entries : entry[n] # "none"}
                r == [union[p] EXCEPT !.pc = "drop", !.todo = left]
    <3>1. union[p].pc = "list" /\ union' = [union EXCEPT ![p] = r]
      BY <2>3 DEF P!List
    <3>2. r \in UnionRow /\ r.pc = "drop" /\ r.dirs = union[p].dirs /\ r.want = union[p].want
          /\ r.todo = left /\ r.at = union[p].at
      BY RowOf DEF UnionRow
    <3>. HIDE DEF r
    <3>3. union'[p] = r /\ union' = [union EXCEPT ![p] = union'[p]]
      BY <3>1, RowOf
    <3>4. p \in alone => union[p].dirs = dirs /\ union[p].at = "" /\ \A n \in Entries : Sorted(p, n, FALSE)
      BY <3>1 DEF PluginInv, Phase
    <3>5. ASSUME p \in alone, NEW n \in Entries
          PROVE  Sorted(p, n, n \notin union[p].todo)' /\ Linked(p, n, n \notin union[p].todo)'
      <4>1. Right(n)' = Right(n)
        BY <1>1, RightStays
      <4>2. entry[n] \in Dirs => n \in left
        BY RowOf
      <4>. QED  BY <1>1, <3>2, <3>3, <3>4, <3>5, <4>1, <4>2 DEF Sorted, Linked
    <3>. QED  BY <1>1, <3>2, <3>3, <3>4, <3>5 DEF Phase
  <2>4. CASE P!Dropped(p)
    <3>. DEFINE r == [union[p] EXCEPT !.pc = "link"]
    <3>1. union[p].pc = "drop" /\ union[p].todo = {} /\ union' = [union EXCEPT ![p] = r]
      BY <2>4 DEF P!Dropped
    <3>2. r \in UnionRow /\ r.pc = "link" /\ r.dirs = union[p].dirs /\ r.want = union[p].want
          /\ r.at = union[p].at
      BY RowOf DEF UnionRow
    <3>. HIDE DEF r
    <3>3. union'[p] = r /\ union' = [union EXCEPT ![p] = union'[p]]
      BY <3>1, RowOf
    <3>4. p \in alone => union[p].dirs = dirs
            /\ \A n \in Entries : Sorted(p, n, n \notin union[p].todo) /\ Linked(p, n, n \notin union[p].todo)
      BY <3>1 DEF PluginInv, Phase
    <3>5. ASSUME p \in alone, NEW n \in Entries
          PROVE  Sorted(p, n, TRUE)' /\ Linked(p, n, TRUE)'
      <4>1. Right(n)' = Right(n)
        BY <1>1, RightStays
      <4>2. n \notin union[p].todo
        BY <3>1
      <4>. QED  BY <1>1, <3>2, <3>3, <3>4, <3>5, <4>1, <4>2 DEF Sorted, Linked
    <3>. QED  BY <1>1, <3>2, <3>3, <3>4, <3>5 DEF Phase
  <2>. QED  BY <2>1, <2>2, <2>3, <2>4
<1>. QED  BY <1>1, <1>2, RowOf, MoverKeeps

\* A link that leads where it is to is kept, any other is removed.
LEMMA JudgeKeeps ==
    ASSUME PluginInv, NEW p \in Procs, NEW n \in Entries, P!Judge(p, n) PROVE PluginInv'
<1>. DEFINE r == IF entry[n] \notin Dirs THEN [union[p] EXCEPT !.todo = union[p].todo \ {n}]
                 ELSE IF P!Correct(p, n)
                      THEN [union[p] EXCEPT !.todo = union[p].todo \ {n},
                                            !.want = {w \in union[p].want : w[1] # n}]
                      ELSE [union[p] EXCEPT !.at = n]
<1>1. /\ union[p].pc = "drop" /\ union[p].at = "" /\ n \in union[p].todo /\ P!UnderWay(p)
      /\ union' = [union EXCEPT ![p] = r]
      /\ UNCHANGED <<dirs, user, hooked, shipped, changes, entry, hooks, cache, alone>>
  <2>1. union[p].pc = "drop" /\ union[p].at = "" /\ n \in union[p].todo /\ P!UnderWay(p)
    BY DEF P!Judge, P!UnderWay
  <2>2. union' = [union EXCEPT ![p] = r]
    BY DEF P!Judge
  <2>3. UNCHANGED <<dirs, user, hooked, shipped, changes, entry, hooks, cache, alone>>
    BY DEF P!Judge, P!given, P!plugin
  <2>. QED  BY <2>1, <2>2, <2>3
<1>2. r \in UnionRow /\ r.pc = "drop" /\ r.dirs = union[p].dirs
      /\ r.todo = (IF entry[n] \notin Dirs \/ P!Correct(p, n) THEN union[p].todo \ {n} ELSE union[p].todo)
      /\ r.want = (IF entry[n] \in Dirs /\ P!Correct(p, n) THEN {w \in union[p].want : w[1] # n}
                   ELSE union[p].want)
      /\ r.at = (IF entry[n] \in Dirs /\ ~P!Correct(p, n) THEN n ELSE "")
  <2>1. union[p] \in UnionRow
    BY RowOf
  <2>2. CASE entry[n] \notin Dirs
    BY <1>1, <2>1, <2>2 DEF UnionRow
  <2>3. CASE entry[n] \in Dirs /\ P!Correct(p, n)
    <3>1. {w \in union[p].want : w[1] # n} \subseteq Entries \X Dirs
      BY <2>1 DEF UnionRow
    <3>. QED  BY <1>1, <2>1, <2>3, <3>1 DEF UnionRow
  <2>4. CASE entry[n] \in Dirs /\ ~P!Correct(p, n)
    BY <1>1, <2>1, <2>4 DEF UnionRow
  <2>. QED  BY <2>2, <2>3, <2>4
<1>. HIDE DEF r
<1>3. union'[p] = r /\ union' = [union EXCEPT ![p] = union'[p]]
  BY <1>1, RowOf
<1>4. ASSUME p \in alone PROVE Phase(p)'
  <2>1. /\ union[p].dirs = dirs
        /\ \A m \in Entries : Sorted(p, m, m \notin union[p].todo) /\ Linked(p, m, m \notin union[p].todo)
    BY <1>1, <1>4 DEF PluginInv, Phase
  <2>2. \A m \in Entries : entry[m] \in Dirs \cup {"none", "real"}
    BY RowOf
  <2>3. P!Correct(p, n) => <<n, entry[n]>> \in union[p].want
    BY DEF P!Correct
  <2>4. ASSUME NEW m \in Entries
        PROVE  Sorted(p, m, m \notin union[p].todo)' /\ Linked(p, m, m \notin union[p].todo)'
    <3>1. Right(m)' = Right(m)
      BY <1>1, RightStays
    <3>2. Sorted(p, m, m \notin union[p].todo) /\ Linked(p, m, m \notin union[p].todo)
      BY <2>1
    <3>3. CASE m # n
      <4>1. (m \in r.todo <=> m \in union[p].todo)
        BY <1>2, <3>3
      <4>2. \A d \in Dirs : <<m, d>> \in r.want <=> <<m, d>> \in union[p].want
        BY <1>2, <3>3
      <4>. QED  BY <1>1, <1>3, <3>1, <3>2, <4>1, <4>2 DEF Sorted, Linked
    <3>4. CASE m = n /\ entry[n] \notin Dirs
      <4>1. \A d \in Dirs : <<m, d>> \in r.want <=> <<m, d>> \in union[p].want
        BY <1>2, <3>4
      <4>. QED  BY <1>1, <1>3, <3>1, <3>2, <3>4, <4>1 DEF Sorted, Linked
    <3>5. CASE m = n /\ entry[n] \in Dirs /\ P!Correct(p, n)
      <4>1. entry[n] = Right(n)
        BY <1>1, <2>3, <3>2, <3>5 DEF Sorted
      <4>2. \A d \in Dirs : <<m, d>> \notin r.want
        <5>1. r.want = {w \in union[p].want : w[1] # n}
          BY <1>2, <3>5
        <5>. QED  BY <3>5, <5>1
      <4>3. m \notin r.todo
        BY <1>2, <3>5
      <4>4. entry[m] # "none"
        BY <3>5, RowOf
      <4>5. Sorted(p, m, m \notin union[p].todo)'
        BY <1>1, <1>3, <4>2, <4>3, <4>4 DEF Sorted
      <4>6. Linked(p, m, m \notin union[p].todo)'
        BY <1>1, <3>1, <3>5, <4>1 DEF Linked
      <4>. QED  BY <4>5, <4>6
    <3>6. CASE m = n /\ entry[n] \in Dirs /\ ~P!Correct(p, n)
      <4>1. r.want = union[p].want /\ r.todo = union[p].todo
        BY <1>2, <3>6
      <4>. QED  BY <1>1, <1>3, <3>1, <3>2, <4>1 DEF Sorted, Linked
    <3>. QED  BY <3>3, <3>4, <3>5, <3>6
  <2>5. r.at # "" => r.at \in r.todo /\ entry[r.at] \in Dirs
    BY <1>1, <1>2
  <2>. QED  BY <1>1, <1>2, <1>3, <2>1, <2>4, <2>5 DEF Phase
<1>. QED  BY <1>1, <1>2, <1>3, <1>4, RowOf, MoverKeeps

LEMMA RemoveLinkKeeps ==
    ASSUME PluginInv, NEW p \in Procs, P!RemoveLink(p) PROVE PluginInv'
<1>1. /\ union[p].pc = "drop" /\ union[p].at # "" /\ P!UnderWay(p)
      /\ UNCHANGED <<dirs, user, hooked, shipped, changes, hooks, cache, alone>>
  BY DEF P!RemoveLink, P!UnderWay, P!given
<1>2. union[p].at \in Entries
  BY <1>1, RowOf DEF UnionRow
<1>3. CASE entry[union[p].at] = "none"
  <2>1. P!Goes(p, "failed") /\ UNCHANGED entry
    BY <1>3 DEF P!RemoveLink
  <2>2. union'[p] \in UnionRow /\ union' = [union EXCEPT ![p] = union'[p]]
    BY <2>1, GoesIs
  <2>3. p \notin alone
    <3>1. p \in alone => entry[union[p].at] \in Dirs
      BY <1>1 DEF PluginInv, Phase
    <3>. QED  BY <1>3, <3>1, RowOf
  <2>. QED  BY <1>1, <2>1, <2>2, <2>3, RowOf, MoverKeeps
<1>4. CASE entry[union[p].at] # "none"
  <2>. DEFINE n == union[p].at
              r == [union[p] EXCEPT !.todo = union[p].todo \ {n}, !.at = ""]
  <2>1. entry' = [entry EXCEPT ![n] = "none"] /\ union' = [union EXCEPT ![p] = r]
    BY <1>4 DEF P!RemoveLink
  <2>2. r \in UnionRow /\ r.pc = union[p].pc /\ r.dirs = union[p].dirs /\ r.want = union[p].want
        /\ r.todo = union[p].todo \ {n} /\ r.at = ""
    BY RowOf DEF UnionRow
  <2>. HIDE DEF r
  <2>3. union'[p] = r /\ union' = [union EXCEPT ![p] = union'[p]]
    BY <2>1, RowOf
  <2>4. entry' \in [Entries -> Dirs \cup {"none", "real"}]
        /\ \A m \in Entries : entry'[m] = IF m = n THEN "none" ELSE entry[m]
    BY <1>2, <2>1, RowOf
  <2>5. ASSUME p \in alone PROVE Phase(p)'
    <3>1. /\ union[p].dirs = dirs /\ n \in union[p].todo /\ entry[n] \in Dirs
          /\ \A m \in Entries : Sorted(p, m, m \notin union[p].todo) /\ Linked(p, m, m \notin union[p].todo)
      BY <1>1, <2>5 DEF PluginInv, Phase
    <3>. HIDE DEF n
    <3>2. n \in Entries
      BY <1>2 DEF n
    <3>3. ASSUME NEW m \in Entries
          PROVE  Sorted(p, m, m \notin union[p].todo)' /\ Linked(p, m, m \notin union[p].todo)'
      <4>1. Right(m)' = Right(m)
        BY <1>1, RightStays
      <4>2. Sorted(p, m, m \notin union[p].todo) /\ Linked(p, m, m \notin union[p].todo)
        BY <3>1
      <4>3. CASE m # n
        <5>1. entry'[m] = entry[m] /\ (m \in r.todo <=> m \in union[p].todo)
          BY <2>2, <2>4, <4>3
        <5>. QED  BY <2>2, <2>3, <4>1, <4>2, <5>1 DEF Sorted, Linked
      <4>4. CASE m = n
        <5>1. entry'[m] = "none" /\ "none" \notin Dirs
          BY <2>4, <4>4, RowOf
        <5>2. \A d \in Dirs : <<m, d>> \in union[p].want <=> d = Right(m)
          BY <3>1, <4>2, <4>4 DEF Sorted
        <5>. QED  BY <2>2, <2>3, <4>1, <5>1, <5>2 DEF Sorted, Linked
      <4>. QED  BY <4>3, <4>4
    <3>. QED  BY <1>1, <2>2, <2>3, <3>1, <3>3 DEF Phase
  <2>. QED  BY <1>1, <2>2, <2>3, <2>4, <2>5, RowOf, MoverKeeps
<1>. QED  BY <1>3, <1>4

LEMMA LinkKeeps ==
    ASSUME PluginInv, NEW p \in Procs, NEW w \in union[p].want, P!Link(p, w) PROVE PluginInv'
<1>1. /\ union[p].pc = "link" /\ P!UnderWay(p)
      /\ UNCHANGED <<dirs, user, hooked, shipped, changes, hooks, cache, alone>>
  BY DEF P!Link, P!UnderWay, P!given
<1>2. PICK n \in Entries, d \in Dirs : w = <<n, d>>
  <2>1. union[p].want \subseteq Entries \X Dirs
    BY RowOf DEF UnionRow
  <2>. QED  BY <2>1
<1>3. p \in alone => /\ union[p].dirs = dirs
                     /\ \A m \in Entries : Sorted(p, m, TRUE) /\ Linked(p, m, TRUE)
  BY <1>1 DEF PluginInv, Phase
<1>4. CASE entry[n] # "none"
  <2>1. P!Goes(p, "failed") /\ UNCHANGED entry
    BY <1>2, <1>4 DEF P!Link
  <2>2. union'[p] \in UnionRow /\ union' = [union EXCEPT ![p] = union'[p]]
    BY <2>1, GoesIs
  <2>3. p \notin alone
    BY <1>2, <1>3, <1>4 DEF Sorted
  <2>. QED  BY <1>1, <2>1, <2>2, <2>3, RowOf, MoverKeeps
<1>5. CASE entry[n] = "none"
  <2>. DEFINE r == [union[p] EXCEPT !.want = union[p].want \ {w}]
  <2>1. entry' = [entry EXCEPT ![n] = d] /\ union' = [union EXCEPT ![p] = r]
    BY <1>2, <1>5 DEF P!Link
  <2>2. r \in UnionRow /\ r.pc = union[p].pc /\ r.dirs = union[p].dirs /\ r.want = union[p].want \ {w}
    BY RowOf DEF UnionRow
  <2>. HIDE DEF r
  <2>3. union'[p] = r /\ union' = [union EXCEPT ![p] = union'[p]]
    BY <2>1, RowOf
  <2>4. entry' \in [Entries -> Dirs \cup {"none", "real"}]
        /\ \A m \in Entries : entry'[m] = IF m = n THEN d ELSE entry[m]
    BY <2>1, RowOf
  <2>5. ASSUME p \in alone PROVE Phase(p)'
    <3>1. ASSUME NEW m \in Entries PROVE Sorted(p, m, TRUE)' /\ Linked(p, m, TRUE)'
      <4>1. Right(m)' = Right(m)
        BY <1>1, RightStays
      <4>2. Sorted(p, m, TRUE) /\ Linked(p, m, TRUE)
        BY <1>3, <2>5
      <4>3. CASE m # n
        <5>1. entry'[m] = entry[m]
          BY <2>4, <4>3
        <5>2. \A e \in Dirs : <<m, e>> \in r.want <=> <<m, e>> \in union[p].want
          BY <1>2, <2>2, <4>3
        <5>. QED  BY <2>3, <4>1, <4>2, <5>1, <5>2 DEF Sorted, Linked
      <4>4. CASE m = n
        <5>1. entry'[m] = d /\ d # "none"
          BY <2>4, <4>4, RowOf
        <5>2. d = Right(m) /\ \A e \in Dirs : <<m, e>> \in union[p].want => e = d
          BY <1>2, <4>2, <4>4 DEF Sorted
        <5>3. \A e \in Dirs : <<m, e>> \notin r.want
          BY <1>2, <2>2, <4>4, <5>2
        <5>. QED  BY <2>3, <4>1, <5>1, <5>2, <5>3 DEF Sorted, Linked
      <4>. QED  BY <4>3, <4>4
    <3>. QED  BY <1>1, <1>3, <2>2, <2>3, <2>5, <3>1 DEF Phase
  <2>. QED  BY <1>1, <2>2, <2>3, <2>4, <2>5, RowOf, MoverKeeps
<1>. QED  BY <1>4, <1>5

\* The hooks; and the copy, in which every link leads somewhere.
LEMMA MergeKeeps ==
    ASSUME PluginInv, NEW p \in Procs, P!MergeHooks(p) PROVE PluginInv'
<1>1. /\ union[p].pc = "link" /\ union[p].want = {} /\ P!UnderWay(p) /\ P!Goes(p, "refresh")
      /\ hooks' = P!Those(union[p].dirs, hooked)
      /\ UNCHANGED <<dirs, user, hooked, shipped, changes, entry, cache, alone>>
  BY DEF P!MergeHooks, P!UnderWay, P!given
<1>2. union'[p] \in UnionRow /\ union' = [union EXCEPT ![p] = union'[p]]
      /\ union'[p].pc = "refresh" /\ union'[p].dirs = union[p].dirs
  BY <1>1, GoesIs
<1>3. union[p].dirs \in Seq(Dirs) /\ dirs \in Seq(Dirs)
  <2>1. union[p].dirs \in Orders \cup {<<>>} /\ dirs \in Orders
    BY RowOf DEF UnionRow
  <2>2. Orders \subseteq Seq(Dirs)
    BY PluginAssumption
  <2>3. <<>> \in Seq(Dirs)
    OBVIOUS
  <2>. QED  BY <2>1, <2>2, <2>3
<1>4. hooks' \in Seq(Dirs)
  BY <1>1, <1>3, ThoseAre DEF Upto
<1>5. ASSUME p \in alone PROVE Phase(p)'
  <2>1. union[p].dirs = dirs /\ \A m \in Entries : Sorted(p, m, TRUE) /\ Linked(p, m, TRUE)
    BY <1>1, <1>5 DEF PluginInv, Phase
  <2>2. ASSUME NEW n \in Entries, entry[n] # "real" PROVE entry[n] = Right(n)
    <3>1. entry[n] \in Dirs \cup {"none"}
      BY <2>2, RowOf
    <3>2. Right(n) \in Dirs \cup {"none"}
      BY <1>3, FirstIs DEF PluginInv, Right
    <3>. QED  BY <1>1, <2>1, <3>1, <3>2 DEF Sorted, Linked
  <2>3. \A n \in Entries : Right(n)' = Right(n)
    BY <1>1, RightStays
  <2>4. Current'
    BY <1>1, <2>2, <2>3 DEF Current
  <2>5. hooks' = P!Those(dirs, hooked)'
    BY <1>1, <2>1 DEF P!Those
  <2>. QED  BY <1>1, <1>2, <2>1, <2>4, <2>5 DEF Phase
<1>. QED  BY <1>1, <1>2, <1>4, <1>5, RowOf, MoverKeeps

LEMMA RefreshKeeps ==
    ASSUME PluginInv, NEW p \in Procs, P!Register(p) \/ P!Refresh(p) \/ P!Dies(p) PROVE PluginInv'
<1>1. /\ P!UnderWay(p)
      /\ UNCHANGED <<dirs, user, hooked, shipped, changes, entry, hooks, alone>>
  BY DEF P!Register, P!Refresh, P!Dies, P!UnderWay, P!given, P!plugin
<1>2. dirs \in Seq(Dirs)
  BY PluginAssumption, RowOf
<1>3. CASE P!Refresh(p)
  <2>. DEFINE pc == IF union[p].pc = "failed" THEN "idle" ELSE "done"
              r == [P!Idle EXCEPT !.pc = pc]
  <2>1. /\ union' = [union EXCEPT ![p] = r]
        /\ cache' = [n \in Entries |-> IF entry[n] # "none" /\ P!Text(n) = "none" THEN cache[n] ELSE P!Text(n)]
        /\ union[p].pc \in {"refresh", "failed"}
    BY <1>3 DEF P!Refresh
  <2>2. r \in UnionRow /\ r.pc = pc
    BY DEF P!Idle, UnionRow
  <2>. HIDE DEF r
  <2>3. union'[p] = r /\ union' = [union EXCEPT ![p] = union'[p]]
    BY <2>1, RowOf
  <2>4. \A n \in Entries : P!Text(n) \in Texts
    BY RowOf DEF P!Text, Texts
  <2>5. cache' \in [Entries -> Texts]
    BY <2>1, <2>4, RowOf
  <2>6. ASSUME p \in alone PROVE Phase(p)'
    <3>1. CASE union[p].pc = "failed"
      BY <2>2, <2>3, <3>1 DEF Phase
    <3>2. CASE union[p].pc = "refresh"
      <4>1. Current /\ hooks = P!Those(dirs, hooked)
        BY <2>6, <3>2 DEF PluginInv, Phase
      <4>2. \A n \in Entries : entry[n] # "none" => P!Text(n) # "none"
        <5>. SUFFICES ASSUME NEW n \in Entries, entry[n] # "none" PROVE P!Text(n) # "none"
          OBVIOUS
        <5>1. CASE entry[n] = "real"
          BY <5>1 DEF P!Text
        <5>2. CASE entry[n] # "real"
          <6>1. entry[n] = P!First(dirs, n)
            BY <4>1, <5>2 DEF Current, Right
          <6>2. P!Has(entry[n], n)
            BY <1>2, <6>1, FirstIs DEF PluginInv
          <6>. QED  BY <5>2, <6>2 DEF P!Text, P!Has
        <5>. QED  BY <5>1, <5>2
      <4>3. \A n \in Entries : cache'[n] = P!Text(n)
        BY <2>1, <4>2
      <4>4. \A n \in Entries : P!Text(n)' = P!Text(n)
        BY <1>1, <1>3 DEF P!Text
      <4>5. \A n \in Entries : Right(n)' = Right(n)
        BY <1>1, RightStays
      <4>6. Current' /\ hooks' = P!Those(dirs, hooked)'
        BY <1>1, <4>1, <4>5 DEF Current, P!Those
      <4>. QED  BY <2>2, <2>3, <3>2, <4>3, <4>4, <4>6 DEF Phase
    <3>. QED  BY <2>1, <3>1, <3>2
  <2>. QED  BY <1>1, <2>2, <2>3, <2>5, <2>6, RowOf, MoverKeeps
<1>4. CASE P!Register(p)
  <2>. DEFINE r == [P!Idle EXCEPT !.pc = "written"]
  <2>1. union[p].pc = "refresh" /\ union' = [union EXCEPT ![p] = r] /\ cache' = cache
    BY <1>4 DEF P!Register, P!plugin
  <2>2. r \in UnionRow /\ r.pc = "written"
    BY DEF P!Idle, UnionRow
  <2>. HIDE DEF r
  <2>3. union'[p] = r /\ union' = [union EXCEPT ![p] = union'[p]]
    BY <2>1, RowOf
  <2>4. ASSUME p \in alone PROVE Phase(p)'
    <3>1. Current /\ hooks = P!Those(dirs, hooked)
      BY <2>1, <2>4 DEF PluginInv, Phase
    <3>2. \A n \in Entries : Right(n)' = Right(n)
      BY <1>1, RightStays
    <3>3. Current' /\ hooks' = P!Those(dirs, hooked)'
      BY <1>1, <3>1, <3>2 DEF Current, P!Those
    <3>. QED  BY <2>2, <2>3, <3>3 DEF Phase
  <2>. QED  BY <1>1, <2>1, <2>2, <2>3, <2>4, RowOf, MoverKeeps
<1>5. CASE P!Dies(p)
  <2>1. union' = [union EXCEPT ![p] = P!Idle] /\ cache' = cache
    BY <1>5 DEF P!Dies, P!plugin
  <2>2. P!Idle \in UnionRow /\ P!Idle.pc = "idle"
    BY DEF P!Idle, UnionRow
  <2>3. union'[p] = P!Idle /\ union' = [union EXCEPT ![p] = union'[p]]
    BY <2>1, RowOf
  <2>4. Phase(p)'
    BY <2>2, <2>3 DEF Phase
  <2>. QED  BY <1>1, <2>1, <2>2, <2>3, <2>4, RowOf, MoverKeeps
<1>. QED  BY <1>3, <1>4, <1>5

LEMMA UserKeeps ==
    ASSUME PluginInv,
           \/ \E d \in Dirs : P!Hook(d) \/ \E n \in Entries : P!Edit(d, n)
           \/ \E o \in Orders : P!Configure(o)
           \/ \E n \in Entries : P!Upgrade(n)
    PROVE  PluginInv'
<1>1. changes < PluginChanges /\ changes' = changes + 1 /\ alone' = {}
      /\ UNCHANGED <<entry, hooks, cache, union>>
  BY DEF P!Hook, P!Edit, P!Configure, P!Upgrade, P!Changed, P!plugin
<1>2. changes' \in 0..PluginChanges
  <2>1. PluginChanges \in Nat
    BY PluginAssumption
  <2>2. changes \in 0..PluginChanges
    BY DEF PluginInv, PluginTyped
  <2>. QED  BY <1>1, <2>1, <2>2
<1>3. dirs' \in Orders /\ hooked' \subseteq Dirs /\ shipped' \subseteq Entries
      /\ user' \in [Dirs -> [Entries -> Texts]]
  <2>1. dirs \in Orders /\ hooked \subseteq Dirs /\ shipped \subseteq Entries
        /\ user \in [Dirs -> [Entries -> Texts]]
    BY DEF PluginInv, PluginTyped
  <2>2. CASE \E d \in Dirs : P!Hook(d)
    BY <2>1, <2>2 DEF P!Hook
  <2>3. CASE \E d \in Dirs, n \in Entries : P!Edit(d, n)
    <3>1. PICK d \in Dirs, n \in Entries : P!Edit(d, n)
      BY <2>3
    <3>2. user' = [user EXCEPT ![d] = [user[d] EXCEPT ![n] =
                      IF user[d][n] = "theirs" THEN "none" ELSE "theirs"]]
          /\ UNCHANGED <<dirs, hooked, shipped>>
      BY <3>1 DEF P!Edit
    <3>3. "none" \in Texts /\ "theirs" \in Texts
      BY DEF Texts
    <3>. QED  BY <2>1, <3>2, <3>3
  <2>4. CASE \E o \in Orders : P!Configure(o)
    BY <2>1, <2>4 DEF P!Configure
  <2>5. CASE \E n \in Entries : P!Upgrade(n)
    BY <2>1, <2>5 DEF P!Upgrade
  <2>. QED  BY <2>2, <2>3, <2>4, <2>5
<1>4. PluginTyped'
  BY <1>1, <1>2, <1>3 DEF PluginInv, PluginTyped
<1>. QED  BY <1>1, <1>4 DEF PluginInv, Lone

LEMMA PluginKeeps == ASSUME PluginInv, [P!Next]_(P!vars) PROVE PluginInv'
<1>1. CASE P!Next
  BY <1>1, UnionStart, MaterializeKeeps, ScanKeeps, JudgeKeeps, RemoveLinkKeeps, LinkKeeps, MergeKeeps,
     RefreshKeeps, UserKeeps DEF P!Next
<1>2. CASE UNCHANGED P!vars
  <2>1. UNCHANGED <<dirs, user, hooked, shipped, entry, hooks, cache, union, changes, alone>>
    BY <1>2 DEF P!vars
  <2>2. PluginTyped' /\ Lone'
    BY <2>1 DEF PluginInv, PluginTyped, Lone, P!UnderWay
  <2>3. ASSUME NEW p \in alone PROVE Phase(p)'
    <3>1. Phase(p)
      BY DEF PluginInv
    <3>2. \A n \in Entries : Right(n)' = Right(n) /\ P!Text(n)' = P!Text(n)
      BY <2>1, RightStays DEF P!Text
    <3>3. P!Those(dirs, hooked)' = P!Those(dirs, hooked)
      BY <2>1 DEF P!Those
    <3>. QED  BY <2>1, <3>1, <3>2, <3>3 DEF Phase, Sorted, Linked, Current
  <2>. QED  BY <2>1, <2>2, <2>3 DEF PluginInv
<1>. QED  BY <1>1, <1>2

LEMMA PluginHolds == ASSUME PluginInv PROVE P!TypeOK /\ P!UnionIsCurrent
<1>1. P!TypeOK
  <2>1. \A p \in Procs : union[p].todo \subseteq Entries
    BY RowOf DEF UnionRow
  <2>2. \A n \in Entries : cache[n] \in {"none", "theirs", "ours"}
    BY DEF PluginInv, PluginTyped, Texts
  <2>. QED  BY <2>1, <2>2 DEF PluginInv, PluginTyped, P!TypeOK
<1>2. dirs \in Seq(Dirs) /\ DOMAIN dirs = 1..Len(dirs) /\ DOMAIN hooks = 1..Len(hooks)
      /\ Len(dirs) \in Nat
  <2>1. dirs \in Seq(Dirs) /\ hooks \in Seq(Dirs)
    BY PluginAssumption DEF PluginInv, PluginTyped
  <2>. QED  BY <2>1
<1>3. \A i \in 1..Len(dirs) : dirs[i] \in Dirs
  BY <1>2
<1>4. ASSUME NEW p \in alone, union[p].pc \in {"written", "done"}, NEW n \in Entries, entry[n] # "real"
      PROVE  entry[n] = IF \E i \in DOMAIN dirs : P!Has(dirs[i], n)
                        THEN dirs[CHOOSE i \in DOMAIN dirs :
                                    P!Has(dirs[i], n) /\ \A j \in 1..(i - 1) : ~P!Has(dirs[j], n)]
                        ELSE "none"
  <2>1. entry[n] = P!First(dirs, n)
    BY <1>4 DEF PluginInv, Phase, Current, Right
  <2>2. CASE \A i \in 1..Len(dirs) : ~P!Has(dirs[i], n)
    BY <1>2, <2>1, <2>2, FirstIs DEF PluginInv
  <2>3. CASE ~ \A i \in 1..Len(dirs) : ~P!Has(dirs[i], n)
    <3>. DEFINE Least(i) == P!Has(dirs[i], n) /\ \A j \in 1..(i - 1) : ~P!Has(dirs[j], n)
                c == CHOOSE i \in 1..Len(dirs) : Least(i)
    <3>1. PICK k \in 1..Len(dirs) : P!First(dirs, n) = dirs[k] /\ Least(k)
      BY <1>2, <2>3, FirstIs DEF PluginInv
    <3>2. c \in 1..Len(dirs) /\ Least(c)
      BY <3>1
    <3>3. k = c
      <4>. HIDE DEF c
      <4>1. ~(k < c) /\ ~(c < k)
        <5>1. k < c => k \in 1..(c - 1)
          BY <1>2, <3>2
        <5>2. c < k => c \in 1..(k - 1)
          BY <1>2, <3>2
        <5>. QED  BY <3>1, <3>2, <5>1, <5>2
      <4>. QED  BY <1>2, <3>2, <4>1
    <3>. QED  BY <1>2, <2>1, <2>3, <3>1, <3>3
  <2>. QED  BY <2>2, <2>3
<1>5. ASSUME NEW p \in alone, union[p].pc \in {"written", "done"}
      PROVE  /\ \A i, j \in DOMAIN hooks : i < j => \E k, l \in DOMAIN dirs :
                   k < l /\ dirs[k] = hooks[i] /\ dirs[l] = hooks[j]
             /\ \A d \in Dirs : (\E i \in DOMAIN hooks : hooks[i] = d)
                                <=> d \in hooked /\ \E i \in DOMAIN dirs : dirs[i] = d
  <2>1. Upto(hooks, dirs, hooked, Len(dirs))
    BY <1>2, <1>5, ThoseAre DEF PluginInv, Phase
  <2>2. \A i \in 1..Len(hooks) : \E k \in 1..Len(dirs) : dirs[k] = hooks[i] /\ dirs[k] \in hooked
    BY <2>1 DEF Upto, Given
  <2>3. \A k \in 1..Len(dirs) : dirs[k] \in hooked => \E i \in 1..Len(hooks) : hooks[i] = dirs[k]
    BY <2>1 DEF Upto, All
  <2>4. \A d \in Dirs : (\E i \in DOMAIN hooks : hooks[i] = d)
                        <=> d \in hooked /\ \E i \in DOMAIN dirs : dirs[i] = d
    BY <1>2, <2>2, <2>3
  <2>5. \A i, j \in DOMAIN hooks : i < j => \E k, l \in DOMAIN dirs :
                   k < l /\ dirs[k] = hooks[i] /\ dirs[l] = hooks[j]
    <3>. SUFFICES ASSUME NEW i \in DOMAIN hooks, NEW j \in DOMAIN hooks, i < j
         PROVE  \E k, l \in DOMAIN dirs : k < l /\ dirs[k] = hooks[i] /\ dirs[l] = hooks[j]
      OBVIOUS
    <3>1. i \in 1..Len(hooks) /\ j \in 1..Len(hooks) /\ InOrder(hooks, dirs, Len(dirs))
      BY <1>2, <2>1 DEF Upto
    <3>2. PICK k \in 1..Len(dirs), l \in 1..Len(dirs) : k < l /\ dirs[k] = hooks[i] /\ dirs[l] = hooks[j]
      BY <3>1 DEF InOrder
    <3>3. k \in DOMAIN dirs /\ l \in DOMAIN dirs
      BY <1>2
    <3>. QED  BY <3>2, <3>3
  <2>. QED  BY <2>4, <2>5
<1>6. \A p \in alone : /\ union[p].pc = "failed" => \E n \in shipped : entry[n] \in Dirs
                       /\ union[p].pc = "done" => \A n \in Entries : cache[n] = P!Text(n)
  BY DEF PluginInv, Phase
<1>7. P!UnionIsCurrent
  BY <1>4, <1>5, <1>6 DEF P!UnionIsCurrent
<1>. QED  BY <1>1, <1>7

LEMMA PluginMove == ASSUME [FilesNext]_filesVars PROVE [P!Next]_(P!vars)
BY DEF FilesNext, filesVars, pluginVars, P!vars

LEMMA PluginHold == FilesSpec => []PluginInv
<1>1. FilesInit => PluginInv
  BY PluginStarts DEF FilesInit
<1>2. PluginInv /\ [FilesNext]_filesVars => PluginInv'
  BY PluginMove, PluginKeeps
<1>. QED  BY <1>1, <1>2, PTL DEF FilesSpec

\* union.go: a command that has the plugin's directory to itself leaves each entry a link to
\* the first of the directories that has it, and the hooks merged in their order.  For any
\* directories, entries, orders and commands.
THEOREM UnionIsCurrentHolds == FilesSpec => []UnionIsCurrent
<1>1. PluginInv => UnionIsCurrent
  BY PluginHolds DEF UnionIsCurrent
<1>. QED  BY <1>1, PluginHold, PTL

-----------------------------------------------------------------------------
(* A routine's bundle, and its units.                                         *)

\* The files that Ensure may write.
Scaffolded == {"gather.sh", "prompt.md", "template.md"}
Commands == {"init"} \cup Others
CommandRow ==
    [pc : {"idle", "ensure", "check", "prune", "write", "done"}, file : Scaffolded \cup {""},
     todo : Seq(Scaffolded), table : Tables \cup {B!NotConfigured}, force : BOOLEAN,
     plan : SUBSET B!Units, stuck : SUBSET B!Units]
HostRow ==
    [engine : BOOLEAN, qmdRefresh : BOOLEAN,
     template : [table : Tables \cup {B!NotConfigured}, settings : SUBSET Pieces]]

BundleTyped ==
    /\ host \in HostRow
    /\ table \in Tables \cup {B!NotConfigured} /\ manifest \in Manifests /\ have \subseteq Pieces
    /\ outcome \in {"error", "space", "words", "empty", "full"}
    /\ bundle \in [B!Files -> {"none", "default", "author"}]
    /\ proc \in [Commands -> CommandRow]
    /\ units = [u \in B!Units |-> units[u]]
    /\ bundleEdits \in 0..BundleEdits /\ known \in BOOLEAN /\ inTime \subseteq B!Files

\* Who is about to write a file, or a gather.sh, was there before its author.
AuthorsInv ==
    /\ \A f \in inTime : bundle[f] = "author"
    /\ \A p \in Commands : proc[p].file # "" =>
          /\ proc[p].pc = "ensure" /\ proc[p].file \notin inTime
          /\ proc[p].file = "gather.sh" => "gather.star" \notin inTime
    /\ "gather.star" \in inTime => bundle["gather.sh"] # "default"

\* The routine is to have units.
Wanted(force) ==
    table # B!NotConfigured /\ (host.engine \/ host.qmdRefresh) /\ (B!Ready \/ force)

\* While nothing that it looks at changes, init works with the table as it is, its plan is
\* what the routine is to have, and what is not of the plan is gone, or could not be
\* removed, once it has pruned.
TimerInv ==
    known =>
      /\ proc["init"].pc \in {"ensure", "check", "prune", "write"} => proc["init"].table = table
      /\ proc["init"].pc \in {"prune", "write"} =>
            proc["init"].plan = IF Wanted(proc["init"].force) /\ table.schedule # 0 THEN B!Units ELSE {}
      /\ proc["init"].pc = "write" => \A u \in B!Units \ proc["init"].plan :
                                        units[u] = 0 \/ u \in proc["init"].stuck
      /\ proc["init"].pc = "done" =>
            \A u \in B!Units :
              LET is == IF Wanted(proc["init"].force) THEN table.schedule ELSE 0
              IN  units[u] = is \/ (is = 0 /\ u \in proc["init"].stuck)

BundleInv == BundleTyped /\ AuthorsInv /\ TimerInv

-----------------------------------------------------------------------------
\* A manifest of which no hard row fails is one that asks for nothing that is not there.
LEMMA ReadyIsUnblocked ==
    ASSUME BundleTyped
    PROVE  B!Blocks <=> ~B!Ready
<1>. DEFINE m == manifest
<1>1. \A f \in m.files : f.required \in BOOLEAN
  BY BundleAssumption DEF BundleTyped
<1>2. (\E p \in m.requires : ~(p \in have)) <=> ~(m.requires \subseteq have)
  OBVIOUS
<1>3. \A p \in m.requires : B!PieceResult(p).hard /\ (B!PieceResult(p).ok <=> p \in have)
  BY DEF B!PieceResult, B!Row
<1>4. \A o \in m.optional : B!OptionalResult(o).ok
  BY DEF B!OptionalResult, B!Row
<1>5. \A f \in m.files : /\ B!UserFileResult(f).hard = f.required
                         /\ B!UserFileResult(f).ok <=> (bundle[f.path] # "none" \/ ~f.required)
  BY DEF B!UserFileResult, B!Row
<1>6. \A s \in m.signals : /\ B!SignalResult(s).hard
                           /\ B!SignalResult(s).ok <=> (s.settings \subseteq have /\ B!SignalOK(s.expect))
  BY DEF B!SignalResult, B!Row
<1>7. \A s \in m.signals :
        B!SignalOK(s.expect) <=>
          outcome \in CASE s.expect = "ok" -> {"space", "words", "empty", "full"}
                        [] s.expect = "json-nonempty" -> {"full"}
                        [] OTHER -> {"words", "empty", "full"}
  <2>1. ASSUME NEW s \in m.signals PROVE
        B!SignalOK(s.expect) <=>
          outcome \in CASE s.expect = "ok" -> {"space", "words", "empty", "full"}
                        [] s.expect = "json-nonempty" -> {"full"}
                        [] OTHER -> {"words", "empty", "full"}
    <3>1. outcome \in {"error", "space", "words", "empty", "full"}
      BY DEF BundleTyped
    <3>2. CASE s.expect = "ok"
      <4>1. outcome = "error" => ~B!SignalOK(s.expect)
        BY DEF B!SignalOK
      <4>2. outcome # "error" => B!SignalOK(s.expect)
        BY <3>2 DEF B!SignalOK
      <4>. QED  BY <3>1, <3>2, <4>1, <4>2
    <3>3. CASE s.expect = "json-nonempty"
      BY <3>1, <3>3 DEF B!SignalOK
    <3>4. CASE s.expect # "ok" /\ s.expect # "json-nonempty"
      BY <3>1, <3>4 DEF B!SignalOK
    <3>. QED  BY <3>2, <3>3, <3>4
  <2>. QED  BY <2>1
<1>. DEFINE row(c) == B!Row(<<"cap", c.is>>, c.is = "exec" \/ (c.of # {} /\ c.odd = {}), TRUE)
<1>7a. B!CapResults(m.caps) = {row(c) : c \in m.caps}
  BY DEF B!CapResults
<1>7b. \A c \in m.caps : row(c).hard /\ (row(c).ok <=> (c.is = "exec" \/ (c.of # {} /\ c.odd = {})))
  BY DEF B!Row
<1>. HIDE DEF row
<1>8. \A r \in B!CapResults(m.caps) : r.hard
  BY <1>7a, <1>7b
<1>9. (\E r \in B!CapResults(m.caps) : ~r.ok) <=>
        \E c \in m.caps : ~(c.is = "exec" \/ (c.of # {} /\ c.odd = {}))
  BY <1>7a, <1>7b
<1>10. B!Failed(B!Check(m)) <=>
         \/ \E p \in m.requires : ~(p \in have)
         \/ \E f \in m.files : f.required /\ ~(bundle[f.path] # "none")
         \/ \E s \in m.signals : ~(s.settings \subseteq have /\ B!SignalOK(s.expect))
         \/ \E c \in m.caps : ~(c.is = "exec" \/ (c.of # {} /\ c.odd = {}))
  <2>1. B!Failed(B!Check(m)) <=>
         \/ \E p \in m.requires : B!PieceResult(p).hard /\ ~B!PieceResult(p).ok
         \/ \E o \in m.optional : B!OptionalResult(o).hard /\ ~B!OptionalResult(o).ok
         \/ \E f \in m.files : B!UserFileResult(f).hard /\ ~B!UserFileResult(f).ok
         \/ \E s \in m.signals : B!SignalResult(s).hard /\ ~B!SignalResult(s).ok
         \/ \E r \in B!CapResults(m.caps) : r.hard /\ ~r.ok
    BY ZenonT(30) DEF B!Failed, B!Check
  <2>2. (\E p \in m.requires : B!PieceResult(p).hard /\ ~B!PieceResult(p).ok)
          <=> \E p \in m.requires : ~(p \in have)
    BY <1>3
  <2>3. ~\E o \in m.optional : B!OptionalResult(o).hard /\ ~B!OptionalResult(o).ok
    BY <1>4
  <2>4. (\E f \in m.files : B!UserFileResult(f).hard /\ ~B!UserFileResult(f).ok)
          <=> \E f \in m.files : f.required /\ ~(bundle[f.path] # "none")
    <3>1. \A f \in m.files : (B!UserFileResult(f).hard /\ ~B!UserFileResult(f).ok)
             <=> (f.required /\ ~(bundle[f.path] # "none"))
      BY <1>1, <1>5
    <3>. QED  BY <3>1, Zenon
  <2>5. (\E s \in m.signals : B!SignalResult(s).hard /\ ~B!SignalResult(s).ok)
          <=> \E s \in m.signals : ~(s.settings \subseteq have /\ B!SignalOK(s.expect))
    BY <1>6
  <2>6. (\E r \in B!CapResults(m.caps) : r.hard /\ ~r.ok)
          <=> \E c \in m.caps : ~(c.is = "exec" \/ (c.of # {} /\ c.odd = {}))
    BY <1>8, <1>9
  <2>. QED  BY <2>1, <2>2, <2>3, <2>4, <2>5, <2>6
<1>11. B!Ready <=> (m.is = "read" =>
         /\ m.requires \subseteq have
         /\ \A f \in m.files : f.required => bundle[f.path] # "none"
         /\ \A s \in m.signals : s.settings \subseteq have /\ B!SignalOK(s.expect)
         /\ \A c \in m.caps : c.is # "exec" => c.of # {} /\ c.odd = {})
  <2>1. \A s \in m.signals :
          (s.settings \subseteq have
           /\ outcome \in CASE s.expect = "ok" -> {"space", "words", "empty", "full"}
                             [] s.expect = "json-nonempty" -> {"full"}
                             [] OTHER -> {"words", "empty", "full"})
          <=> (s.settings \subseteq have /\ B!SignalOK(s.expect))
    BY <1>7
  <2>2. B!Ready <=> (m.is = "read" =>
         /\ m.requires \subseteq have
         /\ \A f \in m.files : f.required => bundle[f.path] # "none"
         /\ \A s \in m.signals : s.settings \subseteq have
              /\ outcome \in CASE s.expect = "ok" -> {"space", "words", "empty", "full"}
                                [] s.expect = "json-nonempty" -> {"full"}
                                [] OTHER -> {"words", "empty", "full"}
         /\ \A c \in m.caps : c.is # "exec" => c.of # {} /\ c.odd = {})
    BY DEF B!Ready
  <2>. QED  BY <2>1, <2>2
<1>12. B!Blocks <=> m.is = "read" /\ B!Failed(B!Check(m))
  BY DEF B!Blocks
<1>. HIDE DEF m
<1>13. (\A c \in m.caps : c.is # "exec" => c.of # {} /\ c.odd = {})
         <=> ~\E c \in m.caps : ~(c.is = "exec" \/ (c.of # {} /\ c.odd = {}))
  OBVIOUS
<1>14. (\A f \in m.files : f.required => bundle[f.path] # "none")
         <=> ~\E f \in m.files : f.required /\ ~(bundle[f.path] # "none")
  OBVIOUS
<1>15. (\A s \in m.signals : s.settings \subseteq have /\ B!SignalOK(s.expect))
         <=> ~\E s \in m.signals : ~(s.settings \subseteq have /\ B!SignalOK(s.expect))
  OBVIOUS
<1>. QED  BY <1>2, <1>10, <1>11, <1>12, <1>13, <1>14, <1>15

-----------------------------------------------------------------------------
LEMMA IdleIsTyped ==
    B!Idle \in CommandRow /\ B!Idle.pc = "idle" /\ B!Idle.file = "" /\ B!Idle.todo = <<>>
<1>1. <<>> \in Seq(Scaffolded)
  OBVIOUS
<1>. QED  BY <1>1 DEF B!Idle, CommandRow

LEMMA ScaffoldIsTyped == \A t : B!Scaffold(t) \in Seq(Scaffolded)
<1>1. ASSUME NEW t, NEW f \in Scaffolded PROVE B!Default(t, f) \in Seq(Scaffolded)
  BY DEF B!Default
<1>2. "gather.sh" \in Scaffolded /\ "prompt.md" \in Scaffolded /\ "template.md" \in Scaffolded
  BY DEF Scaffolded
<1>3. ASSUME NEW t PROVE B!Scaffold(t) \in Seq(Scaffolded)
  <2>1. /\ B!Default(t, "gather.sh") \in Seq(Scaffolded)
        /\ B!Default(t, "prompt.md") \in Seq(Scaffolded)
        /\ B!Default(t, "template.md") \in Seq(Scaffolded)
    BY <1>1, <1>2
  <2>. QED  BY <2>1 DEF B!Scaffold
<1>. QED  BY <1>3

\* What the routine is to have hangs on the files that its manifest names.
LEMMA ReadyStays ==
    ASSUME BundleTyped, UNCHANGED <<table, host, manifest, have, outcome>>,
           \A f \in manifest.files : bundle'[f.path] = bundle[f.path]
    PROVE  \A force \in BOOLEAN : Wanted(force)' <=> Wanted(force)
<1>1. B!Ready' <=> B!Ready
  BY DEF B!Ready
<1>. QED  BY <1>1 DEF Wanted

LEMMA BundleStarts == ASSUME B!Init PROVE BundleInv
<1>1. /\ host \in Hosts /\ table \in Tables /\ manifest \in Manifests /\ have \subseteq Pieces
      /\ outcome = "error" /\ bundle = [f \in B!Files |-> "none"]
      /\ proc = [p \in Commands |-> B!Idle] /\ units = [u \in B!Units |-> 0]
      /\ bundleEdits = 0 /\ known = FALSE /\ inTime = {}
  BY DEF B!Init, Commands, B!NoUnit
<1>2. bundleEdits \in 0..BundleEdits
  <2>1. BundleEdits \in Nat
    BY BundleAssumption
  <2>. QED  BY <1>1, <2>1
<1>3. proc \in [Commands -> CommandRow]
  BY <1>1, IdleIsTyped
<1>4. bundle \in [B!Files -> {"none", "default", "author"}]
  BY <1>1
<1>5. units = [u \in B!Units |-> units[u]]
  BY <1>1
<1>5a. host \in HostRow
  BY <1>1, BundleAssumption DEF HostRow
<1>6. BundleTyped
  BY <1>1, <1>2, <1>3, <1>4, <1>5, <1>5a DEF BundleTyped
<1>7. AuthorsInv
  BY <1>1, IdleIsTyped DEF AuthorsInv
<1>8. TimerInv
  BY <1>1 DEF TimerInv
<1>. QED  BY <1>6, <1>7, <1>8 DEF BundleInv

LEMMA AuthorsStay ==
    ASSUME AuthorsInv, UNCHANGED <<bundle, inTime>>,
           \A q \in Commands : proc'[q].file # "" =>
              /\ proc'[q].pc = "ensure" /\ proc'[q].file \notin inTime
              /\ proc'[q].file = "gather.sh" => "gather.star" \notin inTime
    PROVE  AuthorsInv'
BY DEF AuthorsInv

\* A step of one command that does not touch the bundle and does not have init plan or
\* end: it keeps to the types, to the authors' files, and to what init has loaded.
LEMMA CommandKeeps ==
    ASSUME BundleInv, NEW p \in Commands, NEW r \in CommandRow, proc' = [proc EXCEPT ![p] = r],
           UNCHANGED <<host, table, manifest, have, outcome, bundle, units, bundleEdits, inTime>>,
           r.file = "" \/ r.file = proc[p].file,
           r.file # "" => r.pc = "ensure",
           known' \in BOOLEAN, (known' = known) \/ (p = "init" /\ r.pc = "ensure" /\ r.table = table),
           p = "init" => \/ r.pc = "idle"
                         \/ /\ r.pc \in {"ensure", "check"}
                            /\ r.table = table \/ (r.table = proc["init"].table /\ proc["init"].pc = "ensure")
    PROVE  BundleInv'
<1>1. proc \in [Commands -> CommandRow] /\ "init" \in Commands
  BY DEF BundleInv, BundleTyped, Commands
<1>2. \A q \in Commands : proc'[q] = IF q = p THEN r ELSE proc[q]
  BY <1>1
<1>3. BundleTyped'
  BY <1>1 DEF BundleInv, BundleTyped
<1>4. AuthorsInv'
  <2>1. \A q \in Commands : proc'[q].file # "" => proc'[q].pc = "ensure" /\ proc'[q].file = proc[q].file
    BY <1>2 DEF BundleInv, AuthorsInv
  <2>2. AuthorsInv
    BY DEF BundleInv
  <2>3. ASSUME NEW q \in Commands, proc'[q].file # ""
        PROVE  /\ proc'[q].pc = "ensure" /\ proc'[q].file \notin inTime
               /\ proc'[q].file = "gather.sh" => "gather.star" \notin inTime
    BY <2>1, <2>2, <2>3 DEF AuthorsInv
  <2>. QED  BY <2>2, <2>3, AuthorsStay
<1>5. TimerInv'
  <2>1. \A force \in BOOLEAN : Wanted(force)' <=> Wanted(force)
    BY ReadyStays DEF BundleInv
  <2>2. CASE p = "init"
    BY <1>1, <1>2, <2>2 DEF BundleInv, TimerInv
  <2>3. CASE p # "init"
    <3>1. proc'["init"] = proc["init"] /\ known' = known /\ proc["init"].force \in BOOLEAN
      BY <1>1, <1>2, <2>3 DEF CommandRow
    <3>2. Wanted(proc["init"].force)' <=> Wanted(proc["init"].force)
      BY <2>1, <3>1 DEF Wanted, B!Ready
    <3>. QED  BY <2>1, <3>1 DEF BundleInv, TimerInv
  <2>. QED  BY <2>2, <2>3
<1>. QED  BY <1>3, <1>4, <1>5 DEF BundleInv

\* Load, ensure, and the end of them.
LEMMA EnsureKeeps ==
    ASSUME BundleInv, NEW p \in Commands,
           (\E force \in BOOLEAN : B!Start(p, force)) \/ B!Ensured(p) \/ B!Dies(p)
    PROVE  BundleInv'
<1>1. proc \in [Commands -> CommandRow] /\ proc[p] \in CommandRow /\ "init" \in Commands
      /\ table \in Tables \cup {B!NotConfigured}
  BY DEF BundleInv, BundleTyped, Commands
<1>2. ASSUME NEW force \in BOOLEAN, B!Start(p, force) PROVE BundleInv'
  <2>. DEFINE r == [B!Idle EXCEPT !.pc = "ensure", !.table = table', !.force = force,
                                  !.todo = B!Scaffold(table')]
  <2>1. /\ proc' = [proc EXCEPT ![p] = r] /\ known' = (known \/ p = "init") /\ (force => p = "init")
        /\ IF force THEN B!Overwrite ELSE UNCHANGED B!machine
        /\ UNCHANGED <<bundle, units, bundleEdits, inTime>>
    BY <1>2 DEF B!Start
  <2>2. known' \in BOOLEAN /\ (p # "init" => known' = known)
    BY <2>1 DEF BundleInv, BundleTyped
  <2>3. /\ host' \in HostRow /\ table' \in Tables \cup {B!NotConfigured} /\ have' \subseteq Pieces
        /\ UNCHANGED <<manifest, outcome>>
    <3>1. /\ host \in HostRow /\ table \in Tables \cup {B!NotConfigured} /\ have \subseteq Pieces
      BY DEF BundleInv, BundleTyped
    <3>2. CASE force
      <4>1. /\ table' = host.template.table /\ have' = (have \ Settings) \cup host.template.settings
            /\ host' = [host EXCEPT !.engine = TRUE] /\ UNCHANGED <<manifest, outcome>>
        BY <2>1, <3>2 DEF B!Overwrite
      <4>2. /\ host.template.table \in Tables \cup {B!NotConfigured}
            /\ host.template.settings \subseteq Pieces
        BY <3>1 DEF HostRow
      <4>3. host' \in HostRow
        BY <3>1, <4>1 DEF HostRow
      <4>. QED  BY <3>1, <4>1, <4>2, <4>3
    <3>3. CASE ~force
      BY <2>1, <3>1, <3>3 DEF B!machine
    <3>. QED  BY <3>2, <3>3
  <2>4. B!Scaffold(table') \in Seq(Scaffolded)
    BY ScaffoldIsTyped
  <2>5. r \in CommandRow /\ r.file = "" /\ r.pc = "ensure" /\ r.table = table'
    BY <2>3, <2>4, IdleIsTyped DEF CommandRow
  <2>. HIDE DEF r
  <2>6. CASE p # "init"
    <3>1. UNCHANGED <<host, table, manifest, have, outcome>>
      BY <2>1, <2>6 DEF B!machine
    <3>. QED  BY <2>1, <2>2, <2>5, <2>6, <3>1, CommandKeeps
  <2>7. CASE p = "init"
    <3>1. \A q \in Commands : proc'[q] = IF q = p THEN r ELSE proc[q]
      BY <1>1, <2>1
    <3>2. BundleTyped'
      BY <1>1, <2>1, <2>2, <2>3, <2>5 DEF BundleInv, BundleTyped
    <3>3. AuthorsInv'
      <4>1. AuthorsInv /\ UNCHANGED <<bundle, inTime>>
        BY <2>1 DEF BundleInv
      <4>2. ASSUME NEW q \in Commands, proc'[q].file # ""
            PROVE  /\ proc'[q].pc = "ensure" /\ proc'[q].file \notin inTime
                   /\ proc'[q].file = "gather.sh" => "gather.star" \notin inTime
        <5>1. proc'[q] = proc[q]
          BY <2>5, <3>1, <4>2
        <5>. QED  BY <4>1, <4>2, <5>1 DEF AuthorsInv
      <4>. QED  BY <4>1, <4>2, AuthorsStay
    <3>4. TimerInv'
      <4>1. proc'["init"].pc = "ensure" /\ proc'["init"].table = table'
        BY <1>1, <2>5, <2>7, <3>1
      <4>. QED  BY <4>1 DEF TimerInv
    <3>. QED  BY <3>2, <3>3, <3>4 DEF BundleInv
  <2>. QED  BY <2>6, <2>7
<1>3. CASE B!Ensured(p)
  <2>1. /\ proc[p].pc = "ensure" /\ proc[p].file = "" /\ known' = known /\ known \in BOOLEAN
        /\ proc' = [proc EXCEPT ![p] = IF p = "init" THEN [proc[p] EXCEPT !.pc = "check"] ELSE B!Idle]
        /\ UNCHANGED <<host, table, manifest, have, outcome, bundle, units, bundleEdits, inTime>>
    BY <1>3 DEF B!Ensured, B!machine, BundleInv, BundleTyped
  <2>2. CASE p # "init"
    <3>1. proc' = [proc EXCEPT ![p] = B!Idle]
      BY <2>1, <2>2
    <3>. QED  BY <2>1, <2>2, <3>1, IdleIsTyped, CommandKeeps
  <2>3. CASE p = "init"
    <3>. DEFINE r == [proc[p] EXCEPT !.pc = "check"]
    <3>1. proc' = [proc EXCEPT ![p] = r]
      BY <2>1, <2>3
    <3>2. r \in CommandRow /\ r.file = "" /\ r.pc = "check" /\ r.table = proc[p].table
      BY <1>1, <2>1 DEF CommandRow
    <3>. HIDE DEF r
    <3>. QED  BY <2>1, <2>3, <3>1, <3>2, CommandKeeps
  <2>. QED  BY <2>2, <2>3
<1>4. CASE B!Dies(p)
  <2>1. /\ proc' = [proc EXCEPT ![p] = B!Idle] /\ known' = known /\ known \in BOOLEAN
        /\ UNCHANGED <<host, table, manifest, have, outcome, bundle, units, bundleEdits, inTime>>
    BY <1>4 DEF B!Dies, B!machine, BundleInv, BundleTyped
  <2>. QED  BY <2>1, IdleIsTyped, CommandKeeps
<1>. QED  BY <1>2, <1>3, <1>4

\* A file is looked for: the one that will be written is not there, and neither is a
\* gather.star if it is a gather.sh.
LEMMA LookKeeps == ASSUME BundleInv, NEW p \in Commands, B!Look(p) PROVE BundleInv'
<1>1. proc \in [Commands -> CommandRow] /\ proc[p] \in CommandRow /\ "init" \in Commands
  BY DEF BundleInv, BundleTyped, Commands
<1>. DEFINE f == Head(proc[p].todo)
            r == [proc[p] EXCEPT !.todo = Tail(proc[p].todo), !.file = IF B!Lacks(f) THEN f ELSE ""]
<1>2. /\ proc[p].pc = "ensure" /\ proc[p].file = "" /\ proc[p].todo # <<>> /\ known' = known
      /\ proc' = [proc EXCEPT ![p] = r]
      /\ UNCHANGED <<host, table, manifest, have, outcome, bundle, units, bundleEdits, inTime>>
  BY DEF B!Look, B!machine
<1>3. f \in Scaffolded /\ Tail(proc[p].todo) \in Seq(Scaffolded)
  <2>1. proc[p].todo \in Seq(Scaffolded) /\ proc[p].todo # <<>>
    BY <1>1, <1>2 DEF CommandRow
  <2>. QED  BY <2>1, HeadTailProperties
<1>. HIDE DEF f
<1>4. r \in CommandRow /\ r.pc = proc[p].pc /\ r.table = proc[p].table /\ r.force = proc[p].force
      /\ r.plan = proc[p].plan /\ r.file = IF B!Lacks(f) THEN f ELSE ""
  BY <1>1, <1>3 DEF CommandRow
<1>. HIDE DEF r
<1>5. \A q \in Commands : proc'[q] = IF q = p THEN r ELSE proc[q]
  BY <1>1, <1>2
<1>6. BundleTyped'
  BY <1>1, <1>2, <1>4 DEF BundleInv, BundleTyped
<1>7. AuthorsInv'
  <2>1. B!Lacks(f) => bundle[f] = "none" /\ (f = "gather.sh" => bundle["gather.star"] = "none")
    BY DEF B!Lacks
  <2>2. B!Lacks(f) => f \notin inTime /\ (f = "gather.sh" => "gather.star" \notin inTime)
    BY <2>1 DEF BundleInv, AuthorsInv
  <2>3. r.file # "" => r.pc = "ensure" /\ r.file \notin inTime
                       /\ (r.file = "gather.sh" => "gather.star" \notin inTime)
    BY <1>2, <1>4, <2>2
  <2>4. ASSUME NEW q \in Commands, proc'[q].file # ""
        PROVE  /\ proc'[q].pc = "ensure" /\ proc'[q].file \notin inTime
               /\ proc'[q].file = "gather.sh" => "gather.star" \notin inTime
    <3>1. CASE q = p
      BY <1>5, <2>3, <2>4, <3>1
    <3>2. CASE q # p
      BY <1>5, <2>4, <3>2 DEF BundleInv, AuthorsInv
    <3>. QED  BY <3>1, <3>2
  <2>5. AuthorsInv /\ UNCHANGED <<bundle, inTime>>
    BY <1>2 DEF BundleInv
  <2>. QED  BY <2>4, <2>5, AuthorsStay
<1>8. TimerInv'
  <2>1. \A force \in BOOLEAN : Wanted(force)' <=> Wanted(force)
    BY <1>2, ReadyStays DEF BundleInv
  <2>2. CASE p = "init"
    BY <1>1, <1>2, <1>4, <1>5, <2>2 DEF BundleInv, TimerInv
  <2>3. CASE p # "init"
    <3>1. proc'["init"] = proc["init"] /\ proc["init"].force \in BOOLEAN
      BY <1>1, <1>5, <2>3 DEF CommandRow
    <3>2. Wanted(proc["init"].force)' <=> Wanted(proc["init"].force)
      BY <1>2, <3>1 DEF Wanted, B!Ready
    <3>. QED  BY <1>2, <3>1, <3>2 DEF BundleInv, TimerInv
  <2>. QED  BY <2>2, <2>3
<1>. QED  BY <1>6, <1>7, <1>8 DEF BundleInv

LEMMA WriteKeeps == ASSUME BundleInv, NEW p \in Commands, B!WriteDefault(p) PROVE BundleInv'
<1>1. proc \in [Commands -> CommandRow] /\ proc[p] \in CommandRow /\ "init" \in Commands
      /\ bundle \in [B!Files -> {"none", "default", "author"}]
  BY DEF BundleInv, BundleTyped, Commands
<1>. DEFINE f == proc[p].file
            r == [proc[p] EXCEPT !.file = ""]
<1>2. /\ proc[p].pc = "ensure" /\ f # "" /\ proc' = [proc EXCEPT ![p] = r]
      /\ \/ /\ bundle' = [bundle EXCEPT ![f] = "default"]
            /\ known' = (known /\ (p = "init" \/ \A g \in manifest.files : g.path # f))
         \/ UNCHANGED <<bundle, known>>
      /\ UNCHANGED <<host, table, manifest, have, outcome, units, bundleEdits, inTime>>
  BY DEF B!WriteDefault, B!machine
<1>2a. known' \in BOOLEAN /\ (known' => known)
  <2>1. known \in BOOLEAN
    BY DEF BundleInv, BundleTyped
  <2>. DEFINE spared == p = "init" \/ \A g \in manifest.files : g.path # f
  <2>2. known' = (known /\ spared) \/ known' = known
    BY <1>2
  <2>. HIDE DEF spared
  <2>3. CASE spared
    <3>1. (known /\ spared) = known
      BY <2>1, <2>3
    <3>. QED  BY <2>1, <2>2, <3>1
  <2>4. CASE ~spared
    <3>1. (known /\ spared) = FALSE
      BY <2>4
    <3>2. known' = FALSE \/ known' = known
      BY <2>2, <3>1, Zenon
    <3>3. CASE known' = FALSE
      <4>1. ~known'
        BY <3>3, Zenon
      <4>2. known' \in BOOLEAN
        BY <3>3
      <4>. QED  BY <4>1, <4>2
    <3>4. CASE known' = known
      BY <2>1, <3>4
    <3>. QED  BY <3>2, <3>3, <3>4
  <2>. QED  BY <2>3, <2>4
<1>3. f \in Scaffolded
  BY <1>1, <1>2 DEF CommandRow
<1>4. r \in CommandRow /\ r.pc = "ensure" /\ r.file = "" /\ r.table = proc[p].table
      /\ r.force = proc[p].force /\ r.plan = proc[p].plan
  BY <1>1, <1>2 DEF CommandRow
<1>5. f \notin inTime /\ (f = "gather.sh" => "gather.star" \notin inTime)
  BY <1>2 DEF BundleInv, AuthorsInv
<1>. HIDE DEF f, r
<1>6. \A q \in Commands : proc'[q] = IF q = p THEN r ELSE proc[q]
  BY <1>1, <1>2
<1>7. bundle' \in [B!Files -> {"none", "default", "author"}]
      /\ \A g \in B!Files : bundle'[g] = bundle[g] \/ (g = f /\ bundle'[g] = "default")
  BY <1>1, <1>2
<1>8. BundleTyped'
  BY <1>1, <1>2, <1>2a, <1>4, <1>7 DEF BundleInv, BundleTyped
<1>9. AuthorsInv'
  <2>1. \A g \in inTime : g \in B!Files /\ bundle[g] = "author"
    BY DEF BundleInv, BundleTyped, AuthorsInv
  <2>2. \A g \in inTime : bundle'[g] = "author"
    BY <1>5, <1>7, <2>1
  <2>3. ASSUME NEW q \in Commands, proc'[q].file # ""
        PROVE  /\ proc'[q].pc = "ensure" /\ proc'[q].file \notin inTime
               /\ proc'[q].file = "gather.sh" => "gather.star" \notin inTime
    <3>1. q # p /\ proc'[q] = proc[q]
      BY <1>4, <1>6, <2>3
    <3>. QED  BY <2>3, <3>1 DEF BundleInv, AuthorsInv
  <2>4. "gather.star" \in inTime => bundle'["gather.sh"] # "default"
    <3>1. "gather.sh" \in B!Files
      BY DEF B!Files
    <3>2. "gather.star" \in inTime => bundle["gather.sh"] # "default"
      BY DEF BundleInv, AuthorsInv
    <3>. QED  BY <1>5, <1>7, <3>1, <3>2
  <2>5. inTime' = inTime
    BY <1>2
  <2>. QED  BY <2>2, <2>3, <2>4, <2>5 DEF AuthorsInv
<1>10. TimerInv'
  <2>1. CASE p = "init"
    BY <1>2, <1>2a, <1>4, <1>6, <2>1 DEF BundleInv, TimerInv
  <2>2. CASE p # "init" /\ known'
    <3>1. \A g \in manifest.files : bundle'[g.path] = bundle[g.path]
      <4>1. \A g \in manifest.files : g.path \in B!Files
        BY BundleAssumption DEF BundleInv, BundleTyped
      <4>. QED  BY <1>1, <1>2, <2>2, <4>1
    <3>2. \A force \in BOOLEAN : Wanted(force)' <=> Wanted(force)
      BY <1>2, <3>1, ReadyStays DEF BundleInv
    <3>3. proc'["init"] = proc["init"] /\ proc["init"].force \in BOOLEAN
      BY <1>1, <1>6, <2>2 DEF CommandRow
    <3>4. PICK force \in BOOLEAN : force = proc["init"].force
      BY <3>3
    <3>5. Wanted(force)' <=> Wanted(force)
      BY <3>2
    <3>6. proc'["init"].force = force /\ UNCHANGED <<table, units>> /\ known
      BY <1>2, <1>2a, <2>2, <3>3, <3>4
    <3>7. Wanted(proc["init"].force)' <=> Wanted(proc["init"].force)
      BY <3>4, <3>5, <3>6 DEF Wanted
    <3>. QED  BY <3>3, <3>6, <3>7 DEF BundleInv, TimerInv
  <2>3. CASE ~known'
    BY <2>3 DEF TimerInv
  <2>. QED  BY <2>1, <2>2, <2>3
<1>. QED  BY <1>8, <1>9, <1>10 DEF BundleInv

\* The steps of init behind Ensure: no file of the bundle is theirs.
LEMMA InitKeeps ==
    ASSUME BundleInv, NEW r \in CommandRow, proc' = [proc EXCEPT !["init"] = r], r.file = "",
           UNCHANGED <<host, table, manifest, have, outcome, bundle, bundleEdits, known, inTime>>,
           units' = [u \in B!Units |-> units'[u]]
    PROVE  /\ BundleTyped' /\ AuthorsInv' /\ proc'["init"] = r
           /\ \A force \in BOOLEAN : Wanted(force)' <=> Wanted(force)
<1>1. proc \in [Commands -> CommandRow] /\ "init" \in Commands
  BY DEF BundleInv, BundleTyped, Commands
<1>2. \A q \in Commands : proc'[q] = IF q = "init" THEN r ELSE proc[q]
  BY <1>1
<1>3. BundleTyped'
  BY <1>1 DEF BundleInv, BundleTyped
<1>4. AuthorsInv'
  <2>1. ASSUME NEW q \in Commands, proc'[q].file # ""
        PROVE  /\ proc'[q].pc = "ensure" /\ proc'[q].file \notin inTime
               /\ proc'[q].file = "gather.sh" => "gather.star" \notin inTime
    <3>1. q # "init" /\ proc'[q] = proc[q]
      BY <1>2, <2>1
    <3>. QED  BY <2>1, <3>1 DEF BundleInv, AuthorsInv
  <2>2. AuthorsInv
    BY DEF BundleInv
  <2>. QED  BY <2>1, <2>2, AuthorsStay
<1>5. \A force \in BOOLEAN : Wanted(force)' <=> Wanted(force)
  BY ReadyStays DEF BundleInv
<1>. QED  BY <1>1, <1>2, <1>3, <1>4, <1>5

LEMMA InitIs == ASSUME BundleInv
    PROVE  /\ proc["init"] \in CommandRow /\ units = [u \in B!Units |-> units[u]]
           /\ proc["init"].pc # "ensure" => proc["init"].file = ""
<1>1. "init" \in Commands
  BY DEF Commands
<1>. QED  BY <1>1 DEF BundleInv, BundleTyped, AuthorsInv

\* The plan is made of what is the case now.
LEMMA PlanKeeps == ASSUME BundleInv, B!CheckRoutine PROVE BundleInv'
<1>. DEFINE i == proc["init"]
            plan == IF B!Timed(i.table) /\ ~(i.table # B!NotConfigured /\ B!Blocks /\ ~i.force)
                    THEN B!Units ELSE {}
            r == [i EXCEPT !.pc = "prune", !.plan = plan]
<1>1. /\ i.pc = "check" /\ proc' = [proc EXCEPT !["init"] = r]
      /\ UNCHANGED <<host, table, manifest, have, outcome, bundle, units, bundleEdits, known, inTime>>
  BY DEF B!CheckRoutine, B!machine
<1>2. i \in CommandRow /\ i.file = ""
  BY <1>1, InitIs
<1>3. plan \in SUBSET B!Units
  OBVIOUS
<1>4. known => plan = IF Wanted(i.force) /\ table.schedule # 0 THEN B!Units ELSE {}
  <2>1. known => i.table = table
    BY <1>1 DEF BundleInv, TimerInv
  <2>2. B!Blocks <=> ~B!Ready
    BY ReadyIsUnblocked DEF BundleInv
  <2>. QED  BY <2>1, <2>2 DEF Wanted, B!Timed, B!Manual
<1>. HIDE DEF i, plan
<1>5. r \in CommandRow /\ r.pc = "prune" /\ r.plan = plan /\ r.force = i.force /\ r.table = i.table
      /\ r.file = ""
  BY <1>2, <1>3 DEF CommandRow
<1>. HIDE DEF r
<1>6. units' = [u \in B!Units |-> units'[u]]
  BY <1>1, InitIs
<1>7. /\ BundleTyped' /\ AuthorsInv' /\ proc'["init"] = r
      /\ \A force \in BOOLEAN : Wanted(force)' <=> Wanted(force)
  BY <1>1, <1>5, <1>6, InitKeeps
<1>8. TimerInv'
  <2>. SUFFICES ASSUME known' PROVE TimerInv'
    BY DEF TimerInv
  <2>1. i.table = table
    BY <1>1 DEF BundleInv, TimerInv, i
  <2>2. PICK force \in BOOLEAN : force = i.force
    BY <1>2 DEF CommandRow
  <2>3. Wanted(force)' <=> Wanted(force)
    BY <1>7
  <2>4. Wanted(proc["init"].force)' <=> Wanted(i.force)
    BY <1>5, <1>7, <2>2, <2>3 DEF Wanted
  <2>5. plan = IF Wanted(proc["init"].force)' /\ table'.schedule # 0 THEN B!Units ELSE {}
    BY <1>1, <1>4, <2>4
  <2>. QED  BY <1>1, <1>5, <1>7, <2>1, <2>5 DEF TimerInv
<1>. QED  BY <1>7, <1>8 DEF BundleInv

\* A unit is not removed that is of the plan; when init is done pruning, none is left
\* that is not.
LEMMA PruneKeeps == ASSUME BundleInv, NEW u \in B!Units, B!Prune(u) PROVE BundleInv'
<1>1. PICK r \in CommandRow :
        /\ proc' = [proc EXCEPT !["init"] = r]
        /\ r.pc = "prune" /\ r.plan = proc["init"].plan /\ r.force = proc["init"].force
        /\ r.table = proc["init"].table /\ r.file = ""
  <2>. DEFINE i == proc["init"]
              s == [i EXCEPT !.stuck = i.stuck \cup {u}]
  <2>1. i.pc = "prune" /\ (UNCHANGED proc \/ proc' = [proc EXCEPT !["init"] = s])
    BY DEF B!Prune
  <2>2. i \in CommandRow /\ i.file = "" /\ proc \in [Commands -> CommandRow]
    BY <2>1, InitIs DEF BundleInv, BundleTyped
  <2>3. CASE UNCHANGED proc
    <3>1. proc' = [proc EXCEPT !["init"] = i]
      BY <2>2, <2>3
    <3>. QED  BY <2>1, <2>2, <3>1
  <2>4. CASE proc' = [proc EXCEPT !["init"] = s]
    <3>1. s \in CommandRow /\ s.pc = i.pc /\ s.plan = i.plan /\ s.force = i.force
          /\ s.table = i.table /\ s.file = i.file
      BY <2>2 DEF CommandRow
    <3>. HIDE DEF s
    <3>. QED  BY <2>1, <2>2, <2>4, <3>1
  <2>. QED  BY <2>1, <2>3, <2>4
<1>2. /\ proc["init"].pc = "prune" /\ proc["init"] \in CommandRow
      /\ UNCHANGED <<host, table, manifest, have, outcome, bundle, bundleEdits, known, inTime>>
  BY InitIs DEF B!Prune, B!machine
<1>3. units' = [v \in B!Units |-> units'[v]]
  <2>1. units' = [units EXCEPT ![u] = 0] \/ UNCHANGED units
    BY DEF B!Prune, B!NoUnit
  <2>. QED  BY <2>1, InitIs
<1>4. /\ BundleTyped' /\ AuthorsInv' /\ proc'["init"] = r
      /\ \A force \in BOOLEAN : Wanted(force)' <=> Wanted(force)
  BY <1>1, <1>2, <1>3, InitKeeps
<1>5. TimerInv'
  <2>1. PICK force \in BOOLEAN : force = proc["init"].force
    BY <1>2 DEF CommandRow
  <2>2. Wanted(force)' <=> Wanted(force)
    BY <1>4
  <2>3. Wanted(proc["init"].force)' <=> Wanted(proc["init"].force)
    BY <1>1, <1>4, <2>1, <2>2 DEF Wanted
  <2>. QED  BY <1>1, <1>2, <1>4, <2>3 DEF BundleInv, TimerInv
<1>. QED  BY <1>4, <1>5 DEF BundleInv

LEMMA PrunedKeeps == ASSUME BundleInv, B!Pruned PROVE BundleInv'
<1>. DEFINE i == proc["init"]
            r == [i EXCEPT !.pc = "write"]
<1>1. /\ i.pc = "prune" /\ proc' = [proc EXCEPT !["init"] = r]
      /\ \A u \in B!Units \ i.plan : units[u] = 0 \/ u \in i.stuck
      /\ UNCHANGED <<host, table, manifest, have, outcome, bundle, units, bundleEdits, known, inTime>>
  BY DEF B!Pruned, B!Stale, B!machine, B!NoUnit
<1>2. i \in CommandRow /\ i.file = ""
  BY <1>1, InitIs
<1>3. r \in CommandRow /\ r.pc = "write" /\ r.plan = i.plan /\ r.force = i.force /\ r.table = i.table
      /\ r.file = "" /\ r.stuck = i.stuck
  BY <1>2 DEF CommandRow
<1>. HIDE DEF r
<1>4. units' = [u \in B!Units |-> units'[u]]
  BY <1>1, InitIs
<1>5. /\ BundleTyped' /\ AuthorsInv' /\ proc'["init"] = r
      /\ \A force \in BOOLEAN : Wanted(force)' <=> Wanted(force)
  BY <1>1, <1>3, <1>4, InitKeeps
<1>6. TimerInv'
  <2>2. PICK force \in BOOLEAN : force = i.force
    BY <1>2 DEF CommandRow
  <2>3. Wanted(force)' <=> Wanted(force)
    BY <1>5
  <2>4. Wanted(proc["init"].force)' <=> Wanted(i.force)
    BY <1>3, <1>5, <2>2, <2>3 DEF Wanted
  <2>. QED  BY <1>1, <1>3, <1>5, <2>4 DEF BundleInv, TimerInv
<1>. QED  BY <1>5, <1>6 DEF BundleInv

\* A unit of the plan is written; what is not of it stays gone.
LEMMA UnitKeeps == ASSUME BundleInv, NEW u \in B!Units, B!WriteUnit(u) PROVE BundleInv'
<1>. DEFINE i == proc["init"]
<1>1. /\ i.pc = "write" /\ u \in i.plan
      /\ UNCHANGED <<host, table, manifest, have, outcome, bundle, bundleEdits, known, inTime>>
  BY DEF B!WriteUnit, B!machine
<1>2. i \in CommandRow /\ i.file = "" /\ proc \in [Commands -> CommandRow]
      /\ units = [v \in B!Units |-> units[v]] /\ "init" \in Commands
  BY <1>1, InitIs DEF BundleInv, BundleTyped, Commands
<1>3. CASE units' = [units EXCEPT ![u] = i.table.schedule] /\ UNCHANGED proc
  <2>1. proc' = [proc EXCEPT !["init"] = i] /\ units' = [v \in B!Units |-> units'[v]]
    BY <1>2, <1>3
  <2>2. \A v \in B!Units \ i.plan : units'[v] = units[v]
    BY <1>1, <1>2, <1>3
  <2>3. PICK force \in BOOLEAN : force = i.force
    BY <1>2 DEF CommandRow
  <2>. HIDE DEF i
  <2>4. /\ BundleTyped' /\ AuthorsInv' /\ proc'["init"] = i
        /\ \A g \in BOOLEAN : Wanted(g)' <=> Wanted(g)
    BY <1>1, <1>2, <2>1, InitKeeps
  <2>5. Wanted(i.force)' <=> Wanted(i.force)
    <3>1. Wanted(force)' <=> Wanted(force)
      BY <2>4
    <3>2. i' = i
      BY <1>3 DEF i
    <3>. QED  BY <2>3, <3>1, <3>2 DEF Wanted
  <2>6. TimerInv'
    <3>1. UNCHANGED <<table, known>> /\ i.pc = "write"
      BY <1>1
    <3>2. i' = i
      BY <1>3 DEF i
    <3>3. known => /\ i.table = table
                   /\ i.plan = IF Wanted(i.force) /\ table.schedule # 0 THEN B!Units ELSE {}
                   /\ \A v \in B!Units \ i.plan : units[v] = 0 \/ v \in i.stuck
      BY <3>1 DEF BundleInv, TimerInv, i
    <3>. QED  BY <2>2, <2>5, <3>1, <3>2, <3>3 DEF TimerInv, i
  <2>. QED  BY <2>4, <2>6 DEF BundleInv
<1>4. CASE proc' = [proc EXCEPT !["init"] = B!Idle] /\ UNCHANGED units
  BY <1>1, <1>4, <1>2, IdleIsTyped, CommandKeeps DEF BundleInv, BundleTyped
<1>. QED  BY <1>3, <1>4 DEF B!WriteUnit

\* The plan is written: each unit of it is of the schedule, and the others are gone.
LEMMA WrittenKeeps == ASSUME BundleInv, B!Written PROVE BundleInv'
<1>. DEFINE i == proc["init"]
            r == [B!Idle EXCEPT !.pc = "done", !.force = i.force, !.stuck = i.stuck]
<1>1. /\ i.pc = "write" /\ proc' = [proc EXCEPT !["init"] = r]
      /\ \A u \in i.plan : units[u] = i.table.schedule
      /\ UNCHANGED <<host, table, manifest, have, outcome, bundle, units, bundleEdits, known, inTime>>
  BY DEF B!Written, B!machine
<1>2. i \in CommandRow
  BY InitIs
<1>3. r \in CommandRow /\ r.pc = "done" /\ r.force = i.force /\ r.stuck = i.stuck
      /\ r.file = ""
  BY <1>2, IdleIsTyped DEF CommandRow
<1>4. units' = [u \in B!Units |-> units'[u]]
  BY <1>1, InitIs
<1>. HIDE DEF r
<1>5. /\ BundleTyped' /\ AuthorsInv' /\ proc'["init"] = r
      /\ \A force \in BOOLEAN : Wanted(force)' <=> Wanted(force)
  BY <1>1, <1>3, <1>4, InitKeeps
<1>6. TimerInv'
  <2>2. PICK force \in BOOLEAN : force = i.force
    BY <1>2 DEF CommandRow
  <2>3. Wanted(force)' <=> Wanted(force)
    BY <1>5
  <2>4. Wanted(proc["init"].force)' <=> Wanted(i.force)
    BY <1>3, <1>5, <2>2, <2>3 DEF Wanted
  <2>. DEFINE is == IF Wanted(i.force) THEN table.schedule ELSE 0
  <2>5. known => \A u \in B!Units : units[u] = is \/ (is = 0 /\ u \in i.stuck)
    <3>1. known => /\ i.table = table
                   /\ i.plan = IF Wanted(i.force) /\ table.schedule # 0 THEN B!Units ELSE {}
                   /\ \A u \in B!Units \ i.plan : units[u] = 0 \/ u \in i.stuck
      BY <1>1 DEF BundleInv, TimerInv
    <3>2. i.plan \subseteq B!Units
      BY <1>2 DEF CommandRow
    <3>. HIDE DEF i
    <3>. QED  BY <1>1, <3>1, <3>2
  <2>. QED  BY <1>1, <1>3, <1>5, <2>4, <2>5 DEF TimerInv
<1>. QED  BY <1>5, <1>6 DEF BundleInv

\* What is changed by hand is no longer known; a file that is put there is not the one
\* that is about to be written, or it does not count as in time.
LEMMA ByHandKeeps ==
    ASSUME BundleInv,
           \/ \E t \in Tables \cup {B!NotConfigured} : B!Configure(t)
           \/ \E h \in SUBSET Pieces, o \in Outcomes : B!Provide(h, o)
           \/ \E m \in Manifests : B!Describe(m)
    PROVE  BundleInv'
<1>1. /\ known' = FALSE /\ bundleEdits < BundleEdits /\ bundleEdits' = bundleEdits + 1
      /\ UNCHANGED <<host, bundle, proc, units, inTime>>
  BY DEF B!Configure, B!Provide, B!Describe, B!ByHand
<1>2. /\ table' \in Tables \cup {B!NotConfigured} /\ manifest' \in Manifests /\ have' \subseteq Pieces
      /\ outcome' \in {"error", "space", "words", "empty", "full"}
  <2>1. /\ table \in Tables \cup {B!NotConfigured} /\ manifest \in Manifests /\ have \subseteq Pieces
        /\ outcome \in {"error", "space", "words", "empty", "full"}
    BY DEF BundleInv, BundleTyped
  <2>2. Outcomes \subseteq {"error", "space", "words", "empty", "full"}
    BY BundleAssumption
  <2>. QED  BY <2>1, <2>2 DEF B!Configure, B!Provide, B!Describe
<1>3. bundleEdits' \in 0..BundleEdits
  <2>1. BundleEdits \in Nat
    BY BundleAssumption
  <2>2. bundleEdits \in 0..BundleEdits
    BY DEF BundleInv, BundleTyped
  <2>. QED  BY <1>1, <2>1, <2>2
<1>4. BundleTyped'
  BY <1>1, <1>2, <1>3 DEF BundleInv, BundleTyped
<1>5. AuthorsInv' /\ TimerInv'
  BY <1>1 DEF BundleInv, AuthorsInv, TimerInv
<1>. QED  BY <1>4, <1>5 DEF BundleInv

LEMMA PlaceKeeps == ASSUME BundleInv, NEW f \in Authored, B!Place(f) PROVE BundleInv'
<1>1. /\ known' = FALSE /\ bundleEdits < BundleEdits /\ bundleEdits' = bundleEdits + 1
      /\ bundle' = [bundle EXCEPT ![f] = "author"]
      /\ inTime' = IF B!Behind(f) \/ (f = "gather.star" /\ bundle["gather.sh"] = "default")
                   THEN inTime \ {f} ELSE inTime \cup {f}
      /\ UNCHANGED <<host, table, manifest, have, outcome, proc, units>>
  BY DEF B!Place, B!ByHand, B!machine
<1>2. f \in B!Files /\ BundleEdits \in Nat
  BY BundleAssumption
<1>3. bundleEdits' \in 0..BundleEdits
  <2>1. bundleEdits \in 0..BundleEdits
    BY DEF BundleInv, BundleTyped
  <2>. QED  BY <1>1, <1>2, <2>1
<1>4. bundle \in [B!Files -> {"none", "default", "author"}] /\ inTime \subseteq B!Files
      /\ proc \in [Commands -> CommandRow]
  BY DEF BundleInv, BundleTyped
<1>5. bundle' \in [B!Files -> {"none", "default", "author"}]
      /\ \A g \in B!Files : bundle'[g] = IF g = f THEN "author" ELSE bundle[g]
  BY <1>1, <1>2, <1>4
<1>6. inTime' \subseteq B!Files /\ \A g \in inTime' : g \in inTime \/ g = f
  BY <1>1, <1>2, <1>4
<1>7. BundleTyped'
  BY <1>1, <1>3, <1>5, <1>6 DEF BundleInv, BundleTyped
<1>8. AuthorsInv'
  <2>1. AuthorsInv
    BY DEF BundleInv
  <2>2. \A g \in inTime' : bundle'[g] = "author"
    BY <1>4, <1>5, <1>6, <2>1 DEF AuthorsInv
  <2>3. ASSUME NEW q \in Commands, proc[q].file # ""
        PROVE  /\ proc[q].pc = "ensure" /\ proc[q].file \notin inTime'
               /\ proc[q].file = "gather.sh" => "gather.star" \notin inTime'
    <3>1. /\ proc[q].pc = "ensure" /\ proc[q].file \notin inTime
          /\ proc[q].file = "gather.sh" => "gather.star" \notin inTime
      BY <2>1, <2>3 DEF AuthorsInv
    <3>2. proc[q].file = f => B!Behind(f)
      BY <1>4, <3>1 DEF B!Behind
    <3>3. proc[q].file = "gather.sh" /\ f = "gather.star" => B!Behind(f)
      BY <1>4, <3>1 DEF B!Behind
    <3>4. B!Behind(f) => f \notin inTime'
      BY <1>1
    <3>. QED  BY <1>6, <3>1, <3>2, <3>3, <3>4
  <2>4. "gather.star" \in inTime' => bundle'["gather.sh"] # "default"
    <3>1. "gather.sh" \in B!Files
      BY DEF B!Files
    <3>2. CASE f = "gather.star"
      <4>1. bundle["gather.sh"] = "default" => "gather.star" \notin inTime'
        BY <1>1, <3>2
      <4>. QED  BY <1>5, <3>1, <3>2, <4>1
    <3>3. CASE f # "gather.star"
      <4>1. "gather.star" \in inTime' => bundle["gather.sh"] # "default"
        BY <1>6, <2>1, <3>3 DEF AuthorsInv
      <4>. QED  BY <1>5, <3>1, <4>1
    <3>. QED  BY <3>2, <3>3
  <2>5. proc' = proc
    BY <1>1
  <2>. QED  BY <2>2, <2>3, <2>4, <2>5 DEF AuthorsInv
<1>9. TimerInv'
  BY <1>1 DEF TimerInv
<1>. QED  BY <1>7, <1>8, <1>9 DEF BundleInv

LEMMA BundleKeeps == ASSUME BundleInv, [B!Next]_(B!vars) PROVE BundleInv'
<1>1. DOMAIN proc = Commands
  BY DEF BundleInv, BundleTyped
<1>2. CASE B!Next
  BY <1>1, <1>2, EnsureKeeps, LookKeeps, WriteKeeps, PlanKeeps, PruneKeeps, PrunedKeeps, UnitKeeps,
     WrittenKeeps, ByHandKeeps, PlaceKeeps DEF B!Next
<1>3. CASE UNCHANGED B!vars
  <2>1. UNCHANGED <<host, table, manifest, have, outcome, bundle, proc, units, bundleEdits, known, inTime>>
    BY <1>3 DEF B!vars
  <2>. QED  BY <2>1 DEF BundleInv, BundleTyped, AuthorsInv, TimerInv, Wanted, B!Ready
<1>. QED  BY <1>2, <1>3

LEMMA BundleHolds == ASSUME BundleInv PROVE B!TypeOK /\ B!TimerMeansReady /\ B!AuthorsFilesStand
<1>1. DOMAIN proc = Commands /\ \A p \in Commands : proc[p] \in CommandRow
  BY DEF BundleInv, BundleTyped
<1>2. B!TypeOK
  <2>1. \A p \in DOMAIN proc : /\ proc[p].file \in B!Files \cup {""}
                              /\ proc[p].plan \cup proc[p].stuck \subseteq B!Units
    BY <1>1 DEF CommandRow, Scaffolded, B!Files
  <2>. QED  BY <2>1 DEF BundleInv, BundleTyped, B!TypeOK
<1>3. B!TimerMeansReady
  <2>. SUFFICES ASSUME known, proc["init"].pc = "done", NEW u \in B!Units
       PROVE  units[u] = B!TimedBy \/ (B!TimedBy = B!NoUnit /\ u \in proc["init"].stuck)
    BY DEF B!TimerMeansReady
  <2>1. B!TimedBy = IF Wanted(proc["init"].force) THEN table.schedule ELSE 0
    BY DEF B!TimedBy, Wanted, B!NoUnit
  <2>. QED  BY <2>1 DEF BundleInv, TimerInv, B!NoUnit
<1>4. B!AuthorsFilesStand
  <2>1. bundle["gather.sh"] \in {"none", "default", "author"}
    BY DEF BundleInv, BundleTyped, B!Files
  <2>. QED  BY <2>1 DEF BundleInv, AuthorsInv, B!AuthorsFilesStand, B!GatherIs
<1>. QED  BY <1>2, <1>3, <1>4

LEMMA BundleMove == ASSUME [FilesNext]_filesVars PROVE [B!Next]_(B!vars)
BY DEF FilesNext, filesVars, bundleVars, B!vars

LEMMA BundleHold == FilesSpec => []BundleInv
<1>1. FilesInit => BundleInv
  BY BundleStarts DEF FilesInit
<1>2. BundleInv /\ [FilesNext]_filesVars => BundleInv'
  BY BundleMove, BundleKeeps
<1>. QED  BY <1>1, <1>2, PTL DEF FilesSpec

\* init.go: after `init` a routine has the timer of its schedule if it is to have one and its
\* bundle is ready or it was forced, and none otherwise but one that could not be removed,
\* for any manifests, tables, templates, hosts and files of the bundle.
THEOREM TimerMeansReadyHolds == FilesSpec => []TimerMeansReady
<1>1. BundleInv => TimerMeansReady
  BY BundleHolds DEF TimerMeansReady
<1>. QED  BY <1>1, BundleHold, PTL

\* ensure.go: what the author has put into the bundle no command replaces.
THEOREM AuthorsFilesStandHolds == FilesSpec => []AuthorsFilesStand
<1>1. BundleInv => AuthorsFilesStand
  BY BundleHolds DEF AuthorsFilesStand
<1>. QED  BY <1>1, BundleHold, PTL

-----------------------------------------------------------------------------
(* All of them.                                                               *)

\* Nothing is lost: a queued candidate stays until it is dropped, what was trashed is on
\* record, and no task line is deleted, whoever dies where.  And every part is well-typed.
THEOREM NothingIsLostHolds == FilesSpec => []NothingIsLost
<1>1. QueuesInv => C!TypeOK /\ C!CandidateKept
  BY DEF QueuesInv
<1>2. GmailInv => G!TypeOK /\ G!TrashedIsOnRecord
  BY DEF GmailInv
<1>3. RemindInv => R!TypeOK
  BY DEF RemindInv
<1>4. HandoffInv => H!TypeOK
  BY DEF HandoffInv
<1>5. QueuesInv /\ GmailInv /\ RemindInv /\ TasksInv /\ HandoffInv /\ ArtifactsWell /\ PluginInv /\ BundleInv
      => NothingIsLost
  BY <1>1, <1>2, <1>3, <1>4, TasksImply, ArtifactTypes, PluginHolds, BundleHolds DEF NothingIsLost, PartsTypeOK
<1>. QED  BY <1>5, QueuesHold, GmailHold, RemindHold, TasksHold, HandoffHold, ArtifactsHold, PluginHold, BundleHold, PTL

\* Nothing is done twice: a candidate is put once and a drop takes it for good, what the user
\* took out of the trash is not trashed again, nobody is told of a reminder twice, and a new
\* task has an id that was on no line.
THEOREM NothingIsDoneTwiceHolds == FilesSpec => NothingIsDoneTwice
  BY QueuesAreAtomic, UndoneHolds, ToldHolds, FreshHolds, PTL DEF NothingIsDoneTwice
================================================================================
