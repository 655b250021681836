--------------------------- MODULE JudgeRunProofs ---------------------------
(* Theorems about JudgeRun.                                                 *)
EXTENDS JudgeRun, TLAPS

-----------------------------------------------------------------------------
(* Types.                                                                   *)

LEMMA ConstantsTyped ==
    /\ NoFile \in File
    /\ AtRest \in Locals
    /\ \A w \in Workers : Over(w) \in Locals
<1>1. NoFile \in File
  BY DEF NoFile, File
<1>2. AtRest \in Locals
  BY <1>1 DEF AtRest, Locals, RunPCs
<1>3. ASSUME NEW w \in Workers PROVE Over(w) \in Locals
  BY <1>2 DEF Over, Locals, RunPCs
<1>. QED  BY <1>1, <1>2, <1>3

\* What inputPending returns is an input.
LEMMA GatheredTyped == ASSUME pending \in File PROVE Gathered \in Input
BY DEF Gathered, Input, File

LEMMA InitTyped == Init => Typed
<1> SUFFICES ASSUME Init PROVE Typed
  OBVIOUS
<1>1. run \in [Workers -> Locals]
  BY ConstantsTyped DEF Init
<1>2. pending \in File /\ faults \in 0..MaxFaults
  BY ConstantsTyped, BoundAssumption DEF Init
<1>. QED  BY <1>1, <1>2 DEF Init, Typed

LEMMA EnqueueTyped ==
    ASSUME Typed, NEW i \in Items, Enqueue(i)
    PROVE  Typed'
<1>1. CASE OpenPending(i)
  <2>1. pending' \in File
    BY <1>1 DEF OpenPending, Typed, File
  <2>. QED  BY <1>1, <2>1 DEF OpenPending, Typed, history
<1>2. CASE ParkItem(i)
  <2>1. pending' \in File
    BY <1>2 DEF ParkItem, Typed, File
  <2>. QED  BY <1>2, <2>1 DEF ParkItem, Typed, history
<1>. QED  BY <1>1, <1>2 DEF Enqueue

\* A step of a run changes one worker's locals, to well-typed ones.
LEMMA RunTyped ==
    ASSUME Typed, NEW w \in Workers
    PROVE  /\ Gather(w) => run' \in [Workers -> Locals]
           /\ SkipEmpty(w) => run' \in [Workers -> Locals]
           /\ SkipUnchanged(w) => run' \in [Workers -> Locals]
           /\ CallModel(w) => run' \in [Workers -> Locals]
           /\ ModelFails(w) => run' \in [Workers -> Locals]
           /\ \A drop \in SUBSET Items : ModelJudges(w, drop) => run' \in [Workers -> Locals]
           /\ ModelAnswersProse(w) => run' \in [Workers -> Locals]
           /\ ReadPending(w) => run' \in [Workers -> Locals]
           /\ TruncatePending(w) => run' \in [Workers -> Locals]
           /\ WritePending(w) => run' \in [Workers -> Locals]
           /\ Render(w) => run' \in [Workers -> Locals]
           /\ RenderFails(w) => run' \in [Workers -> Locals]
           /\ SetDigest(w) => run' \in [Workers -> Locals]
           /\ Dies(w) => run' \in [Workers -> Locals]
<1>1. run \in [Workers -> Locals] /\ run[w] \in Locals /\ pending \in File
  BY DEF Typed
<1>2. ASSUME NEW pc \in RunPCs
      PROVE  [run EXCEPT ![w].pc = pc] \in [Workers -> Locals]
  BY <1>1 DEF Locals
<1>3. [run EXCEPT ![w] = Over(w)] \in [Workers -> Locals]
  BY <1>1, ConstantsTyped
<1>4. [run EXCEPT ![w] = [AtRest EXCEPT !.pc = "gathered", !.input = Gathered]]
         \in [Workers -> Locals]
  BY <1>1, ConstantsTyped, GatheredTyped DEF Locals, RunPCs
<1>5. ASSUME NEW drop \in SUBSET Items
      PROVE  [run EXCEPT ![w].pc = "drop", ![w].drop = drop] \in [Workers -> Locals]
  BY <1>1 DEF Locals, RunPCs
<1>6. [run EXCEPT ![w].pc = "render", ![w].keep = NoFile] \in [Workers -> Locals]
  BY <1>1, ConstantsTyped DEF Locals, RunPCs
<1>7. ASSUME NEW pc \in RunPCs
      PROVE  [run EXCEPT ![w].pc = pc,
                         ![w].keep = [pending EXCEPT !.lines = @ \ run[w].drop],
                         ![w].drop = {}] \in [Workers -> Locals]
  <2>1. [pending EXCEPT !.lines = @ \ run[w].drop] \in File
    BY <1>1 DEF File
  <2>. QED  BY <1>1, <2>1 DEF Locals
<1>8. {"gathered", "model", "drop", "truncate", "write", "render", "digest"} \subseteq RunPCs
  BY DEF RunPCs
<1>9. (IF pending.exists THEN "truncate" ELSE "render") \in RunPCs
  BY DEF RunPCs
<1>10. Gather(w) => run' \in [Workers -> Locals]
  BY <1>4 DEF Gather
<1>11. SkipEmpty(w) \/ SkipUnchanged(w) \/ ModelFails(w) \/ RenderFails(w) \/ SetDigest(w) \/ Dies(w)
         => run' \in [Workers -> Locals]
  BY <1>3 DEF SkipEmpty, SkipUnchanged, ModelFails, RenderFails, SetDigest, Dies
<1>12. CallModel(w) \/ ModelAnswersProse(w) \/ TruncatePending(w) \/ Render(w)
         => run' \in [Workers -> Locals]
  BY <1>2, <1>8 DEF CallModel, ModelAnswersProse, TruncatePending, Render
<1>13. \A drop \in SUBSET Items : ModelJudges(w, drop) => run' \in [Workers -> Locals]
  BY <1>5 DEF ModelJudges
<1>14. ReadPending(w) => run' \in [Workers -> Locals]
  BY <1>7, <1>9 DEF ReadPending
<1>15. WritePending(w) => run' \in [Workers -> Locals]
  BY <1>6 DEF WritePending
<1>. QED  BY <1>10, <1>11, <1>12, <1>13, <1>14, <1>15

LEMMA StepTyped ==
    ASSUME Typed, NEW w \in Workers,
           \/ Gather(w) \/ Step(w) \/ ModelFails(w) \/ RenderFails(w) \/ Dies(w)
    PROVE  Typed'
<1>1. run \in [Workers -> Locals] /\ run[w] \in Locals
      /\ run[w].input \in Input \cup {NoInput} /\ run[w].keep \in File
  BY DEF Typed, Locals
<1>2. CASE Gather(w) \/ SkipEmpty(w) \/ SkipUnchanged(w) \/ CallModel(w) \/ ModelAnswersProse(w)
  BY <1>2, RunTyped DEF Typed, Gather, SkipEmpty, SkipUnchanged, CallModel, ModelAnswersProse, history
<1>3. CASE ModelFails(w) \/ RenderFails(w) \/ Dies(w)
  <2>1. faults + 1 \in 0..MaxFaults
    BY <1>3, BoundAssumption DEF Typed, ModelFails, RenderFails, Dies
  <2>2. disturbed' \in BOOLEAN
    BY <1>3 DEF Typed, ModelFails, RenderFails, Dies, history
  <2>. QED  BY <1>3, <2>1, <2>2, RunTyped DEF Typed, ModelFails, RenderFails, Dies, history
<1>4. ASSUME NEW drop \in SUBSET Items, ModelJudges(w, drop) PROVE Typed'
  BY <1>4, RunTyped DEF Typed, ModelJudges
<1>5. CASE ReadPending(w)
  BY <1>5, RunTyped DEF Typed, ReadPending
<1>6. CASE TruncatePending(w)
  <2>1. pending' \in File
    BY <1>6 DEF TruncatePending, NoFile, File
  <2>. QED  BY <1>6, <2>1, RunTyped DEF Typed, TruncatePending, history
<1>7. CASE Render(w)
  <2>1. run[w].input.items \subseteq Items
    <3>1. CASE run[w].input \in Input
      BY <3>1 DEF Input
    <3>2. CASE run[w].input = NoInput
      BY <3>2 DEF NoInput
    <3>. QED  BY <1>1, <3>1, <3>2
  <2>. QED  BY <1>7, <2>1, RunTyped DEF Typed, Render
<1>8. CASE SetDigest(w)
  BY <1>1, <1>8, RunTyped DEF Typed, SetDigest, history
<1>9. CASE WritePending(w)
  <2>. DEFINE keep == run[w].keep
  <2>1. pending' \in File
    <3>1. CASE pending' = keep
      BY <1>1, <3>1
    <3>2. ASSUME NEW left \in SUBSET pending.lines, NEW damaged \in BOOLEAN,
                 pending' = [keep EXCEPT !.lines = @ \cup left, !.damaged = @ \/ damaged]
          PROVE  pending' \in File
      <4>1. keep.lines \cup left \in SUBSET Items /\ (keep.damaged \/ damaged) \in BOOLEAN
        BY <1>1 DEF Typed, File
      <4>. QED  BY <1>1, <3>2, <4>1 DEF File
    <3>. QED  BY <1>9, <3>1, <3>2 DEF WritePending
  <2>. QED  BY <1>9, <2>1, RunTyped DEF Typed, WritePending, history
<1>. QED  BY <1>2, <1>3, <1>4, <1>5, <1>6, <1>7, <1>8, <1>9 DEF Step

LEMMA NextTyped == Typed /\ [Next]_vars => Typed'
<1> SUFFICES ASSUME Typed, [Next]_vars PROVE Typed'
  OBVIOUS
<1>1. CASE UNCHANGED vars
  BY <1>1 DEF vars, Typed
<1>2. CASE Next
  BY <1>2, EnqueueTyped, StepTyped DEF Next
<1>. QED  BY <1>1, <1>2

\* A step of a run that leaves the file alone, and either does not begin a
\* rewrite or begins it from a file that is there, preserves FileInv.
LEMMA FileStep ==
    ASSUME Typed, FileInv, NEW w \in Workers,
           Gather(w) \/ Step(w) \/ ModelFails(w) \/ RenderFails(w) \/ Dies(w)
    PROVE  FileInv'
<1>1. run[w] \in Locals /\ client' = client
      /\ \A v \in Workers : v # w => run'[v] = run[v]
  <2>1. run[w] \in Locals
    BY DEF Typed
  <2>2. client' = client
    BY DEF Step, Gather, SkipEmpty, SkipUnchanged, CallModel, ModelFails, ModelJudges, ModelAnswersProse,
           ReadPending, TruncatePending, WritePending, Render, RenderFails, SetDigest, Dies
  <2>3. \A v \in Workers : v # w => run'[v] = run[v]
    BY DEF Typed, Step, Gather, SkipEmpty, SkipUnchanged, CallModel, ModelFails, ModelJudges,
           ModelAnswersProse, ReadPending, TruncatePending, WritePending, Render, RenderFails,
           SetDigest, Dies
  <2>. QED  BY <2>1, <2>2, <2>3
<1>2. CASE Gather(w)
  <2>1. pending' = pending /\ run'[w].pc = "gathered"
    BY <1>2 DEF Gather, Typed, AtRest
  <2>. QED  BY <1>1, <2>1 DEF FileInv, Rewriting
<1>3. CASE SkipEmpty(w) \/ SkipUnchanged(w) \/ ModelFails(w) \/ RenderFails(w) \/ SetDigest(w) \/ Dies(w)
  <2>1. pending' = pending /\ run'[w] = Over(w)
    BY <1>3 DEF SkipEmpty, SkipUnchanged, ModelFails, RenderFails, SetDigest, Dies, Typed
  <2>2. run'[w].pc \in {"idle", "done"}
    BY <2>1 DEF Over, AtRest
  <2>. QED  BY <1>1, <2>1, <2>2 DEF FileInv, Rewriting
<1>4. CASE CallModel(w) \/ ModelAnswersProse(w) \/ Render(w) \/ \E drop \in SUBSET Items : ModelJudges(w, drop)
  <2>1. pending' = pending /\ run'[w].pc \in {"model", "render", "digest", "drop"}
    BY <1>1, <1>4 DEF CallModel, ModelAnswersProse, Render, ModelJudges, Typed, Locals
  <2>. QED  BY <1>1, <2>1 DEF FileInv, Rewriting
<1>5. CASE ReadPending(w)
  <2>1. /\ pending' = pending
        /\ run'[w].pc \in {"truncate", "render"} /\ (run'[w].pc = "truncate" => pending.exists)
        /\ run'[w].keep.exists = pending.exists
    BY <1>1, <1>5 DEF ReadPending, Typed, Locals, File
  <2>. QED  BY <1>1, <2>1 DEF FileInv, Rewriting
<1>6. CASE TruncatePending(w)
  <2>1. pending'.exists /\ Rewriting(w) /\ run'[w].keep = run[w].keep
    BY <1>1, <1>6 DEF TruncatePending, Rewriting, NoFile, Typed, Locals
  <2>. QED  BY <1>1, <2>1 DEF FileInv, Rewriting
<1>7. CASE WritePending(w)
  <2>1. Rewriting(w) /\ run'[w].pc = "render"
    BY <1>1, <1>7 DEF WritePending, Rewriting, Typed, Locals
  <2>2. run[w].keep.exists /\ run[w].keep \in File
    BY <1>1, <2>1 DEF FileInv, Locals
  <2>3. pending'.exists
    BY <1>7, <2>2 DEF WritePending, File
  <2>. QED  BY <1>1, <2>1, <2>3 DEF FileInv, Rewriting
<1>. QED  BY <1>2, <1>3, <1>4, <1>5, <1>6, <1>7 DEF Step

\* So does an append: its open created the file.
LEMMA FileEnqueue ==
    ASSUME Typed, FileInv, NEW i \in Items, Enqueue(i)
    PROVE  FileInv'
<1>1. run' = run
  BY DEF Enqueue, OpenPending, ParkItem, history
<1>2. pending'.exists
  <2>1. CASE OpenPending(i)
    BY <2>1 DEF OpenPending, Typed, File
  <2>2. CASE ParkItem(i)
    <3>1. pending.exists
      BY <2>2 DEF ParkItem, FileInv
    <3>. QED  BY <2>2, <3>1 DEF ParkItem, Typed, File
  <2>. QED  BY <2>1, <2>2 DEF Enqueue
<1>. QED  BY <1>1, <1>2 DEF FileInv, Rewriting

\* Every variable and every worker's locals keep their type, and the pending
\* file, once created, is there for whoever parks an item or rewrites the list
\* (enqueue.go, cmdEnqueue; worker.go, dropPending).
THEOREM JudgeTypeCorrect == Spec => []TypeOK
<1>1. Init => TypeOK
  <2>1. Init => FileInv
    BY DEF Init, FileInv, Rewriting, AtRest
  <2>. QED  BY <2>1, InitTyped DEF TypeOK
<1>2. TypeOK /\ [Next]_vars => TypeOK'
  <2> SUFFICES ASSUME Typed, FileInv, [Next]_vars PROVE Typed' /\ FileInv'
    BY DEF TypeOK
  <2>1. Typed'
    BY NextTyped
  <2>2. FileInv'
    <3>1. CASE UNCHANGED vars
      BY <3>1 DEF vars, FileInv, Rewriting
    <3>2. CASE Next
      BY <3>2, FileEnqueue, FileStep DEF Next
    <3>. QED  BY <3>1, <3>2
  <2>. QED  BY <2>1, <2>2
<1>. QED  BY <1>1, <1>2, PTL DEF Spec

-----------------------------------------------------------------------------
(* No parked item is lost while nothing disturbs a rewrite.                 *)

\* Rewrites do not overlap.
SoleRewriter ==
    ~disturbed => \A w, v \in Workers : Rewriting(w) /\ Rewriting(v) => w = v

\* What a run is about to empty the file of, it keeps, or a model judged it.
KeepInv ==
    ~disturbed => \A w \in Workers :
        run[w].pc = "truncate" => pending.lines \subseteq run[w].keep.lines \cup judged

\* An emptied file stays empty until it is written.
EmptiedInv ==
    ~disturbed => \A w \in Workers :
        run[w].pc = "write" => pending.lines = {} /\ ~pending.damaged

\* What a run takes out of the file, a model judged.
DropInv == \A w \in Workers : run[w].pc = "drop" => run[w].drop \subseteq judged

RewriteInv ==
    SoleRewriter /\ KeepInv /\ EmptiedInv /\ DropInv /\ NothingLostUndisturbed

\* A step that leaves the file and the clients alone, and takes a worker only
\* out of the rewriting of the file, preserves the invariant.
LEMMA QuietStep ==
    ASSUME Typed, RewriteInv, NEW w \in Workers,
           pending' = pending, client' = client, judged' = judged,
           disturbed => disturbed',
           NEW local, run' = [run EXCEPT ![w] = local],
           local.pc \notin {"truncate", "write", "drop"},
           run[w].pc = "write" => disturbed'
    PROVE  RewriteInv'
<1>1. \A v \in Workers : v # w => run'[v] = run[v]
  BY DEF Typed
<1>2. run'[w].pc \notin {"truncate", "write", "drop"}
  BY DEF Typed
<1>3. SoleRewriter'
  BY <1>1, <1>2 DEF RewriteInv, SoleRewriter, Rewriting
<1>4. KeepInv' /\ EmptiedInv' /\ DropInv'
  BY <1>1, <1>2 DEF RewriteInv, KeepInv, EmptiedInv, DropInv
<1>5. NothingLostUndisturbed'
  BY <1>1, <1>2 DEF RewriteInv, NothingLostUndisturbed
<1>. QED  BY <1>3, <1>4, <1>5 DEF RewriteInv

\* The program counter of Over and of a fresh run.
LEMMA OverAtRest ==
    ASSUME NEW w \in Workers PROVE Over(w).pc \in {"idle", "done"}
BY DEF Over, AtRest

LEMMA EnqueueLosesNothing ==
    ASSUME Typed, RewriteInv, NEW i \in Items, Enqueue(i)
    PROVE  RewriteInv'
<1>1. CASE OpenPending(i)
  <2>1. /\ pending'.lines = pending.lines /\ pending'.damaged = pending.damaged
        /\ run' = run /\ judged' = judged /\ disturbed' = disturbed
    BY <1>1 DEF OpenPending, Typed, File, history
  <2>2. \A j \in Items : client'[j] = "parked" => client[j] = "parked"
    BY <1>1 DEF OpenPending, Typed
  <2>3. SoleRewriter' /\ KeepInv' /\ EmptiedInv' /\ DropInv'
    BY <2>1 DEF RewriteInv, SoleRewriter, Rewriting, KeepInv, EmptiedInv, DropInv
  <2>4. NothingLostUndisturbed'
    BY <2>1, <2>2 DEF RewriteInv, NothingLostUndisturbed
  <2>. QED  BY <2>3, <2>4 DEF RewriteInv
<1>2. CASE ParkItem(i)
  <2>1. /\ pending'.lines = pending.lines \cup {i}
        /\ run' = run /\ judged' = judged
        /\ ~disturbed' => ~disturbed /\ \A w \in Workers : ~Rewriting(w)
    BY <1>2 DEF ParkItem, Typed, File
  <2>2. \A j \in Items : client'[j] = "parked" => j = i \/ client[j] = "parked"
    BY <1>2 DEF ParkItem, Typed
  <2>3. SoleRewriter' /\ KeepInv' /\ EmptiedInv' /\ DropInv'
    BY <2>1 DEF RewriteInv, SoleRewriter, Rewriting, KeepInv, EmptiedInv, DropInv
  <2>4. NothingLostUndisturbed'
    BY <2>1, <2>2 DEF RewriteInv, NothingLostUndisturbed
  <2>. QED  BY <2>3, <2>4 DEF RewriteInv
<1>. QED  BY <1>1, <1>2 DEF Enqueue

\* The steps that do not rewrite the file, nor prepare a rewrite.
LEMMA OtherStepsLoseNothing ==
    ASSUME Typed, RewriteInv, NEW w \in Workers,
           \/ Gather(w) \/ SkipEmpty(w) \/ SkipUnchanged(w) \/ CallModel(w)
           \/ ModelAnswersProse(w) \/ Render(w) \/ SetDigest(w)
           \/ ModelFails(w) \/ RenderFails(w) \/ Dies(w)
    PROVE  RewriteInv'
<1>1. run[w] \in Locals
  BY DEF Typed
<1>2. CASE Gather(w)
  <2>. DEFINE local == [AtRest EXCEPT !.pc = "gathered", !.input = Gathered]
  <2>1. local.pc = "gathered"
    BY DEF AtRest
  <2>2. run' = [run EXCEPT ![w] = local]
    BY <1>2 DEF Gather
  <2>3. pending' = pending /\ client' = client /\ judged' = judged /\ disturbed' = disturbed
        /\ run[w].pc = "idle"
    BY <1>2 DEF Gather, history
  <2>. HIDE DEF local
  <2>. QED  BY <2>1, <2>2, <2>3, QuietStep
<1>3. CASE SkipEmpty(w) \/ SkipUnchanged(w) \/ ModelFails(w) \/ RenderFails(w) \/ SetDigest(w)
  <2>1. /\ run' = [run EXCEPT ![w] = Over(w)] /\ run[w].pc # "write"
        /\ pending' = pending /\ client' = client /\ judged' = judged /\ disturbed' = disturbed
    BY <1>3 DEF SkipEmpty, SkipUnchanged, ModelFails, RenderFails, SetDigest, history
  <2>. QED  BY <2>1, OverAtRest, QuietStep
<1>4. CASE Dies(w)
  <2>1. /\ run' = [run EXCEPT ![w] = Over(w)] /\ (run[w].pc = "write" => disturbed')
        /\ pending' = pending /\ client' = client /\ judged' = judged
        /\ disturbed => disturbed'
    BY <1>4 DEF Dies
  <2>. QED  BY <2>1, OverAtRest, QuietStep
<1>5. CASE CallModel(w) \/ ModelAnswersProse(w) \/ Render(w)
  <2>1. PICK pc \in {"model", "render", "digest"} : run' = [run EXCEPT ![w].pc = pc]
    BY <1>5 DEF CallModel, ModelAnswersProse, Render
  <2>2. /\ run[w].pc # "write" /\ pending' = pending /\ client' = client
        /\ judged' = judged /\ disturbed' = disturbed
    BY <1>5 DEF CallModel, ModelAnswersProse, Render, history
  <2>. DEFINE local == [run[w] EXCEPT !.pc = pc]
  <2>3. local.pc = pc
    BY <1>1 DEF Locals
  <2>4. run' = [run EXCEPT ![w] = local]
    BY <2>1
  <2>. HIDE DEF local
  <2>. QED  BY <2>1, <2>2, <2>3, <2>4, QuietStep
<1>. QED  BY <1>2, <1>3, <1>4, <1>5

LEMMA JudgingLosesNothing ==
    ASSUME Typed, RewriteInv, NEW w \in Workers, NEW drop, ModelJudges(w, drop)
    PROVE  RewriteInv'
<1>1. /\ run[w].pc = "model" /\ judged' = judged \cup drop
      /\ pending' = pending /\ client' = client /\ disturbed' = disturbed
  BY DEF ModelJudges
<1>2. /\ run'[w].pc = "drop" /\ run'[w].drop = drop
      /\ \A v \in Workers : v # w => run'[v] = run[v]
  BY DEF ModelJudges, Typed, Locals
<1>3. SoleRewriter' /\ KeepInv' /\ EmptiedInv' /\ DropInv'
  BY <1>1, <1>2 DEF RewriteInv, SoleRewriter, Rewriting, KeepInv, EmptiedInv, DropInv
<1>4. NothingLostUndisturbed'
  BY <1>1, <1>2 DEF RewriteInv, NothingLostUndisturbed
<1>. QED  BY <1>3, <1>4 DEF RewriteInv

LEMMA ReadingLosesNothing ==
    ASSUME Typed, RewriteInv, NEW w \in Workers, ReadPending(w)
    PROVE  RewriteInv'
<1>1. /\ run[w].pc = "drop"
      /\ pending' = pending /\ client' = client /\ judged' = judged
      /\ ~disturbed' => ~disturbed /\ \A v \in Workers : ~Rewriting(v)
  BY DEF ReadPending
<1>2. /\ run'[w].pc \in {"truncate", "render"}
      /\ run'[w].keep.lines = pending.lines \ run[w].drop
      /\ \A v \in Workers : v # w => run'[v] = run[v]
  BY DEF ReadPending, Typed, Locals, File
<1>3. run[w].drop \subseteq judged
  BY <1>1 DEF RewriteInv, DropInv
<1>4. SoleRewriter' /\ EmptiedInv' /\ DropInv'
  BY <1>1, <1>2 DEF RewriteInv, SoleRewriter, Rewriting, EmptiedInv, DropInv
<1>5. KeepInv'
  BY <1>1, <1>2, <1>3 DEF RewriteInv, KeepInv
<1>6. NothingLostUndisturbed'
  BY <1>1, <1>2 DEF RewriteInv, NothingLostUndisturbed
<1>. QED  BY <1>4, <1>5, <1>6 DEF RewriteInv

LEMMA TruncatingLosesNothing ==
    ASSUME Typed, RewriteInv, NEW w \in Workers, TruncatePending(w)
    PROVE  RewriteInv'
<1>1. /\ run[w].pc = "truncate" /\ client' = client
      /\ judged' = judged /\ disturbed' = disturbed
  BY DEF TruncatePending, history
<1>2. pending'.lines = {} /\ ~pending'.damaged
  BY DEF TruncatePending, NoFile
<1>3. /\ run'[w].pc = "write" /\ run'[w].keep = run[w].keep
      /\ \A v \in Workers : v # w => run'[v] = run[v]
  BY DEF TruncatePending, Typed, Locals
<1>4. SoleRewriter'
  BY <1>1, <1>3 DEF RewriteInv, SoleRewriter, Rewriting
<1>5. KeepInv' /\ EmptiedInv' /\ DropInv'
  BY <1>1, <1>2, <1>3 DEF RewriteInv, KeepInv, EmptiedInv, DropInv
<1>6. NothingLostUndisturbed'
  <2> SUFFICES ASSUME NEW i \in Items, client'[i] = "parked", ~disturbed'
               PROVE  \/ i \in (pending.lines \cup judged)'
                      \/ \E v \in Workers : (run[v].pc = "write" /\ i \in run[v].keep.lines)'
    BY DEF NothingLostUndisturbed
  <2>1. CASE i \in pending.lines \cup judged
    BY <1>1, <1>3, <2>1 DEF RewriteInv, KeepInv
  <2>2. ASSUME NEW v \in Workers, run[v].pc = "write", i \in run[v].keep.lines
        PROVE  run'[v].pc = "write" /\ i \in run'[v].keep.lines
    BY <1>1, <1>3, <2>2
  <2>. QED  BY <1>1, <2>1, <2>2 DEF RewriteInv, NothingLostUndisturbed
<1>. QED  BY <1>4, <1>5, <1>6 DEF RewriteInv

LEMMA WritingLosesNothing ==
    ASSUME Typed, RewriteInv, NEW w \in Workers, WritePending(w)
    PROVE  RewriteInv'
<1>1. /\ run[w].pc = "write" /\ client' = client
      /\ judged' = judged /\ disturbed' = disturbed
  BY DEF WritePending, history
<1>2. /\ run'[w].pc = "render"
      /\ \A v \in Workers : v # w => run'[v] = run[v]
  BY DEF WritePending, Typed, Locals
<1>3. ~disturbed => pending' = run[w].keep
  BY <1>1 DEF WritePending, RewriteInv, EmptiedInv
<1>4. ~disturbed => \A v \in Workers : ~(run'[v].pc \in {"truncate", "write"})
  BY <1>1, <1>2 DEF RewriteInv, SoleRewriter, Rewriting
<1>5. SoleRewriter' /\ KeepInv' /\ EmptiedInv' /\ DropInv'
  BY <1>1, <1>2, <1>4 DEF RewriteInv, SoleRewriter, Rewriting, KeepInv, EmptiedInv, DropInv
<1>6. NothingLostUndisturbed'
  <2> SUFFICES ASSUME NEW i \in Items, client'[i] = "parked", ~disturbed'
               PROVE  i \in (pending.lines \cup judged)'
    BY DEF NothingLostUndisturbed
  <2>1. CASE i \in judged
    BY <1>1, <2>1
  <2>2. CASE \E v \in Workers : run[v].pc = "write" /\ i \in run[v].keep.lines
    <3>1. i \in run[w].keep.lines
      BY <1>1, <2>2 DEF RewriteInv, SoleRewriter, Rewriting
    <3>. QED  BY <1>1, <1>3, <3>1
  <2>3. pending.lines = {}
    BY <1>1 DEF RewriteInv, EmptiedInv
  <2>. QED  BY <1>1, <2>1, <2>2, <2>3 DEF RewriteInv, NothingLostUndisturbed
<1>. QED  BY <1>5, <1>6 DEF RewriteInv

\* Until an append or another rewrite comes between a run's truncation and its
\* write (dropPending's os.WriteFile), or the process dies there, every parked
\* item is in the file, in the hands of the one run that has just emptied it,
\* or was judged by a model: any number of items, workers and faults.
THEOREM NothingLost == Spec => []NothingLostUndisturbed
<1>1. Init => RewriteInv
  BY DEF Init, AtRest, RewriteInv, SoleRewriter, Rewriting, KeepInv, EmptiedInv, DropInv,
         NothingLostUndisturbed
<1>2. Typed /\ RewriteInv /\ [Next]_vars => RewriteInv'
  <2> SUFFICES ASSUME Typed, RewriteInv, [Next]_vars PROVE RewriteInv'
    OBVIOUS
  <2>1. CASE UNCHANGED vars
    BY <2>1 DEF vars, RewriteInv, SoleRewriter, Rewriting, KeepInv, EmptiedInv, DropInv,
                NothingLostUndisturbed
  <2>2. ASSUME NEW i \in Items, Enqueue(i) PROVE RewriteInv'
    BY <2>2, EnqueueLosesNothing
  <2>3. ASSUME NEW w \in Workers,
               Gather(w) \/ Step(w) \/ ModelFails(w) \/ RenderFails(w) \/ Dies(w)
        PROVE  RewriteInv'
    BY <2>3, OtherStepsLoseNothing, JudgingLosesNothing, ReadingLosesNothing,
       TruncatingLosesNothing, WritingLosesNothing DEF Step
  <2>. QED  BY <2>1, <2>2, <2>3 DEF Next
<1>3. RewriteInv => NothingLostUndisturbed
  BY DEF RewriteInv
<1>4. TypeOK => Typed
  BY DEF TypeOK
<1>. QED  BY <1>1, <1>2, <1>3, <1>4, JudgeTypeCorrect, PTL DEF Spec
=============================================================================
