--------------------------- MODULE ClueHuntProofs ---------------------------
(***************************************************************************)
(* Theorems about the hunt, for any number of clues, codes and scans: the  *)
(* order of a scan's two writes, the refinements of TreasureHunt and of    *)
(* the promises of the store, and what the two gets of a launch lead to.   *)
(***************************************************************************)
EXTENDS ClueHunt, ShownProofs

-----------------------------------------------------------------------------
(* Type correctness *)

LEMMA HuntCells ==
    /\ LastPath \in Cells /\ Final \in Cells /\ Routes \subseteq Cells /\ Clues \subseteq Cells
    /\ Routes \subseteq Vals /\ "locked" \in Vals /\ "unlocked" \in Vals
    /\ LastPath \notin Routes \cup {Final} /\ Final \notin Routes
    /\ Codes = Routes \cup {Final} \cup Malformed
    /\ DoneIntro \in Cells /\ Flags \subseteq Vals
    /\ DoneIntro \notin Routes \cup Clues \cup {Final, LastPath}
BY HuntAssumption DEF Clues, Routes, Codes

LEMMA HuntTypeInit == HuntInit => HuntTypeOK
<1> SUFFICES ASSUME HuntInit PROVE HuntTypeOK
  OBVIOUS
<1>1. TypeOK
  BY TypeInit DEF HuntInit
<1>2. loading \in [Routes \cup {Final} -> Nat]
  BY DEF HuntInit, NoLoads
<1>3. inputs \in 0 .. MaxInputs
  BY HuntAssumption DEF HuntInit
<1> QED
  BY <1>1, <1>2, <1>3 DEF HuntInit, HuntTypeOK

\* The session of a process that ends, and the loads it had under way.
LEMMA HuntTypeCrash ==
    ASSUME HuntTypeOK, NEW reason \in {"file", "source", "path", "cast"}, Crash(reason),
           QRCodeValue' \in Codes \cup {None}, inputs' \in 0 .. MaxInputs
    PROVE  HuntTypeOK'
<1>1. TypeOK'
  BY ExitType DEF HuntTypeOK, Crash
<1> QED
  BY <1>1 DEF HuntTypeOK, Crash, HomeGone, NoLoads

LEMMA SubmitLoadType ==
    ASSUME HuntTypeOK, NEW c \in Routes, SubmitLoad(c)
    PROVE  loading' \in [Routes \cup {Final} -> Nat]
BY DEF HuntTypeOK, SubmitLoad

\* The calls of a scan are requests to the worker.
LEMMA ScanCalls ==
    /\ UpdateData(Final, "unlocked") \in Mutations
    /\ \A c \in Routes : /\ SetData(LastPath, c) \in Mutations
                         /\ UpdateData(c, "unlocked") \in Mutations
    /\ GetDocument(LastPath) \in GetReqs /\ GetDocument(DoneIntro) \in GetReqs
    /\ UpdateData(DoneIntro, "done") \in Mutations
BY HuntCells, CallTypes DEF Flags

LEMMA HuntTypeScan ==
    ASSUME HuntTypeOK, NEW code \in Codes, Scan(code)
    PROVE  HuntTypeOK'
<1>1. inputs' \in 0 .. MaxInputs
  BY HuntAssumption DEF HuntTypeOK, Scan
<1>2. ASSUME worker' \in Seq(Mutations \cup GetReqs),
             UNCHANGED <<server, disk, stream, gets, online, mainQueue, up>>
      PROVE  TypeOK'
  BY <1>2 DEF HuntTypeOK, TypeOK, disk, stream
<1>3. CASE ScanFinal
  <2>1. <<UpdateData(Final, "unlocked")>> \in Seq(Mutations \cup GetReqs)
    BY ScanCalls, RequestType
  <2>2. worker' \in Seq(Mutations \cup GetReqs)
    BY <1>3, <2>1, EnqueueType DEF ScanFinal, HuntTypeOK
  <2>3. TypeOK'
    BY <1>2, <1>3, <2>2 DEF ScanFinal
  <2> QED
    BY <1>1, <1>3, <2>3, HuntCells DEF ScanFinal, HuntTypeOK
<1>4. CASE code \in Routes /\ ScanClue(code)
  <2>1. <<SetData(LastPath, code), UpdateData(code, "unlocked")>> \in Seq(Mutations \cup GetReqs)
    BY <1>4, ScanCalls
  <2>2. worker' \in Seq(Mutations \cup GetReqs)
    BY <1>4, <2>1, EnqueueType DEF ScanClue, HuntTypeOK
  <2>3. TypeOK'
    BY <1>2, <1>4, <2>2 DEF ScanClue
  <2>4. loading' \in [Routes \cup {Final} -> Nat]
    BY <1>4, SubmitLoadType DEF ScanClue
  <2> QED
    BY <1>1, <1>4, <2>3, <2>4, HuntCells DEF ScanClue, HuntTypeOK
<1>5. CASE ScanMalformed(code)
  BY <1>1, <1>5, HuntTypeCrash DEF ScanMalformed
<1> QED
  BY <1>3, <1>4, <1>5 DEF Scan

LEMMA HuntTypeMain ==
    ASSUME HuntTypeOK, MainStep
    PROVE  HuntTypeOK'
<1>1. CASE GotLastPath
  <2>1. TypeOK'
    BY <1>1, TakeGotType DEF GotLastPath, HuntTypeOK
  <2>2. loading' \in [Routes \cup {Final} -> Nat]
    BY <1>1, SubmitLoadType DEF GotLastPath, HuntTypeOK
  <2> QED
    BY <1>1, <2>1, <2>2 DEF GotLastPath, HuntTypeOK
<1>2. CASE DrawPolyline
  <2> DEFINE c == Head(mainQueue).clue
  <2>1. CASE style /\ c \in sources
    <3>1. Crash("source") /\ UNCHANGED <<QRCodeValue, inputs>>
      BY <1>2, <2>1 DEF DrawPolyline
    <3> QED
      BY <3>1, HuntTypeCrash DEF HuntTypeOK
  <2>2. CASE ~(style /\ c \in sources)
    <3>1. Head(mainQueue) \in GotTasks \cup OtherTasks /\ mainQueue # <<>>
      BY <1>2, HeadTailProperties DEF DrawPolyline, HuntTypeOK, TypeOK
    <3>2. c \in Bundled
      BY <1>2, <3>1, HuntAssumption DEF DrawPolyline, GotTasks
    <3>3. mainQueue' \in Seq(GotTasks \cup OtherTasks)
      BY <1>2, <2>2, <3>1, HeadTailProperties, ZenonT(30) DEF DrawPolyline, HuntTypeOK, TypeOK
    <3>4. TypeOK'
      BY <1>2, <2>2, <3>3 DEF DrawPolyline, HuntTypeOK, TypeOK, disk, stream
    <3> QED
      BY <1>2, <2>2, <3>2, <3>4 DEF DrawPolyline, HuntTypeOK
  <2> QED
    BY <2>1, <2>2
<1>3. CASE GotDoneIntro
  <2>1. CASE Crash("cast") /\ UNCHANGED <<QRCodeValue, inputs>>
    BY <2>1, HuntTypeCrash DEF HuntTypeOK
  <2>2. CASE TakeGot /\ UNCHANGED <<QRCodeValue, loading, style, sources, foundAll, crash, inputs>>
    <3>1. TypeOK'
      BY <2>2, TakeGotType DEF HuntTypeOK
    <3>2. intro' \in BOOLEAN
      BY <1>3, <2>2 DEF GotDoneIntro, Present, HuntTypeOK, Crash, HomeGone
    <3> QED
      BY <2>2, <3>1, <3>2 DEF HuntTypeOK
  <2> QED
    BY <1>3, <2>1, <2>2 DEF GotDoneIntro
<1> QED
  BY <1>1, <1>2, <1>3 DEF MainStep

LEMMA HuntTypeLoad ==
    ASSUME HuntTypeOK, NEW c \in Routes \cup {Final}, LoadGeoJson(c)
    PROVE  HuntTypeOK'
<1>1. CASE c \notin Clues
  <2>1. Crash("file") /\ UNCHANGED <<QRCodeValue, inputs>>
    BY <1>1 DEF LoadGeoJson
  <2> QED
    BY <2>1, HuntTypeCrash DEF HuntTypeOK
<1>2. CASE c \in Clues
  <2>1. loading' \in [Routes \cup {Final} -> Nat]
    BY <1>2 DEF LoadGeoJson, HuntTypeOK
  <2>2. mainQueue' \in Seq(GotTasks \cup OtherTasks)
    <3>1. CASE c = Final
      BY <1>2, <3>1 DEF LoadGeoJson, HuntTypeOK, TypeOK
    <3>2. CASE c # Final
      <4>1. Draw(c) \in GotTasks \cup OtherTasks
        BY <1>2, <3>2, HuntAssumption DEF Draw, Clues
      <4>2. Append(mainQueue, Draw(c)) \in Seq(GotTasks \cup OtherTasks)
        BY <4>1, AppendProperties DEF HuntTypeOK, TypeOK
      <4> QED
        BY <1>2, <3>2, <4>2 DEF LoadGeoJson
    <3> QED
      BY <3>1, <3>2
  <2>3. TypeOK'
    BY <1>2, <2>2 DEF LoadGeoJson, HuntTypeOK, TypeOK, disk, stream
  <2> QED
    BY <1>2, <2>1, <2>3 DEF LoadGeoJson, HuntTypeOK
<1> QED
  BY <1>1, <1>2

LEMMA HuntTypeNext == HuntTypeOK /\ [HuntNext]_huntVars => HuntTypeOK'
<1> SUFFICES ASSUME HuntTypeOK, [HuntNext]_huntVars PROVE HuntTypeOK'
  OBVIOUS
<1>1. CASE Launch
  <2>1. <<GetDocument(LastPath), GetDocument(DoneIntro)>> \in Seq(Mutations \cup GetReqs)
    BY ScanCalls
  <2>2. TypeOK'
    BY <1>1, <2>1, StartType DEF Launch, HuntTypeOK
  <2> QED
    BY <1>1, <2>2 DEF Launch, HuntTypeOK
<1>2. CASE KillApp
  <2>1. TypeOK'
    BY <1>2, ExitType DEF KillApp, Kill, HuntTypeOK
  <2> QED
    BY <1>2, <2>1 DEF KillApp, HomeGone, HuntTypeOK, NoLoads
<1>3. CASE \E code \in Codes : Scan(code)
  BY <1>3, HuntTypeScan
<1>4. CASE MainStep
  BY <1>4, HuntTypeMain
<1>5. CASE LoadStep
  BY <1>5, HuntTypeLoad DEF LoadStep
<1>6. CASE StyleLoaded \/ DismissMessage \/ UNCHANGED huntVars
  <2>1. TypeOK'
    BY <1>6 DEF StyleLoaded, DismissMessage, huntVars, vars, HuntTypeOK, TypeOK
  <2> QED
    BY <1>6, <2>1 DEF StyleLoaded, DismissMessage, huntVars, home, HuntTypeOK
<1>7. CASE ClientStep
  <2>1. TypeOK'
    BY <1>7, TypeWorker, TypeNetwork DEF ClientStep, HuntTypeOK
  <2> QED
    BY <1>7, <2>1 DEF ClientStep, home, HuntTypeOK
<1>8. CASE DismissIntro
  <2>1. <<UpdateData(DoneIntro, "done")>> \in Seq(Mutations \cup GetReqs)
    BY ScanCalls, RequestType
  <2>2. worker' \in Seq(Mutations \cup GetReqs)
    BY <1>8, <2>1, EnqueueType DEF DismissIntro, HuntTypeOK
  <2>3. TypeOK'
    BY <1>8, <2>2 DEF DismissIntro, HuntTypeOK, TypeOK, disk, stream
  <2>4. inputs' \in 0 .. MaxInputs
    BY <1>8, HuntAssumption DEF DismissIntro, HuntTypeOK
  <2> QED
    BY <1>8, <2>3, <2>4 DEF DismissIntro, HuntTypeOK
<1> QED
  BY <1>1, <1>2, <1>3, <1>4, <1>5, <1>6, <1>7, <1>8 DEF HuntNext

\* Every state of the hunt has its type: no route is drawn that has no file, and every
\* task of the main queue belongs to the hunt or is an answer of Firestore.
THEOREM HuntTypeCorrect == HuntSpec => []HuntTypeOK
<1>1. HuntInit => HuntTypeOK
  BY HuntTypeInit
<1>2. HuntTypeOK /\ [HuntNext]_huntVars => HuntTypeOK'
  BY HuntTypeNext
<1> QED
  BY <1>1, <1>2, PTL DEF HuntSpec
-----------------------------------------------------------------------------
(* The client within the hunt *)

\* A step of the hunt is one of the client, the end of the process, or one that
\* leaves disk, server and streams alone.
LEMMA HuntStepKinds ==
    ASSUME [HuntNext]_huntVars
    PROVE  \/ ClientStep
           \/ Exit /\ UNCHANGED <<server, disk>>
           \/ UNCHANGED <<server, disk, stream>>
<1>1. CASE Launch
  BY <1>1 DEF Launch, Start
<1>2. CASE KillApp
  BY <1>2 DEF KillApp, Kill, Exit
<1>3. ASSUME NEW code \in Codes, Scan(code)
      PROVE  (Exit /\ UNCHANGED <<server, disk>>) \/ UNCHANGED <<server, disk, stream>>
  BY <1>3 DEF Scan, ScanFinal, ScanClue, ScanMalformed, Crash, Exit
<1>4. CASE GotLastPath
  BY <1>4 DEF GotLastPath, TakeGot
<1>5. CASE DrawPolyline
  BY <1>5 DEF DrawPolyline, Crash, Exit
<1>6. ASSUME NEW c \in Routes \cup {Final}, LoadGeoJson(c)
      PROVE  (Exit /\ UNCHANGED <<server, disk>>) \/ UNCHANGED <<server, disk, stream>>
  BY <1>6 DEF LoadGeoJson, Crash, Exit
<1>7. CASE StyleLoaded \/ DismissMessage \/ UNCHANGED huntVars
  BY <1>7 DEF StyleLoaded, DismissMessage, huntVars, vars, disk, stream
<1>8. CASE DismissIntro
  BY <1>8 DEF DismissIntro
<1>9. CASE GotDoneIntro
  BY <1>9 DEF GotDoneIntro, TakeGot, Crash, Exit
<1> QED
  BY <1>1, <1>2, <1>3, <1>4, <1>5, <1>6, <1>7, <1>8, <1>9 DEF HuntNext, MainStep, LoadStep

LEMMA HuntSyncNext == HuntTypeOK /\ SyncInv /\ [HuntNext]_huntVars => SyncInv'
<1> SUFFICES ASSUME HuntTypeOK, SyncInv, [HuntNext]_huntVars PROVE SyncInv'
  OBVIOUS
<1>1. CASE ClientStep
  BY <1>1, SyncStep DEF ClientStep, HuntTypeOK
<1>2. CASE Exit /\ UNCHANGED <<server, disk>>
  BY <1>2, SyncResend DEF Exit
<1>3. CASE UNCHANGED <<server, disk, stream>>
  BY <1>3, SyncUnchanged
<1> QED
  BY <1>1, <1>2, <1>3, HuntStepKinds

\* The streams keep their books in the hunt as well.
THEOREM HuntStreamsAreSound == HuntSpec => []SyncInv
<1>1. HuntInit => SyncInv
  BY SyncInit DEF HuntInit
<1>2. HuntTypeOK /\ SyncInv /\ [HuntNext]_huntVars => SyncInv'
  BY HuntSyncNext
<1> QED
  BY <1>1, <1>2, HuntTypeCorrect, PTL DEF HuntSpec
-----------------------------------------------------------------------------
(* The two writes of a scan *)

LEMMA CallFields ==
    /\ \A c, v : SetData(c, v).op = "set" /\ SetData(c, v).cell = c /\ SetData(c, v).val = v
    /\ \A c, v : /\ UpdateData(c, v).op = "update" /\ UpdateData(c, v).cell = c
                 /\ UpdateData(c, v).val = v
    /\ \A c : GetDocument(c).op = "get" /\ GetDocument(c).cell = c
BY DEF SetData, UpdateData, GetDocument

\* The worker queue without its front, as WorkerWrite and WorkerGet leave it.
LEMMA WorkerTail ==
    ASSUME TypeOK, worker # <<>>
    PROVE  /\ Len(worker) \in Nat \ {0} /\ Head(worker) = worker[1]
           /\ DOMAIN worker = 1 .. Len(worker)
           /\ DOMAIN Tail(worker) = 1 .. Len(worker) - 1
           /\ \A i \in 1 .. Len(worker) - 1 : Tail(worker)[i] = worker[i + 1]
<1>1. Len(worker) \in Nat \ {0}
  BY EmptySeq DEF TypeOK
<1>2. DOMAIN worker = 1 .. Len(worker) /\ DOMAIN Tail(worker) = 1 .. Len(worker) - 1
  BY HeadTailProperties, LenProperties DEF TypeOK
<1> QED
  BY <1>1, <1>2, HeadTailProperties DEF TypeOK

\* What the worker takes up in the hunt, and what becomes of the cells.
LEMMA TakenUp ==
    ASSUME TypeOK, CallsInOrder, WorkerWrite
    PROVE  LET m == worker[1]
           IN  /\ worker # <<>> /\ Head(worker) = m /\ worker' = Tail(worker)
               /\ \/ m \in {UpdateData(Final, "unlocked"), UpdateData(DoneIntro, "done")}
                  \/ \E c \in Routes : m = SetData(LastPath, c)
                  \/ \E c \in Routes : /\ m = UpdateData(c, "unlocked")
                                       /\ DurableView(LastPath) = c
               /\ m.op \in {"set", "update"} /\ m.cell \in Cells /\ m.val \in Vals
               /\ \A c \in Cells : DurableView(c)' =
                      IF c = m.cell /\ (DurableView(c) \in Vals \/ m.op = "set")
                      THEN m.val ELSE DurableView(c)
<1>1. /\ worker # <<>> /\ Head(worker) = worker[1] /\ worker' = Tail(worker)
      /\ 1 \in DOMAIN worker /\ worker[1].op # "get"
  BY WorkerTail DEF WorkerWrite
<1>2. \/ worker[1] \in {UpdateData(Final, "unlocked"), UpdateData(DoneIntro, "done")}
      \/ \E c \in Routes : worker[1] = SetData(LastPath, c)
      \/ \E c \in Routes : /\ worker[1] = UpdateData(c, "unlocked")
                           /\ DurableView(LastPath) = c
  BY <1>1, CallFields DEF CallsInOrder
<1>3. worker[1].op \in {"set", "update"} /\ worker[1].cell \in Cells /\ worker[1].val \in Vals
  BY <1>1, WorkerWriteEffect DEF Mutations
<1>4. \A c \in Cells : DurableView(c)' =
          IF c = worker[1].cell /\ (DurableView(c) \in Vals \/ worker[1].op = "set")
          THEN worker[1].val ELSE DurableView(c)
  BY <1>1, DurableWorkerWrite, EffectiveIsPresent
<1> QED
  BY <1>1, <1>2, <1>3, <1>4

\* A get changes nothing that lasts.
LEMMA GetTakenUp ==
    ASSUME TypeOK, WorkerGet
    PROVE  /\ worker # <<>> /\ worker' = Tail(worker) /\ worker[1].op = "get"
           /\ \A c \in Cells : DurableView(c)' = DurableView(c)
           /\ UNCHANGED <<server, queue>>
<1>1. worker # <<>> /\ worker' = Tail(worker) /\ UNCHANGED <<server, queue>>
  BY DEF WorkerGet, disk
<1>2. worker[1].op = "get"
  BY <1>1, WorkerTail DEF WorkerGet
<1>3. \A c \in Cells : DurableView(c)' = DurableView(c)
  BY <1>1 DEF DurableView
<1> QED
  BY <1>1, <1>2, <1>3

LEMMA CallsWorker ==
    ASSUME TypeOK, CallsInOrder, WorkerStep
    PROVE  CallsInOrder'
<1>1. /\ worker # <<>> /\ worker' = Tail(worker)
      /\ \A c \in Routes : worker[1] = SetData(LastPath, c) => DurableView(LastPath)' = c
  <2>1. CASE WorkerGet
    BY <2>1, GetTakenUp, CallFields
  <2>2. CASE WorkerWrite
    BY <2>2, TakenUp, CallFields, HuntCells
  <2> QED
    BY <2>1, <2>2 DEF WorkerStep
<1>2. SUFFICES ASSUME NEW i \in DOMAIN worker'
               PROVE  \/ worker'[i] \in {GetDocument(LastPath), GetDocument(DoneIntro)}
                      \/ worker'[i] \in {UpdateData(Final, "unlocked"),
                                         UpdateData(DoneIntro, "done")}
                      \/ \E c \in Routes : worker'[i] = SetData(LastPath, c)
                      \/ \E c \in Routes :
                            /\ worker'[i] = UpdateData(c, "unlocked")
                            /\ IF i = 1 THEN DurableView(LastPath)' = c
                                        ELSE worker'[i - 1] = SetData(LastPath, c)
  BY DEF CallsInOrder
<1>3. /\ i \in 1 .. Len(worker) - 1 /\ Len(worker) \in Nat
      /\ i + 1 \in DOMAIN worker /\ i + 1 # 1 /\ (i + 1) - 1 = i
      /\ worker'[i] = worker[i + 1]
  BY <1>1, WorkerTail
<1>4. CASE \E c \in Routes : /\ worker[i + 1] = UpdateData(c, "unlocked")
                             /\ worker[i] = SetData(LastPath, c)
  <2>1. PICK c \in Routes : /\ worker[i + 1] = UpdateData(c, "unlocked")
                            /\ worker[i] = SetData(LastPath, c)
    BY <1>4
  <2>2. CASE i = 1
    BY <1>1, <1>3, <2>1, <2>2
  <2>3. CASE i # 1
    <3>1. i - 1 \in 1 .. Len(worker) - 1 /\ (i - 1) + 1 = i
      BY <1>3, <2>3
    <3>2. worker'[i - 1] = worker[i]
      BY <1>1, <3>1, WorkerTail
    <3> QED
      BY <1>3, <2>1, <2>3, <3>2
  <2> QED
    BY <2>2, <2>3
<1>5. \/ worker[i + 1] \in {GetDocument(LastPath), GetDocument(DoneIntro)}
      \/ worker[i + 1] \in {UpdateData(Final, "unlocked"), UpdateData(DoneIntro, "done")}
      \/ \E c \in Routes : worker[i + 1] = SetData(LastPath, c)
      \/ \E c \in Routes : /\ worker[i + 1] = UpdateData(c, "unlocked")
                           /\ worker[i] = SetData(LastPath, c)
  BY <1>3 DEF CallsInOrder
<1> QED
  BY <1>3, <1>4, <1>5

\* The calls that the hunt makes, all of them at the end of the worker queue.
LEMMA HuntCallsMade ==
    ASSUME TypeOK, [HuntNext]_huntVars
    PROVE  \/ ClientStep
           \/ up' = FALSE /\ worker' = <<>> /\ UNCHANGED <<server, queue>>
           \/ /\ UNCHANGED <<server, queue>>
              /\ \/ UNCHANGED <<worker, up, QRCodeValue>>
                 \/ /\ Launch /\ QRCodeValue' = None
                    /\ worker' = worker \o <<GetDocument(LastPath), GetDocument(DoneIntro)>>
                 \/ /\ DismissIntro /\ UNCHANGED <<up, QRCodeValue>>
                    /\ worker' = worker \o <<UpdateData(DoneIntro, "done")>>
                 \/ QRCodeValue' = Final /\ worker' = worker \o <<UpdateData(Final, "unlocked")>>
                 \/ \E c \in Routes :
                      /\ QRCodeValue' = c
                      /\ worker' = worker \o <<SetData(LastPath, c), UpdateData(c, "unlocked")>>
<1>1. CASE Launch
  BY <1>1 DEF Launch, Start, Enqueue, disk
<1>2. CASE KillApp
  BY <1>2 DEF KillApp, Kill, Exit, disk
<1>3. ASSUME NEW reason, Crash(reason)
      PROVE  up' = FALSE /\ worker' = <<>> /\ UNCHANGED <<server, queue>>
  BY <1>3 DEF Crash, Exit, disk
<1>4. ASSUME NEW code \in Codes, Scan(code)
      PROVE  \/ up' = FALSE /\ worker' = <<>> /\ UNCHANGED <<server, queue>>
             \/ /\ UNCHANGED <<server, queue>>
                /\ \/ /\ QRCodeValue' = Final
                      /\ worker' = worker \o <<UpdateData(Final, "unlocked")>>
                   \/ \E c \in Routes :
                        /\ QRCodeValue' = c
                        /\ worker' = worker \o <<SetData(LastPath, c), UpdateData(c, "unlocked")>>
  BY <1>3, <1>4 DEF Scan, ScanFinal, ScanClue, ScanMalformed, Enqueue, disk
<1>5. CASE GotLastPath
  BY <1>5 DEF GotLastPath, TakeGot, disk
<1>6. CASE DrawPolyline
  BY <1>3, <1>6 DEF DrawPolyline, disk
<1>7. ASSUME NEW c \in Routes \cup {Final}, LoadGeoJson(c)
      PROVE  \/ up' = FALSE /\ worker' = <<>> /\ UNCHANGED <<server, queue>>
             \/ UNCHANGED <<server, queue, worker, up, QRCodeValue>>
  BY <1>3, <1>7 DEF LoadGeoJson, disk
<1>8. CASE StyleLoaded \/ DismissMessage \/ UNCHANGED huntVars
  BY <1>8 DEF StyleLoaded, DismissMessage, huntVars, home, vars
<1>9. CASE DismissIntro
  BY <1>9 DEF DismissIntro, Enqueue, disk
<1>10. CASE GotDoneIntro
  BY <1>3, <1>10 DEF GotDoneIntro, TakeGot, disk
<1> QED
  BY <1>1, <1>2, <1>4, <1>5, <1>6, <1>7, <1>8, <1>9, <1>10 DEF HuntNext, MainStep, LoadStep

\* The worker queue with new calls at its end.
LEMMA WorkerConcat ==
    ASSUME TypeOK, NEW reqs \in Seq(Mutations \cup GetReqs), worker' = worker \o reqs
    PROVE  LET n == Len(worker)
           IN  /\ n \in Nat /\ DOMAIN worker = 1 .. n
               /\ DOMAIN worker' = 1 .. n + Len(reqs)
               /\ \A i \in 1 .. n : worker'[i] = worker[i]
               /\ \A i \in n + 1 .. n + Len(reqs) : worker'[i] = reqs[i - n]
<1>1. Len(worker) \in Nat /\ DOMAIN worker = 1 .. Len(worker) /\ Len(reqs) \in Nat
  BY LenProperties DEF TypeOK
<1>2. worker' \in Seq(Mutations \cup GetReqs) /\ Len(worker') = Len(worker) + Len(reqs)
  BY ConcatProperties DEF TypeOK
<1>3. DOMAIN worker' = 1 .. Len(worker) + Len(reqs)
  BY <1>2, LenProperties
<1>4. \A i \in 1 .. Len(worker) + Len(reqs) :
          worker'[i] = IF i <= Len(worker) THEN worker[i] ELSE reqs[i - Len(worker)]
  BY ConcatProperties DEF TypeOK
<1> QED
  BY <1>1, <1>3, <1>4

\* One call, or the two calls of a scan.
LEMMA WorkerPlusOne ==
    ASSUME TypeOK, NEW req \in Mutations \cup GetReqs, worker' = worker \o <<req>>
    PROVE  LET n == Len(worker)
           IN  /\ n \in Nat /\ DOMAIN worker = 1 .. n /\ DOMAIN worker' = 1 .. n + 1
               /\ \A i \in 1 .. n : worker'[i] = worker[i]
               /\ worker'[n + 1] = req
<1>1. <<req>> \in Seq(Mutations \cup GetReqs) /\ Len(<<req>>) = 1 /\ <<req>>[1] = req
  OBVIOUS
<1> QED
  BY <1>1, WorkerConcat

LEMMA WorkerPlusTwo ==
    ASSUME TypeOK, NEW r \in Mutations \cup GetReqs, NEW s \in Mutations \cup GetReqs,
           worker' = worker \o <<r, s>>
    PROVE  LET n == Len(worker)
           IN  /\ n \in Nat /\ DOMAIN worker = 1 .. n /\ DOMAIN worker' = 1 .. n + 2
               /\ \A i \in 1 .. n : worker'[i] = worker[i]
               /\ worker'[n + 1] = r /\ worker'[n + 2] = s
<1>1. /\ <<r, s>> \in Seq(Mutations \cup GetReqs) /\ Len(<<r, s>>) = 2
      /\ <<r, s>>[1] = r /\ <<r, s>>[2] = s
  OBVIOUS
<1>2. LET n == Len(worker)
      IN  /\ n \in Nat /\ DOMAIN worker = 1 .. n
          /\ DOMAIN worker' = 1 .. n + Len(<<r, s>>)
          /\ \A i \in 1 .. n : worker'[i] = worker[i]
          /\ \A i \in n + 1 .. n + Len(<<r, s>>) : worker'[i] = <<r, s>>[i - n]
  BY <1>1, WorkerConcat
<1>3. /\ Len(worker) \in Nat
      /\ Len(worker) + 1 \in Len(worker) + 1 .. Len(worker) + 2
      /\ Len(worker) + 2 \in Len(worker) + 1 .. Len(worker) + 2
      /\ (Len(worker) + 1) - Len(worker) = 1 /\ (Len(worker) + 2) - Len(worker) = 2
  BY <1>2
<1> QED
  BY <1>1, <1>2, <1>3

\* Calls already on the queue keep their places.
LEMMA CallsKept ==
    ASSUME TypeOK, CallsInOrder, DurableView(LastPath)' = DurableView(LastPath),
           \A j \in DOMAIN worker : worker'[j] = worker[j],
           NEW i \in DOMAIN worker
    PROVE  \/ worker'[i] \in {GetDocument(LastPath), GetDocument(DoneIntro)}
           \/ worker'[i] \in {UpdateData(Final, "unlocked"), UpdateData(DoneIntro, "done")}
           \/ \E c \in Routes : worker'[i] = SetData(LastPath, c)
           \/ \E c \in Routes :
                 /\ worker'[i] = UpdateData(c, "unlocked")
                 /\ IF i = 1 THEN DurableView(LastPath)' = c
                             ELSE worker'[i - 1] = SetData(LastPath, c)
<1>1. i = 1 \/ i - 1 \in DOMAIN worker
  BY LenProperties DEF TypeOK
<1> QED
  BY <1>1 DEF CallsInOrder

LEMMA CallsHunt ==
    ASSUME TypeOK, SyncInv, CallsInOrder, [HuntNext]_huntVars
    PROVE  CallsInOrder'
<1>1. CASE ClientStep
  <2>1. CASE WorkerStep
    BY <2>1, CallsWorker
  <2>2. CASE NetworkStep
    <3>1. worker' = worker /\ DurableView(LastPath)' = DurableView(LastPath)
      BY <2>2, NetworkLeavesCalls, DurableNetwork, HuntCells
    <3> QED
      BY <3>1 DEF CallsInOrder
  <2> QED
    BY <1>1, <2>1, <2>2 DEF ClientStep
<1>2. CASE worker' = <<>>
  BY <1>2 DEF CallsInOrder
<1>3. CASE UNCHANGED <<server, queue, worker>>
  BY <1>3 DEF CallsInOrder, DurableView
<1>4. ASSUME NEW req \in {UpdateData(DoneIntro, "done"), UpdateData(Final, "unlocked")},
             worker' = worker \o <<req>>, UNCHANGED <<server, queue>>
      PROVE  CallsInOrder'
  <2>1. DurableView(LastPath)' = DurableView(LastPath)
    BY <1>4 DEF DurableView
  <2>2. req \in Mutations \cup GetReqs
    BY ScanCalls
  <2>3. /\ \A i \in DOMAIN worker' : i \in DOMAIN worker \/ worker'[i] = req
        /\ \A i \in DOMAIN worker : worker'[i] = worker[i]
    BY <1>4, <2>2, WorkerPlusOne
  <2> QED
    BY <2>1, <2>3, CallsKept DEF CallsInOrder
<1>5. ASSUME NEW c \in Routes, UNCHANGED <<server, queue>>,
             worker' = worker \o <<SetData(LastPath, c), UpdateData(c, "unlocked")>>
      PROVE  CallsInOrder'
  <2>1. DurableView(LastPath)' = DurableView(LastPath)
    BY <1>5 DEF DurableView
  <2> DEFINE n == Len(worker)
  <2>2. /\ n \in Nat /\ DOMAIN worker = 1 .. n /\ DOMAIN worker' = 1 .. n + 2
        /\ \A i \in 1 .. n : worker'[i] = worker[i]
        /\ worker'[n + 1] = SetData(LastPath, c)
        /\ worker'[n + 2] = UpdateData(c, "unlocked")
    BY <1>5, ScanCalls, WorkerPlusTwo
  <2>3. \A i \in DOMAIN worker' : i \in DOMAIN worker \/ i = n + 1 \/ i = n + 2
    BY <2>2
  <2>4. n + 2 # 1 /\ (n + 2) - 1 = n + 1
    BY <2>2
  <2> QED
    BY <2>1, <2>2, <2>3, <2>4, CallsKept DEF CallsInOrder
<1>6. ASSUME UNCHANGED <<server, queue>>,
             worker' = worker \o <<GetDocument(LastPath), GetDocument(DoneIntro)>>
      PROVE  CallsInOrder'
  <2>1. DurableView(LastPath)' = DurableView(LastPath)
    BY <1>6 DEF DurableView
  <2> DEFINE n == Len(worker)
  <2>2. /\ n \in Nat /\ DOMAIN worker = 1 .. n /\ DOMAIN worker' = 1 .. n + 2
        /\ \A i \in 1 .. n : worker'[i] = worker[i]
        /\ worker'[n + 1] = GetDocument(LastPath) /\ worker'[n + 2] = GetDocument(DoneIntro)
    BY <1>6, ScanCalls, WorkerPlusTwo
  <2>3. \A i \in DOMAIN worker' : i \in DOMAIN worker \/ i = n + 1 \/ i = n + 2
    BY <2>2
  <2> QED
    BY <2>1, <2>2, <2>3, CallsKept DEF CallsInOrder
<1> QED
  BY <1>1, <1>2, <1>3, <1>4, <1>5, <1>6, HuntCallsMade

\* A step that leaves server and queue alone changes nothing that lasts.
LEMMA DurableUnchanged ==
    ASSUME UNCHANGED <<server, queue>>, NEW c
    PROVE  DurableView(c)' = DurableView(c)
BY DEF DurableView

\* The steps of the worker, for the cells: the clue of the call taken up is unlocked,
\* or its route stored, or nothing changes.
LEMMA WorkerOnCells ==
    ASSUME TypeOK, CallsInOrder, CluesExist, WorkerStep
    PROVE  /\ worker # <<>> /\ worker' = Tail(worker)
           /\ \/ /\ worker[1].op = "get"
                 /\ \A c \in Cells : DurableView(c)' = DurableView(c)
              \/ \E c \in Routes :
                 /\ worker[1] = SetData(LastPath, c)
                 /\ DurableView(LastPath)' = c
                 /\ \A d \in Cells : d # LastPath => DurableView(d)' = DurableView(d)
              \/ \E c \in Clues :
                 /\ worker[1] = UpdateData(c, "unlocked")
                 /\ c = Final \/ DurableView(LastPath) = c
                 /\ DurableView(c)' = "unlocked"
                 /\ \A d \in Cells : d # c => DurableView(d)' = DurableView(d)
              \/ \E c \in Foreign :
                 /\ worker[1] = UpdateData(c, "unlocked")
                 /\ \A d \in Cells : d # c => DurableView(d)' = DurableView(d)
              \/ /\ worker[1] = UpdateData(DoneIntro, "done")
                 /\ DurableView(DoneIntro)' = "done"
                 /\ \A d \in Cells : d # DoneIntro => DurableView(d)' = DurableView(d)
<1>1. CASE WorkerGet
  BY <1>1, GetTakenUp
<1>2. CASE WorkerWrite
  <2>1. /\ \A c \in Clues : DurableView(c) \in Vals
        /\ DurableView(DoneIntro) \in Vals
    BY HuntCells DEF CluesExist
  <2>2. worker # <<>> /\ worker' = Tail(worker)
    BY <1>2, TakenUp
  <2>3. CASE \E c \in Routes : worker[1] = SetData(LastPath, c)
    <3>1. PICK c \in Routes : worker[1] = SetData(LastPath, c)
      BY <2>3
    <3>2. \A d \in Cells : DurableView(d)' = IF d = LastPath THEN c ELSE DurableView(d)
      BY <1>2, <3>1, TakenUp, CallFields
    <3> QED
      BY <2>2, <3>1, <3>2, HuntCells
  <2>4. ASSUME NEW c \in Routes \cup {Final}, worker[1] = UpdateData(c, "unlocked")
        PROVE  \A d \in Cells : DurableView(d)' =
                   IF d = c /\ DurableView(d) \in Vals THEN "unlocked" ELSE DurableView(d)
    BY <1>2, <2>4, TakenUp, CallFields
  <2>5. CASE worker[1] = UpdateData(Final, "unlocked")
    <3>1. /\ DurableView(Final)' = "unlocked"
          /\ \A d \in Cells : d # Final => DurableView(d)' = DurableView(d)
      BY <2>1, <2>4, <2>5, HuntCells DEF Clues
    <3> QED
      BY <2>2, <2>5, <3>1 DEF Clues
  <2>6. CASE \E c \in Routes : /\ worker[1] = UpdateData(c, "unlocked")
                               /\ DurableView(LastPath) = c
    <3>1. PICK c \in Routes : /\ worker[1] = UpdateData(c, "unlocked")
                              /\ DurableView(LastPath) = c
      BY <2>6
    <3>2. \A d \in Cells : d # c => DurableView(d)' = DurableView(d)
      BY <2>4, <3>1
    <3>3. CASE c \in Bundled
      <4>1. DurableView(c)' = "unlocked"
        BY <2>1, <2>4, <3>1, <3>3, HuntCells DEF Clues
      <4> QED
        BY <2>2, <3>1, <3>2, <3>3, <4>1 DEF Clues
    <3>4. CASE c \in Foreign
      BY <2>2, <3>1, <3>2, <3>4
    <3> QED
      BY <3>3, <3>4 DEF Routes
  <2>7. CASE worker[1] = UpdateData(DoneIntro, "done")
    <3>1. \A d \in Cells : DurableView(d)' =
              IF d = DoneIntro /\ DurableView(d) \in Vals THEN "done" ELSE DurableView(d)
      BY <1>2, <2>7, TakenUp, CallFields
    <3> QED
      BY <2>1, <2>2, <2>7, <3>1, HuntCells
  <2> QED
    BY <1>2, <2>3, <2>5, <2>6, <2>7, TakenUp
<1> QED
  BY <1>1, <1>2 DEF WorkerStep

LEMMA CluesHunt ==
    ASSUME TypeOK, SyncInv, CallsInOrder, CluesExist, [HuntNext]_huntVars
    PROVE  CluesExist'
<1>1. CASE WorkerStep
  <2>1. /\ LastPath \notin Clues /\ Foreign \cap Clues = {}
        /\ DoneIntro \notin Clues \cup Foreign \cup {LastPath} /\ "done" \in Flags
    BY HuntAssumption, HuntCells DEF Clues, Routes, Flags
  <2> QED
    BY <1>1, <2>1, WorkerOnCells, HuntCells DEF CluesExist
<1>2. CASE NetworkStep
  BY <1>2, DurableNetwork, HuntCells DEF CluesExist
<1>3. CASE UNCHANGED <<server, queue>>
  BY <1>3, DurableUnchanged DEF CluesExist
<1> QED
  BY <1>1, <1>2, <1>3, HuntCallsMade DEF ClientStep

\* The worker queue without its front, index by index.
LEMMA CallsShift ==
    ASSUME TypeOK, worker # <<>>, worker' = Tail(worker)
    PROVE  /\ \A i \in DOMAIN worker : i # 1 => i - 1 \in DOMAIN worker' /\ worker'[i - 1] = worker[i]
           /\ \A i \in DOMAIN worker' : /\ i + 1 \in DOMAIN worker /\ worker'[i] = worker[i + 1]
                                        /\ i + 1 > 1 /\ (i + 1) - 1 = i
           /\ DOMAIN worker \subseteq Nat /\ DOMAIN worker' \subseteq Nat /\ 1 \in DOMAIN worker
<1>1. /\ Len(worker) \in Nat \ {0} /\ DOMAIN worker = 1 .. Len(worker)
      /\ DOMAIN worker' = 1 .. Len(worker) - 1
      /\ \A i \in 1 .. Len(worker) - 1 : worker'[i] = worker[i + 1]
  BY WorkerTail
<1>2. ASSUME NEW i \in DOMAIN worker, i # 1
      PROVE  i - 1 \in DOMAIN worker' /\ worker'[i - 1] = worker[i]
  <2>1. i - 1 \in 1 .. Len(worker) - 1 /\ (i - 1) + 1 = i
    BY <1>1, <1>2
  <2> QED
    BY <1>1, <2>1
<1>3. ASSUME NEW i \in DOMAIN worker'
      PROVE  /\ i + 1 \in DOMAIN worker /\ worker'[i] = worker[i + 1]
             /\ i + 1 > 1 /\ (i + 1) - 1 = i
  BY <1>1, <1>3
<1> QED
  BY <1>1, <1>2, <1>3

LEMMA ScanWorker ==
    ASSUME TypeOK, CallsInOrder, CluesExist, ScanUnderWay, WorkerStep, up,
           UNCHANGED QRCodeValue
    PROVE  ScanUnderWay'
<1>1. worker # <<>> /\ worker' = Tail(worker)
  BY WorkerOnCells
<1>2. /\ LastPath \notin Clues \cup Foreign /\ Foreign \cap Clues = {}
      /\ LastPath \in Cells /\ Routes \cup Clues \subseteq Cells
      /\ DoneIntro \notin Clues \cup {LastPath}
  BY HuntAssumption, HuntCells DEF Clues, Routes
<1>3. ASSUME QRCodeValue \in Clues
      PROVE  \/ DurableView(QRCodeValue)' = "unlocked"
             \/ \E i \in DOMAIN worker' : worker'[i] = UpdateData(QRCodeValue, "unlocked")
  <2>1. CASE DurableView(QRCodeValue) = "unlocked"
    BY <1>2, <1>3, <2>1, WorkerOnCells
  <2>2. CASE worker[1] = UpdateData(QRCodeValue, "unlocked")
    BY <1>2, <1>3, <2>2, WorkerOnCells, CallFields
  <2>3. CASE \E i \in DOMAIN worker : i # 1 /\ worker[i] = UpdateData(QRCodeValue, "unlocked")
    <3>1. PICK i \in DOMAIN worker : i # 1 /\ worker[i] = UpdateData(QRCodeValue, "unlocked")
      BY <2>3
    <3>2. i - 1 \in DOMAIN worker' /\ worker'[i - 1] = UpdateData(QRCodeValue, "unlocked")
      BY <1>1, <3>1, CallsShift
    <3> QED
      BY <3>2
  <2>4. \/ DurableView(QRCodeValue) = "unlocked"
        \/ \E i \in DOMAIN worker : worker[i] = UpdateData(QRCodeValue, "unlocked")
    BY <1>3 DEF ScanUnderWay
  <2>5. (\E i \in DOMAIN worker : worker[i] = UpdateData(QRCodeValue, "unlocked"))
        => \/ worker[1] = UpdateData(QRCodeValue, "unlocked")
           \/ \E i \in DOMAIN worker : i # 1 /\ worker[i] = UpdateData(QRCodeValue, "unlocked")
    OBVIOUS
  <2> QED
    BY <2>1, <2>2, <2>3, <2>4, <2>5, Zenon
<1>4. ASSUME QRCodeValue \in Routes
      PROVE  \/ /\ DurableView(LastPath)' = QRCodeValue
                /\ \A i \in DOMAIN worker' : worker'[i].op # "set"
             \/ \E i \in DOMAIN worker' :
                   /\ worker'[i] = SetData(LastPath, QRCodeValue)
                   /\ \A j \in DOMAIN worker' : j > i => worker'[j].op # "set"
  <2>1. CASE /\ DurableView(LastPath) = QRCodeValue
             /\ \A i \in DOMAIN worker : worker[i].op # "set"
    <3>1. \A i \in DOMAIN worker' : worker'[i].op # "set"
      BY <1>1, <2>1, CallsShift
    <3>2. worker[1].op # "set"
      BY <1>1, <2>1, CallsShift
    <3>3. DurableView(LastPath)' = DurableView(LastPath)
      <4>1. \A c \in Routes : worker[1] # SetData(LastPath, c)
        BY <3>2, CallFields
      <4> QED
        BY <1>2, <4>1, WorkerOnCells
    <3> QED
      BY <2>1, <3>1, <3>3
  <2>2. ASSUME NEW i \in DOMAIN worker, worker[i] = SetData(LastPath, QRCodeValue),
               \A j \in DOMAIN worker : j > i => worker[j].op # "set"
        PROVE  \/ /\ DurableView(LastPath)' = QRCodeValue
                  /\ \A l \in DOMAIN worker' : worker'[l].op # "set"
               \/ \E l \in DOMAIN worker' :
                     /\ worker'[l] = SetData(LastPath, QRCodeValue)
                     /\ \A j \in DOMAIN worker' : j > l => worker'[j].op # "set"
    <3>1. CASE i = 1
      <4>1. DurableView(LastPath)' = QRCodeValue
        BY <2>2, <3>1, WorkerOnCells, CallFields
      <4>2. \A l \in DOMAIN worker' : worker'[l].op # "set"
        BY <1>1, <2>2, <3>1, CallsShift
      <4> QED
        BY <4>1, <4>2
    <3>2. CASE i # 1
      <4>1. i - 1 \in DOMAIN worker' /\ worker'[i - 1] = SetData(LastPath, QRCodeValue)
        BY <1>1, <2>2, <3>2, CallsShift
      <4>2. ASSUME NEW j \in DOMAIN worker', j > i - 1 PROVE worker'[j].op # "set"
        <5>1. j + 1 \in DOMAIN worker /\ worker'[j] = worker[j + 1] /\ j \in Nat /\ i \in Nat
          BY <1>1, CallsShift
        <5>2. j + 1 > i
          BY <4>2, <5>1
        <5> QED
          BY <2>2, <5>1, <5>2
      <4> QED
        BY <4>1, <4>2
    <3> QED
      BY <3>1, <3>2
  <2> QED
    BY <1>4, <2>1, <2>2 DEF ScanUnderWay
<1> QED
  BY <1>3, <1>4 DEF ScanUnderWay

LEMMA ScanHunt ==
    ASSUME TypeOK, SyncInv, CallsInOrder, CluesExist, ScanUnderWay, [HuntNext]_huntVars
    PROVE  ScanUnderWay'
<1>1. CASE ClientStep
  <2>1. UNCHANGED QRCodeValue
    BY <1>1 DEF ClientStep, home
  <2>2. CASE WorkerStep
    <3>1. up' = up
      BY <2>2 DEF WorkerStep, WorkerWrite, WorkerGet
    <3>2. CASE up
      BY <2>1, <2>2, <3>2, ScanWorker
    <3>3. CASE ~up
      BY <3>1, <3>3 DEF ScanUnderWay
    <3> QED
      BY <3>2, <3>3
  <2>3. CASE NetworkStep
    <3>1. UNCHANGED <<worker, up>> /\ \A c \in Cells : DurableView(c)' = DurableView(c)
      BY <2>3, NetworkLeavesCalls, DurableNetwork
    <3> QED
      BY <2>1, <3>1, HuntCells DEF ScanUnderWay
  <2> QED
    BY <1>1, <2>2, <2>3 DEF ClientStep
<1>2. CASE up' = FALSE
  BY <1>2 DEF ScanUnderWay
<1>3. CASE UNCHANGED <<server, queue, worker, up, QRCodeValue>>
  BY <1>3 DEF ScanUnderWay, DurableView
<1>4. CASE QRCodeValue' = None
  BY <1>4, HuntAssumption DEF ScanUnderWay, Codes, Clues, Routes
<1>5. CASE QRCodeValue' = Final /\ worker' = worker \o <<UpdateData(Final, "unlocked")>>
  <2>1. \E i \in DOMAIN worker' : worker'[i] = UpdateData(Final, "unlocked")
    BY <1>5, ScanCalls, WorkerPlusOne
  <2> QED
    BY <1>5, <2>1, HuntCells DEF ScanUnderWay
<1>6. ASSUME NEW c \in Routes, QRCodeValue' = c,
             worker' = worker \o <<SetData(LastPath, c), UpdateData(c, "unlocked")>>
      PROVE  ScanUnderWay'
  <2> DEFINE n == Len(worker)
  <2>1. /\ n \in Nat /\ DOMAIN worker' = 1 .. n + 2
        /\ worker'[n + 1] = SetData(LastPath, c) /\ worker'[n + 2] = UpdateData(c, "unlocked")
    BY <1>6, ScanCalls, WorkerPlusTwo
  <2>2. n + 1 \in DOMAIN worker' /\ n + 2 \in DOMAIN worker'
    BY <2>1
  <2>3. \A j \in DOMAIN worker' : j > n + 1 => worker'[j].op # "set"
    BY <2>1, CallFields
  <2> QED
    BY <1>6, <2>1, <2>2, <2>3 DEF ScanUnderWay
<1>7. ASSUME UNCHANGED <<server, queue, up, QRCodeValue>>,
             worker' = worker \o <<UpdateData(DoneIntro, "done")>>
      PROVE  ScanUnderWay'
  <2> DEFINE n == Len(worker)
  <2>1. /\ n \in Nat /\ DOMAIN worker = 1 .. n /\ DOMAIN worker' = 1 .. n + 1
        /\ \A i \in 1 .. n : worker'[i] = worker[i]
        /\ worker'[n + 1] = UpdateData(DoneIntro, "done")
    BY <1>7, ScanCalls, WorkerPlusOne
  <2>2. /\ \A i \in DOMAIN worker : i \in DOMAIN worker' /\ worker'[i] = worker[i]
        /\ \A i \in DOMAIN worker' : i \in DOMAIN worker \/ worker'[i].op # "set"
    BY <2>1, CallFields
  <2>3. \A c \in Cells : DurableView(c)' = DurableView(c)
    BY <1>7, DurableUnchanged
  <2> QED
    BY <1>7, <2>2, <2>3, HuntCells DEF ScanUnderWay
<1> QED
  BY <1>1, <1>2, <1>3, <1>4, <1>5, <1>6, <1>7, HuntCallsMade

\* The mutation queue without its front, index by index.
LEMMA QueueShift ==
    ASSUME TypeOK, queue # <<>>, queue' = Tail(queue)
    PROVE  /\ DOMAIN queue = 1 .. Len(queue) /\ Len(queue) \in Nat \ {0}
           /\ \A i \in DOMAIN queue' : /\ i \in Nat /\ i + 1 \in DOMAIN queue
                                       /\ queue'[i] = queue[i + 1]
           /\ \A i \in DOMAIN queue : i = 1 \/ queue'[i - 1] = queue[i]
<1>1. /\ DOMAIN queue = 1 .. Len(queue) /\ DOMAIN queue' = 1 .. Len(queue) - 1
      /\ Len(queue) \in Nat \ {0}
      /\ \A i \in 1 .. Len(queue) - 1 : queue'[i] = queue[i + 1]
  BY QueueTail, LenProperties DEF TypeOK
<1>2. ASSUME NEW i \in DOMAIN queue, i # 1 PROVE queue'[i - 1] = queue[i]
  <2>1. i - 1 \in 1 .. Len(queue) - 1 /\ (i - 1) + 1 = i
    BY <1>1, <1>2
  <2> QED
    BY <1>1, <2>1
<1> QED
  BY <1>1, <1>2

\* Dropping the front keeps the order, unless it is the only route.
LEMMA MutationsTail ==
    ASSUME TypeOK, MutationsInOrder, queue # <<>>, queue' = Tail(queue), server' = server,
           queue[1].cell = LastPath => server[LastPath] \in Vals
    PROVE  MutationsInOrder'
<1> SUFFICES ASSUME NEW i \in DOMAIN queue'
             PROVE  \/ queue'[i] \in {UpdateData(Final, "unlocked"), UpdateData(DoneIntro, "done")}
                    \/ \E c \in Routes : queue'[i] = SetData(LastPath, c)
                    \/ /\ \E c \in Routes : queue'[i] = UpdateData(c, "unlocked")
                       /\ \/ server[LastPath] \in Vals
                          \/ \E j \in 1 .. i - 1 : queue'[j].cell = LastPath
  BY DEF MutationsInOrder
<1>1. i \in Nat /\ i + 1 \in DOMAIN queue /\ queue'[i] = queue[i + 1]
  BY QueueShift
<1>2. ASSUME NEW j \in 1 .. (i + 1) - 1, queue[j].cell = LastPath
      PROVE  \/ server[LastPath] \in Vals
             \/ \E l \in 1 .. i - 1 : queue'[l].cell = LastPath
  <2>1. CASE j = 1
    BY <1>2, <2>1
  <2>2. CASE j # 1
    <3>1. j - 1 \in 1 .. i - 1 /\ j \in DOMAIN queue
      BY <1>1, <2>2, QueueShift
    <3>2. queue'[j - 1] = queue[j]
      BY <2>2, <3>1, QueueShift
    <3> QED
      BY <1>2, <3>1, <3>2
  <2> QED
    BY <2>1, <2>2
<1> QED
  BY <1>1, <1>2 DEF MutationsInOrder

\* A committed or accepted mutation of the route is on the server.
LEMMA CommittedRoute ==
    ASSUME SyncInv, NEW j \in 1 .. committed, queue[j].cell = LastPath
    PROVE  server[LastPath] \in Vals
BY DEF SyncInv, CommitsAreStored

LEMMA MutationsWorker ==
    ASSUME TypeOK, CallsInOrder, MutationsInOrder, WorkerWrite
    PROVE  MutationsInOrder'
<1> DEFINE n == Len(queue)
<1>1. /\ n \in Nat /\ DOMAIN queue = 1 .. n /\ DOMAIN queue' = 1 .. n + 1
      /\ \A i \in 1 .. n : queue'[i] = queue[i]
      /\ queue'[n + 1] = worker[1] /\ server' = server
  <2>1. queue \in Seq(Mutations) /\ Head(worker) \in Mutations /\ queue' = Append(queue, Head(worker))
    BY WorkerWriteEffect DEF TypeOK
  <2>2. queue' \in Seq(Mutations) /\ Len(queue') = n + 1
    BY <2>1, AppendProperties
  <2>3. Head(worker) = worker[1] /\ server' = server
    BY TakenUp DEF WorkerWrite
  <2> QED
    BY <2>1, <2>2, <2>3, AppendProperties, LenProperties
<1>2. ASSUME NEW c \in Routes, DurableView(LastPath) = c
      PROVE  server[LastPath] \in Vals \/ \E j \in 1 .. n : queue'[j].cell = LastPath
  <2>1. Effective(server, queue, LastPath)
    BY <1>2, HuntCells, EffectiveIsPresent
  <2> QED
    BY <1>1, <2>1 DEF Effective, Pending
<1>3. ASSUME NEW i \in 1 .. n
      PROVE  \/ queue'[i] \in {UpdateData(Final, "unlocked"), UpdateData(DoneIntro, "done")}
             \/ \E c \in Routes : queue'[i] = SetData(LastPath, c)
             \/ /\ \E c \in Routes : queue'[i] = UpdateData(c, "unlocked")
                /\ server[LastPath] \in Vals \/ \E j \in 1 .. i - 1 : queue'[j].cell = LastPath
  <2>1. \A j \in 1 .. i - 1 : j \in 1 .. n
    BY <1>1
  <2> QED
    BY <1>1, <2>1 DEF MutationsInOrder
<1>4. \/ queue'[n + 1] \in {UpdateData(Final, "unlocked"), UpdateData(DoneIntro, "done")}
      \/ \E c \in Routes : queue'[n + 1] = SetData(LastPath, c)
      \/ \E c \in Routes : /\ queue'[n + 1] = UpdateData(c, "unlocked")
                           /\ DurableView(LastPath) = c
  BY <1>1, TakenUp
<1>5. (n + 1) - 1 = n /\ \A i \in DOMAIN queue' : i \in 1 .. n \/ i = n + 1
  BY <1>1
<1> QED
  BY <1>1, <1>2, <1>3, <1>4, <1>5 DEF MutationsInOrder

\* The mutation that is committed next, and the route behind which it was queued.
LEMMA CommitInOrder ==
    ASSUME TypeOK, SyncInv, MutationsInOrder, ServerCommit
    PROVE  LET m == queue[committed + 1]
           IN  /\ m.cell \in Cells /\ m.val \in Vals
               /\ m.cell \in Bundled => server[LastPath] \in Vals
               /\ \A c \in Cells : server'[c] = IF c = m.cell THEN m.val ELSE server[c]
               /\ queue' = queue
<1> DEFINE m == queue[committed + 1]
<1>1. /\ committed \in Nat /\ committed + 1 \in DOMAIN queue /\ m \in Mutations
      /\ server' = [server EXCEPT ![m.cell] = m.val]
  BY ServerCommitEffect, LenProperties DEF TypeOK
<1>2. m.cell \in Cells /\ m.val \in Vals
  BY <1>1 DEF Mutations
<1>3. ASSUME m.cell \in Bundled PROVE server[LastPath] \in Vals
  <2>1. m.cell # Final /\ m.cell # LastPath /\ m.cell # DoneIntro
    BY <1>3, HuntCells DEF Routes
  <2>2. server[LastPath] \in Vals \/ \E j \in 1 .. (committed + 1) - 1 : queue[j].cell = LastPath
    BY <1>1, <2>1, CallFields DEF MutationsInOrder
  <2>3. (committed + 1) - 1 = committed
    BY <1>1
  <2> QED
    BY <2>2, <2>3, CommittedRoute
<1> QED
  BY <1>1, <1>2, <1>3 DEF TypeOK, ServerCommit, disk

LEMMA MutationsHunt ==
    ASSUME TypeOK, SyncInv, CallsInOrder, MutationsInOrder, [HuntNext]_huntVars
    PROVE  MutationsInOrder'
<1>1. CASE WorkerWrite
  BY <1>1, MutationsWorker
<1>2. CASE UNCHANGED <<server, queue>>
  BY <1>2 DEF MutationsInOrder
<1>3. CASE ServerCommit
  <2>1. queue' = queue /\ (server[LastPath] \in Vals => server'[LastPath] \in Vals)
    BY <1>3, CommitInOrder, HuntCells
  <2> QED
    BY <2>1 DEF MutationsInOrder
<1>4. CASE Acknowledge
  <2>1. queue # <<>> /\ queue' = Tail(queue) /\ server' = server
    BY <1>4, CommittedQueue DEF Acknowledge
  <2>2. 1 \in 1 .. committed
    BY <1>4 DEF Acknowledge, TypeOK
  <2> QED
    BY <2>1, <2>2, CommittedRoute, MutationsTail
<1>5. CASE Reject
  <2>1. queue # <<>> /\ queue' = Tail(queue) /\ server' = server /\ ~Applies(Head(queue), server)
    BY <1>5 DEF Reject
  <2>2. 1 \in DOMAIN queue /\ Head(queue) = queue[1]
    BY <2>1, QueueShift, QueueTail
  <2>3. queue[1].cell = LastPath => queue[1].op = "set"
    BY <2>2, CallFields, HuntCells DEF MutationsInOrder
  <2> QED
    BY <2>1, <2>2, <2>3, MutationsTail DEF Applies
<1>6. WorkerGet \/ WriteStreamBreak \/ (\E c \in Cells : WatchSync(c)) \/ WatchMessage \/ WatchIdle
        \/ WatchFailure \/ OnlineTimeout \/ RestartNetwork
      => UNCHANGED <<server, queue>>
  BY DEF WorkerGet, WriteStreamBreak, WatchSync, WatchMessage, WatchIdle, WatchFailure, OnlineTimeout,
         RestartNetwork, BecomeOffline, disk
<1> QED
  BY <1>1, <1>2, <1>3, <1>4, <1>5, <1>6, HuntCallsMade
  DEF ClientStep, WorkerStep, NetworkStep

LEMMA UnlockFollowsRouteNext ==
    ASSUME TypeOK, SyncInv, MutationsInOrder, UnlockFollowsRoute, [HuntNext]_huntVars
    PROVE  UnlockFollowsRoute'
<1>1. CASE ServerCommit
  <2>1. Missing \notin Vals /\ Bundled \subseteq Cells /\ LastPath \in Cells
    BY SyncAssumption, HuntCells DEF Routes
  <2>2. SUFFICES ASSUME NEW c \in Bundled, server'[c] = "unlocked"
                 PROVE  server'[LastPath] # Missing
    BY DEF UnlockFollowsRoute
  <2>3. server[LastPath] # Missing
    BY <1>1, <2>1, <2>2, CommitInOrder DEF UnlockFollowsRoute
  <2> QED
    BY <1>1, <2>1, <2>3, CommitInOrder
<1>2. CASE UNCHANGED server
  BY <1>2 DEF UnlockFollowsRoute
<1>3. WorkerStep \/ Acknowledge \/ Reject \/ WriteStreamBreak \/ (\E c \in Cells : WatchSync(c))
        \/ WatchMessage \/ WatchIdle \/ WatchFailure \/ OnlineTimeout \/ RestartNetwork
      => UNCHANGED server
  BY DEF WorkerStep, WorkerWrite, WorkerGet, Acknowledge, Reject, WriteStreamBreak, WatchSync,
         WatchMessage, WatchIdle, WatchFailure, OnlineTimeout, RestartNetwork, BecomeOffline
<1> QED
  BY <1>1, <1>2, <1>3, HuntCallsMade DEF ClientStep, NetworkStep
LEMMA HuntCellsInit ==
    ASSUME HuntInit, NEW c \in Cells
    PROVE  DurableView(c) = Seed[c] /\ server[c] = Seed[c]
<1>1. queue = <<>> /\ server = Seed
  BY DEF HuntInit, Init
<1>2. Pending(queue, c) = {}
  BY <1>1 DEF Pending
<1> QED
  BY <1>1, <1>2 DEF DurableView, View

LEMMA HuntInvInit == HuntInit => HuntInv /\ UnlockFollowsRoute
<1> SUFFICES ASSUME HuntInit PROVE HuntInv /\ UnlockFollowsRoute
  OBVIOUS
<1>1. worker = <<>> /\ queue = <<>> /\ up = FALSE
  BY DEF HuntInit, Init
<1>2. CallsInOrder /\ MutationsInOrder /\ ScanUnderWay
  BY <1>1 DEF CallsInOrder, MutationsInOrder, ScanUnderWay
<1>3. \A c \in Clues : Seed[c] = "locked" /\ c \in Cells
  BY HuntAssumption, HuntCells
<1>4. CluesExist
  BY <1>3, HuntCellsInit, HuntCells, HuntAssumption DEF CluesExist
<1>5. UnlockFollowsRoute
  BY <1>3, HuntCellsInit DEF UnlockFollowsRoute, Clues
<1> QED
  BY <1>2, <1>4, <1>5 DEF HuntInv

LEMMA HuntInvNext ==
    HuntTypeOK /\ SyncInv /\ HuntInv /\ [HuntNext]_huntVars => HuntInv'
<1> SUFFICES ASSUME HuntTypeOK, SyncInv, HuntInv, [HuntNext]_huntVars PROVE HuntInv'
  OBVIOUS
<1>1. TypeOK /\ CallsInOrder /\ MutationsInOrder /\ CluesExist /\ ScanUnderWay
  BY DEF HuntTypeOK, HuntInv
<1> QED
  BY <1>1, CallsHunt, MutationsHunt, CluesHunt, ScanHunt DEF HuntInv

\* The two writes of a scan keep their order from the call to the server, and one of
\* them is never without the other for longer than the end of the process explains.
THEOREM ScansTravelInOrder == HuntSpec => []HuntInv
<1>1. HuntInit => HuntInv
  BY HuntInvInit
<1>2. HuntTypeOK /\ SyncInv /\ HuntInv /\ [HuntNext]_huntVars => HuntInv'
  BY HuntInvNext
<1> QED
  BY <1>1, <1>2, HuntTypeCorrect, HuntStreamsAreSound, PTL DEF HuntSpec

\* Whatever dies, breaks or is refused: the server never holds an unlocked clue
\* without a route.
THEOREM UnlocksFollowRoutes == HuntSpec => []UnlockFollowsRoute
<1>1. HuntInit => UnlockFollowsRoute
  BY HuntInvInit
<1>2. HuntTypeOK /\ SyncInv /\ HuntInv /\ UnlockFollowsRoute /\ [HuntNext]_huntVars
        => UnlockFollowsRoute'
  BY UnlockFollowsRouteNext DEF HuntTypeOK, HuntInv
<1> QED
  BY <1>1, <1>2, HuntTypeCorrect, HuntStreamsAreSound, ScansTravelInOrder, PTL DEF HuntSpec

\* A scan whose calls were taken up stays in effect until the next one.
THEOREM ScansAreKept == HuntSpec => []ScanIsKept
<1>1. HuntInv => ScanIsKept
  <2> SUFFICES ASSUME HuntInv, up, worker = <<>>
               PROVE  /\ QRCodeValue \in Clues => DurableView(QRCodeValue) = "unlocked"
                      /\ QRCodeValue \in Routes => DurableView(LastPath) = QRCodeValue
    BY DEF ScanIsKept
  <2>1. DOMAIN worker = {}
    OBVIOUS
  <2> QED
    BY <2>1 DEF HuntInv, ScanUnderWay
<1> QED
  BY <1>1, ScansTravelInOrder, PTL

-----------------------------------------------------------------------------
(* The hunt implements the treasure hunt *)

LEMMA HuntRefinesInit == HuntInit => Hunt!Init
<1> SUFFICES ASSUME HuntInit PROVE DurableView(LastPath) = Missing /\ unlocked = {}
  BY DEF Hunt!Init
<1>1. Seed[LastPath] = Missing /\ \A c \in Clues : Seed[c] = "locked" /\ c \in Cells
  BY HuntAssumption, HuntCells DEF Codes
<1>2. DurableView(LastPath) = Missing /\ \A c \in Clues : DurableView(c) = "locked"
  BY <1>1, HuntCellsInit, HuntCells
<1> QED
  BY <1>2 DEF unlocked

LEMMA HuntRefinesWorker ==
    ASSUME TypeOK, CallsInOrder, CluesExist, WorkerStep
    PROVE  [Hunt!Next]_<<DurableView(LastPath), unlocked>>
<1>1. /\ LastPath \notin Clues \cup Foreign /\ Foreign \cap Clues = {}
      /\ LastPath \in Cells /\ Clues \subseteq Cells
  BY HuntAssumption, HuntCells DEF Clues, Routes
<1>2. CASE \A c \in Cells : DurableView(c)' = DurableView(c)
  BY <1>1, <1>2 DEF unlocked
<1>3. ASSUME NEW c \in Routes, DurableView(LastPath)' = c,
             \A d \in Cells : d # LastPath => DurableView(d)' = DurableView(d)
      PROVE  Hunt!Next
  <2>1. unlocked' = unlocked
    BY <1>1, <1>3 DEF unlocked
  <2>2. Hunt!StoreRoute(c)
    BY <1>3, <2>1 DEF Hunt!StoreRoute
  <2> QED
    BY <2>2 DEF Hunt!Next, Routes
<1>4. ASSUME NEW c \in Clues, c = Final \/ DurableView(LastPath) = c,
             DurableView(c)' = "unlocked",
             \A d \in Cells : d # c => DurableView(d)' = DurableView(d)
      PROVE  Hunt!Next
  <2>1. unlocked' = unlocked \cup {c}
    BY <1>1, <1>4 DEF unlocked
  <2>2. DurableView(LastPath)' = DurableView(LastPath)
    BY <1>1, <1>4
  <2>3. CASE c = Final
    BY <2>1, <2>2, <2>3 DEF Hunt!Next, Hunt!UnlockFinal
  <2>4. CASE c # Final
    <3>1. c \in Bundled /\ DurableView(LastPath) = c
      BY <1>4, <2>4 DEF Clues
    <3>2. Hunt!Unlock(c)
      BY <2>1, <2>2, <3>1 DEF Hunt!Unlock
    <3> QED
      BY <3>1, <3>2 DEF Hunt!Next
  <2> QED
    BY <2>3, <2>4
<1>5. ASSUME NEW c \in Foreign, \A d \in Cells : d # c => DurableView(d)' = DurableView(d)
      PROVE  UNCHANGED <<DurableView(LastPath), unlocked>>
  BY <1>1, <1>5 DEF unlocked
<1>6. ASSUME \A d \in Cells : d # DoneIntro => DurableView(d)' = DurableView(d)
      PROVE  UNCHANGED <<DurableView(LastPath), unlocked>>
  BY <1>1, <1>6, HuntCells DEF unlocked
<1> QED
  BY <1>2, <1>3, <1>4, <1>5, <1>6, WorkerOnCells

LEMMA HuntRefinesNext ==
    HuntTypeOK /\ SyncInv /\ HuntInv /\ [HuntNext]_huntVars
        => [Hunt!Next]_<<DurableView(LastPath), unlocked>>
<1> SUFFICES ASSUME HuntTypeOK, SyncInv, HuntInv, [HuntNext]_huntVars
             PROVE  [Hunt!Next]_<<DurableView(LastPath), unlocked>>
  OBVIOUS
<1>1. TypeOK /\ CallsInOrder /\ CluesExist
  BY DEF HuntTypeOK, HuntInv
<1>2. CASE WorkerStep
  BY <1>1, <1>2, HuntRefinesWorker
<1>3. CASE NetworkStep
  <2>1. \A c \in Cells : DurableView(c)' = DurableView(c)
    BY <1>1, <1>3, DurableNetwork
  <2> QED
    BY <2>1, HuntCells DEF unlocked
<1>4. CASE UNCHANGED <<server, queue>>
  BY <1>4 DEF unlocked, DurableView
<1> QED
  BY <1>1, <1>2, <1>3, <1>4, HuntCallsMade DEF ClientStep

\* The hunt on disk and server is the treasure hunt of the player: each route is
\* stored before its clue unlocks, and an unlocked clue stays unlocked.
THEOREM HuntRefinement == HuntSpec => ImplementsTreasureHunt
<1>1. HuntInit => Hunt!Init
  BY HuntRefinesInit
<1>2. HuntTypeOK /\ SyncInv /\ HuntInv /\ [HuntNext]_huntVars
        => [Hunt!Next]_<<DurableView(LastPath), unlocked>>
  BY HuntRefinesNext
<1> QED
  BY <1>1, <1>2, HuntTypeCorrect, HuntStreamsAreSound, ScansTravelInOrder, PTL
  DEF HuntSpec, ImplementsTreasureHunt, Hunt!Spec

-----------------------------------------------------------------------------
(* The route that is restored *)

\* What RestoreIsLatest says of a step.
AnswersAreLatest ==
    \A i \in DOMAIN mainQueue' :
        /\ i > Len(mainQueue)
        /\ mainQueue'[i] \in GotTasks /\ mainQueue'[i].cell = LastPath
        /\ mainQueue'[i].val # Unknown
        => mainQueue'[i].val = DurableView(LastPath)'

OnlyFetched == gets \subseteq Fetched

\* A queue that does not grow, and one that grows by a task or by several.
LEMMA NoNewTask ==
    ASSUME TypeOK, mainQueue' = mainQueue \/ mainQueue' = <<>>
                     \/ (mainQueue # <<>> /\ mainQueue' = Tail(mainQueue))
    PROVE  AnswersAreLatest
<1>1. Len(mainQueue) \in Nat /\ DOMAIN mainQueue = 1 .. Len(mainQueue)
  BY LenProperties DEF TypeOK
<1>2. mainQueue # <<>> => DOMAIN Tail(mainQueue) = 1 .. Len(mainQueue) - 1
  BY HeadTailProperties, LenProperties DEF TypeOK
<1>3. \A i \in DOMAIN mainQueue' : ~(i > Len(mainQueue))
  BY <1>1, <1>2
<1> QED
  BY <1>3 DEF AnswersAreLatest

LEMMA NewTasks ==
    ASSUME TypeOK, NEW tasks \in Seq(GotTasks), mainQueue' = mainQueue \o tasks,
           \A k \in 1 .. Len(tasks) :
               tasks[k].cell = LastPath /\ tasks[k].val # Unknown
                   => tasks[k].val = DurableView(LastPath)'
    PROVE  AnswersAreLatest
<1>1. tasks \in Seq(GotTasks \cup OtherTasks)
  BY SeqDef
<1>2. Len(mainQueue) \in Nat /\ Len(tasks) \in Nat
  BY LenProperties DEF TypeOK
<1>3. DOMAIN mainQueue' = 1 .. Len(mainQueue) + Len(tasks)
  BY <1>1, ConcatProperties, LenProperties DEF TypeOK
<1>4. ASSUME NEW i \in DOMAIN mainQueue', i > Len(mainQueue)
      PROVE  i - Len(mainQueue) \in 1 .. Len(tasks) /\ mainQueue'[i] = tasks[i - Len(mainQueue)]
  <2>1. i - Len(mainQueue) \in 1 .. Len(tasks) /\ ~(i <= Len(mainQueue))
    BY <1>2, <1>3, <1>4
  <2> QED
    BY <1>1, <1>3, <2>1, ConcatProperties DEF TypeOK
<1> QED
  BY <1>4 DEF AnswersAreLatest

LEMMA NewTask ==
    ASSUME TypeOK, NEW t \in GotTasks \cup OtherTasks, mainQueue' = Append(mainQueue, t),
           t \in GotTasks /\ t.cell = LastPath /\ t.val # Unknown => t.val = DurableView(LastPath)'
    PROVE  AnswersAreLatest
<1>1. Len(mainQueue) \in Nat
  BY LenProperties DEF TypeOK
<1>2. DOMAIN mainQueue' = 1 .. Len(mainQueue) + 1 /\ mainQueue'[Len(mainQueue) + 1] = t
  BY AppendProperties, LenProperties DEF TypeOK
<1>3. \A i \in DOMAIN mainQueue' : i > Len(mainQueue) => mainQueue'[i] = t
  BY <1>1, <1>2
<1> QED
  BY <1>3 DEF AnswersAreLatest

\* A value from the cache with the queued mutations on top is the one that lasts; a
\* snapshot tells even that there is none.
LEMMA OfflineResult ==
    ASSUME TypeOK, SyncInv, NEW c \in Cells, GetResult(LocalView(c), FALSE) # Unknown
    PROVE  GetResult(LocalView(c), FALSE) = DurableView(c)
BY LocalFromSync DEF LocalIsDurable, GetResult

LEMMA SnapshotResult ==
    ASSUME TypeOK, NEW c \in Cells, WatchSync(c)
    PROVE  GetResult(View(cache', queue, c), TRUE) = DurableView(c)
<1>1. cache'[c] = server[c]
  BY DEF WatchSync, TypeOK
<1>2. View(cache', queue, c) = DurableView(c)
  BY <1>1 DEF DurableView, View, Effective
<1>3. DurableView(c) \in Vals \cup {Missing}
  BY ViewType DEF DurableView, TypeOK
<1> QED
  BY <1>2, <1>3 DEF GetResult

LEMMA GotFields == \A c, v : Got(c, v).val = v /\ Got(c, v).cell = c /\ Got(c, v).task = "got"
BY DEF Got

\* The front of the worker queue when it is a get.
LEMMA GetInFront ==
    ASSUME TypeOK, CallsInOrder, WorkerGet
    PROVE  /\ Head(worker).cell \in Fetched /\ worker[1] = GetDocument(Head(worker).cell)
           /\ worker # <<>> /\ worker' = Tail(worker)
<1>1. worker # <<>> /\ worker[1].op = "get" /\ Head(worker) = worker[1] /\ 1 \in DOMAIN worker
  BY GetTakenUp, WorkerTail
<1>2. \/ worker[1] \in {GetDocument(LastPath), GetDocument(DoneIntro)}
      \/ \E d, w : worker[1] = SetData(d, w) \/ worker[1] = UpdateData(d, w)
  BY <1>1 DEF CallsInOrder
<1>3. worker[1] \in {GetDocument(LastPath), GetDocument(DoneIntro)}
  BY <1>1, <1>2, CallFields
<1>4. worker' = Tail(worker)
  BY GetTakenUp
<1> QED
  BY <1>1, <1>3, <1>4, HuntAssumption, CallFields

\* The client answers nothing but the two gets of the launch.
LEMMA WorkerAnswers ==
    ASSUME TypeOK, SyncInv, CallsInOrder, OnlyFetched, WorkerStep
    PROVE  OnlyFetched' /\ AnswersAreLatest
<1>1. CASE WorkerWrite
  BY <1>1, NoNewTask DEF WorkerWrite, OnlyFetched
<1>2. CASE WorkerGet
  <2> DEFINE c == Head(worker).cell
             v == GetResult(LocalView(c), FALSE)
  <2>1. c \in Fetched
    BY <1>2, GetInFront
  <2>2. c \in Cells /\ DurableView(LastPath)' = DurableView(LastPath)
    BY <1>2, <2>1, HuntCells, GetTakenUp, SyncAssumption
  <2>3. CASE online = "Offline"
    <3>1. mainQueue' = Append(mainQueue, Got(c, v)) /\ gets' = gets
      BY <1>2, <2>3 DEF WorkerGet
    <3>2. Got(c, v) \in GotTasks
      BY <2>1, <2>2, LocalViewType, GotType
    <3>3. c = LastPath /\ v # Unknown => v = DurableView(LastPath)'
      BY <2>1, <2>2, OfflineResult
    <3> HIDE DEF v, c
    <3> QED
      BY <3>1, <3>2, <3>3, NewTask, GotFields DEF OnlyFetched
  <2>4. CASE online # "Offline"
    <3>1. mainQueue' = mainQueue /\ gets' = gets \cup {c}
      BY <1>2, <2>4 DEF WorkerGet
    <3> QED
      BY <2>1, <3>1, NoNewTask DEF OnlyFetched
  <2> QED
    BY <2>3, <2>4
<1> QED
  BY <1>1, <1>2 DEF WorkerStep

LEMMA NetworkAnswers ==
    ASSUME TypeOK, SyncInv, OnlyFetched, NetworkStep
    PROVE  OnlyFetched' /\ AnswersAreLatest
<1>1. LastPath \in Cells /\ DurableView(LastPath)' = DurableView(LastPath)
  BY HuntCells, DurableNetwork
<1>2. CASE mainQueue' = mainQueue /\ gets' = gets
  BY <1>2, NoNewTask DEF OnlyFetched
<1>3. ASSUME NEW c \in Cells, WatchSync(c)
      PROVE  OnlyFetched' /\ AnswersAreLatest
  <2> DEFINE v == GetResult(View(cache', queue, c), TRUE)
  <2>1. gets' = gets \ {c}
    BY <1>3 DEF WatchSync
  <2>2. CASE c \in gets
    <3>1. mainQueue' = Append(mainQueue, Got(c, v))
      BY <1>3, <2>2 DEF WatchSync
    <3>2. c = LastPath => v = DurableView(LastPath)'
      BY <1>1, <1>3, SnapshotResult
    <3>3. v \in Results
      <4>1. DurableView(c) \in Vals \cup {Missing}
        BY ViewType DEF DurableView, TypeOK
      <4> QED
        BY <1>3, <4>1, SnapshotResult DEF Results
    <3>4. Got(c, v) \in GotTasks
      <4> HIDE DEF v
      <4> QED
        BY <3>3 DEF Got, GotTasks
    <3> HIDE DEF v
    <3> QED
      BY <2>1, <3>1, <3>2, <3>4, NewTask, GotFields DEF OnlyFetched
  <2>3. CASE c \notin gets
    BY <1>3, <2>1, <2>3, NoNewTask DEF WatchSync, OnlyFetched
  <2> QED
    BY <2>2, <2>3
<1>4. CASE BecomeOffline
  <2>1. PICK answers \in Seq(GotTasks) :
            /\ mainQueue' = mainQueue \o answers
            /\ \A i \in 1 .. Len(answers) :
                  \E c \in gets : answers[i] = Got(c, GetResult(LocalView(c), FALSE))
    BY <1>4, OfflineAnswers
  <2>2. \A i \in 1 .. Len(answers) :
            answers[i].cell = LastPath /\ answers[i].val # Unknown
                => answers[i].val = DurableView(LastPath)'
    <3> TAKE i \in 1 .. Len(answers)
    <3>1. PICK c \in gets : answers[i] = Got(c, GetResult(LocalView(c), FALSE))
      BY <2>1
    <3>2. answers[i].cell = c /\ answers[i].val = GetResult(LocalView(c), FALSE)
      BY <3>1, GotFields
    <3>3. GetResult(LocalView(LastPath), FALSE) # Unknown
            => GetResult(LocalView(LastPath), FALSE) = DurableView(LastPath)
      BY <1>1, OfflineResult
    <3> QED
      BY <1>1, <3>2, <3>3
  <2> QED
    BY <1>4, <2>1, <2>2, NewTasks DEF BecomeOffline, OnlyFetched
<1>5. ServerCommit \/ Acknowledge \/ Reject \/ WriteStreamBreak \/ WatchMessage \/ WatchIdle
        \/ RestartNetwork => mainQueue' = mainQueue /\ gets' = gets
  BY DEF ServerCommit, Acknowledge, Reject, WriteStreamBreak, WatchMessage, WatchIdle,
         RestartNetwork, session
<1>6. WatchFailure \/ OnlineTimeout => BecomeOffline \/ (mainQueue' = mainQueue /\ gets' = gets)
  BY DEF WatchFailure, OnlineTimeout
<1> QED
  BY <1>2, <1>3, <1>4, <1>5, <1>6 DEF NetworkStep

\* The steps of the hunt answer nothing: they take tasks, or have a route drawn.
LEMMA HuntTasks ==
    ASSUME TypeOK, [HuntNext]_huntVars
    PROVE  \/ ClientStep
           \/ /\ gets' = gets \/ gets' = {}
              /\ \/ mainQueue' = mainQueue \/ mainQueue' = <<>>
                    \/ (mainQueue # <<>> /\ mainQueue' = Tail(mainQueue))
                 \/ \E c \in Bundled : mainQueue' = Append(mainQueue, Draw(c))
<1>1. CASE Launch
  BY <1>1 DEF Launch, Start
<1>2. CASE KillApp
  BY <1>2 DEF KillApp, Kill, Exit
<1>3. ASSUME NEW reason, Crash(reason)
      PROVE  gets' = {} /\ mainQueue' = <<>>
  BY <1>3 DEF Crash, Exit
<1>4. ASSUME NEW code \in Codes, Scan(code)
      PROVE  (gets' = {} /\ mainQueue' = <<>>) \/ (gets' = gets /\ mainQueue' = mainQueue)
  BY <1>3, <1>4 DEF Scan, ScanFinal, ScanClue, ScanMalformed
<1>5. CASE GotLastPath
  BY <1>5 DEF GotLastPath, TakeGot
<1>6. CASE DrawPolyline
  BY <1>3, <1>6 DEF DrawPolyline
<1>7. ASSUME NEW c \in Routes \cup {Final}, LoadGeoJson(c)
      PROVE  \/ gets' = {} /\ mainQueue' = <<>>
             \/ gets' = gets /\ mainQueue' = mainQueue
             \/ gets' = gets /\ \E d \in Bundled : mainQueue' = Append(mainQueue, Draw(d))
  BY <1>3, <1>7 DEF LoadGeoJson, Clues
<1>8. CASE StyleLoaded \/ DismissMessage \/ UNCHANGED huntVars
  BY <1>8 DEF StyleLoaded, DismissMessage, huntVars, vars
<1>9. CASE DismissIntro
  BY <1>9 DEF DismissIntro
<1>10. CASE GotDoneIntro
  BY <1>3, <1>10 DEF GotDoneIntro, TakeGot
<1> QED
  BY <1>1, <1>2, <1>4, <1>5, <1>6, <1>7, <1>8, <1>9, <1>10 DEF HuntNext, MainStep, LoadStep

LEMMA HuntAnswers ==
    ASSUME HuntTypeOK, SyncInv, HuntInv, OnlyFetched, [HuntNext]_huntVars
    PROVE  OnlyFetched' /\ AnswersAreLatest
<1>1. TypeOK /\ CallsInOrder
  BY DEF HuntTypeOK, HuntInv
<1>2. CASE ClientStep
  BY <1>1, <1>2, WorkerAnswers, NetworkAnswers DEF ClientStep
<1>3. ASSUME NEW c \in Bundled, mainQueue' = Append(mainQueue, Draw(c))
      PROVE  AnswersAreLatest
  <2>1. Draw(c) \in OtherTasks /\ Draw(c) \notin GotTasks
    BY HuntAssumption DEF Draw, GotTasks
  <2> QED
    BY <1>1, <1>3, <2>1, NewTask
<1>4. ASSUME gets' = gets \/ gets' = {} PROVE OnlyFetched'
  BY <1>4 DEF OnlyFetched
<1>5. ASSUME mainQueue' = mainQueue \/ mainQueue' = <<>>
               \/ (mainQueue # <<>> /\ mainQueue' = Tail(mainQueue))
      PROVE  AnswersAreLatest
  BY <1>1, <1>5, NoNewTask
<1>6. CASE ~ClientStep
  <2>1. gets' = gets \/ gets' = {}
    BY <1>1, <1>6, HuntTasks
  <2>2. \/ mainQueue' = mainQueue \/ mainQueue' = <<>>
           \/ (mainQueue # <<>> /\ mainQueue' = Tail(mainQueue))
        \/ \E c \in Bundled : mainQueue' = Append(mainQueue, Draw(c))
    BY <1>1, <1>6, HuntTasks
  <2>3. AnswersAreLatest
    BY <1>3, <1>5, <2>2
  <2> QED
    BY <1>4, <2>1, <2>3
<1> QED
  BY <1>2, <1>6

LEMMA HuntFetched == HuntSpec => []OnlyFetched
<1>1. HuntInit => OnlyFetched
  BY DEF HuntInit, Init, OnlyFetched
<1>2. HuntTypeOK /\ SyncInv /\ HuntInv /\ OnlyFetched /\ [HuntNext]_huntVars => OnlyFetched'
  BY HuntAnswers
<1> QED
  BY <1>1, <1>2, HuntTypeCorrect, HuntStreamsAreSound, ScansTravelInOrder, PTL DEF HuntSpec

\* The answer of getLastPath never brings back an older route, whatever of the cache,
\* the server and the two queues it was made of and however late.
THEOREM RestoresLatest == HuntSpec => RestoreIsLatest
<1>1. HuntTypeOK /\ SyncInv /\ HuntInv /\ OnlyFetched /\ [HuntNext]_huntVars
        => [AnswersAreLatest]_huntVars
  BY HuntAnswers
<1> QED
  BY <1>1, HuntTypeCorrect, HuntStreamsAreSound, ScansTravelInOrder, HuntFetched, PTL
  DEF HuntSpec, RestoreIsLatest, AnswersAreLatest

-----------------------------------------------------------------------------
(* The promises of the store, under the calls of the hunt *)

LEMMA HuntCallTypes ==
    /\ <<GetDocument(LastPath), GetDocument(DoneIntro)>> \in Seq(Mutations \cup GetReqs)
    /\ <<UpdateData(DoneIntro, "done")>> \in Seq(Mutations \cup GetReqs)
    /\ <<UpdateData(Final, "unlocked")>> \in Seq(Mutations \cup GetReqs)
    /\ \A c \in Routes :
          <<SetData(LastPath, c), UpdateData(c, "unlocked")>> \in Seq(Mutations \cup GetReqs)
BY ScanCalls

\* What a step of the hunt is to the store: one of the client, the end of the process,
\* or a callback with its calls.
LEMMA HuntIssues ==
    ASSUME TypeOK, [HuntNext]_huntVars
    PROVE  \/ ClientStep
           \/ worker' = <<>> /\ UNCHANGED <<server, disk>>
           \/ UNCHANGED <<server, disk, worker>>
           \/ /\ \E reqs \in Seq(Mutations \cup GetReqs) : Enqueue(reqs)
              /\ UNCHANGED <<server, disk>>
<1>1. ClientStep \/ UNCHANGED <<server, disk>>
  BY HuntStepKinds
<1>2. \/ ClientStep
      \/ worker' = <<>>
      \/ worker' = worker
      \/ \E reqs \in Seq(Mutations \cup GetReqs) : Enqueue(reqs)
  BY HuntCallsMade, HuntCallTypes DEF Enqueue
<1> QED
  BY <1>1, <1>2

LEMMA HuntDurableNext ==
    HuntTypeOK /\ SyncInv /\ [HuntNext]_huntVars => [Durable!Next]_<<durable, worker>>
<1> SUFFICES ASSUME HuntTypeOK, SyncInv, [HuntNext]_huntVars
             PROVE  [Durable!Next]_<<durable, worker>>
  OBVIOUS
<1>1. TypeOK
  BY DEF HuntTypeOK
<1>2. ASSUME UNCHANGED <<server, disk>> PROVE UNCHANGED durable
  BY <1>2 DEF durable, DurableView, disk
<1>3. CASE ClientStep
  <2>1. [Next]_vars
    BY <1>3 DEF ClientStep, Next
  <2> QED
    BY <1>1, <2>1, DurableNext
<1>4. CASE worker' = <<>> /\ UNCHANGED <<server, disk>>
  BY <1>2, <1>4 DEF Durable!Next, Durable!Forget
<1>5. CASE UNCHANGED <<server, disk, worker>>
  BY <1>2, <1>5
<1>6. ASSUME NEW reqs \in Seq(Mutations \cup GetReqs), Enqueue(reqs), UNCHANGED <<server, disk>>
      PROVE  Durable!Next
  BY <1>1, <1>6, DurableIssue DEF disk
<1> QED
  BY <1>1, <1>3, <1>4, <1>5, <1>6, HuntIssues

\* The hunt, whose process also ends by its own errors and which makes two calls in one
\* callback, leaves the store what it promises to be.
THEOREM HuntKeepsStore == HuntSpec => ImplementsDurableStore
<1>1. HuntInit => Durable!Init
  BY DurableInit DEF HuntInit
<1> QED
  BY <1>1, HuntDurableNext, HuntTypeCorrect, HuntStreamsAreSound, PTL
  DEF HuntSpec, ImplementsDurableStore, Durable!Spec

LEMMA HuntSeenNext ==
    HuntTypeOK /\ SyncInv /\ SeenIsThere /\ [HuntNext]_huntVars => SeenIsThere'
<1> SUFFICES ASSUME HuntTypeOK, SyncInv, SeenIsThere, [HuntNext]_huntVars PROVE SeenIsThere'
  OBVIOUS
<1>1. CASE ClientStep
  <2>1. [Next]_vars
    BY <1>1 DEF ClientStep, Next
  <2> QED
    BY <2>1, SeenNext DEF HuntTypeOK
<1>2. CASE Exit
  BY <1>2, SeenResend DEF Exit
<1>3. CASE UNCHANGED <<server, disk, stream>>
  BY <1>3, SeenUnchanged DEF disk, stream
<1> QED
  BY <1>1, <1>2, <1>3, HuntStepKinds

LEMMA HuntShownNext ==
    HuntTypeOK /\ SyncInv /\ SeenIsThere /\ [HuntNext]_huntVars
        => [Shows!Next]_<<shown, worker>>
<1> SUFFICES ASSUME HuntTypeOK, SyncInv, SeenIsThere, [HuntNext]_huntVars
             PROVE  [Shows!Next]_<<shown, worker>>
  OBVIOUS
<1>1. TypeOK
  BY DEF HuntTypeOK
<1>2. ASSUME UNCHANGED disk PROVE UNCHANGED shown
  BY <1>2 DEF shown, LocalView, disk
<1>3. CASE ClientStep
  <2>1. [Next]_vars
    BY <1>3 DEF ClientStep, Next
  <2> QED
    BY <1>1, <2>1, ShownNext
<1>4. CASE worker' = <<>> /\ UNCHANGED disk
  BY <1>2, <1>4 DEF Shows!Next, Shows!Forget
<1>5. CASE UNCHANGED <<disk, worker>>
  BY <1>2, <1>5
<1>6. ASSUME NEW reqs \in Seq(Mutations \cup GetReqs), Enqueue(reqs), UNCHANGED disk
      PROVE  Shows!Next
  BY <1>1, <1>6, ShownIssue DEF disk
<1> QED
  BY <1>1, <1>3, <1>4, <1>5, <1>6, HuntIssues

\* In the hunt as well, a document that is shown changes by the scans alone.
THEOREM HuntShowsDocuments == HuntSpec => ShowsDocuments
<1>1. HuntInit => Shows!Init /\ SeenIsThere
  BY ShownInit, SeenInit DEF HuntInit
<1> QED
  BY <1>1, HuntSeenNext, HuntShownNext, HuntTypeCorrect, HuntStreamsAreSound, PTL
  DEF HuntSpec, ShowsDocuments, Shows!Spec

-----------------------------------------------------------------------------
(* The gets of the launch *)

\* Nothing of a session outlives its process, and a process that failed has ended.
Gone ==
    /\ ~up => /\ worker = <<>> /\ gets = {} /\ mainQueue = <<>>
              /\ loading = NoLoads /\ sources = {} /\ ~intro
    /\ up => crash = "none"

LEMMA GoneNext == ASSUME HuntTypeOK, Gone, [HuntNext]_huntVars PROVE Gone'
<1>1. CASE Launch
  BY <1>1 DEF Launch, Start, Gone
<1>2. CASE KillApp
  BY <1>2 DEF KillApp, Kill, Exit, HomeGone, NoLoads, Gone
<1>3. ASSUME NEW reason, Crash(reason)
      PROVE  Gone'
  BY <1>3 DEF Crash, Exit, HomeGone, NoLoads, Gone
<1>4. ASSUME NEW code \in Codes, Scan(code)
      PROVE  Gone'
  <2>1. CASE up' = up /\ crash' = crash
    BY <1>4, <2>1 DEF Scan, Gone
  <2>2. CASE \E reason : Crash(reason)
    BY <1>3, <2>2
  <2> QED
    BY <1>4, <2>1, <2>2 DEF Scan, ScanFinal, ScanClue, ScanMalformed
<1>5. CASE GotLastPath
  BY <1>5 DEF GotLastPath, TakeGot, Gone
<1>6. CASE DrawPolyline
  BY <1>3, <1>6 DEF DrawPolyline, Gone
<1>7. ASSUME NEW c \in Routes \cup {Final}, LoadGeoJson(c)
      PROVE  Gone'
  BY <1>3, <1>7 DEF LoadGeoJson, Gone
<1>8. CASE StyleLoaded \/ DismissMessage \/ UNCHANGED huntVars
  BY <1>8 DEF StyleLoaded, DismissMessage, huntVars, vars, home, Gone, NoLoads
<1>9. CASE WorkerStep /\ UNCHANGED home
  BY <1>9 DEF WorkerStep, WorkerWrite, WorkerGet, home, Gone, NoLoads
<1>10. CASE NetworkStep /\ UNCHANGED home
  <2>1. up /\ up' = up
    BY <1>10 DEF NetworkStep, ServerCommit, Acknowledge, Reject, WriteStreamBreak, WatchSync,
       WatchMessage, WatchFailure, OnlineTimeout, WatchIdle, RestartNetwork, BecomeOffline, session
  <2> QED
    BY <1>10, <2>1 DEF Gone, home
<1>11. CASE GotDoneIntro
  BY <1>3, <1>11 DEF GotDoneIntro, TakeGot, Gone
<1>12. CASE DismissIntro
  BY <1>12 DEF DismissIntro, Gone
<1> QED
  BY <1>1, <1>2, <1>4, <1>5, <1>6, <1>7, <1>8, <1>9, <1>10, <1>11, <1>12
  DEF HuntNext, MainStep, LoadStep, ClientStep

\* A get of the launch is in one place at most: called for, waiting or answered.
Calling(c)  == {i \in DOMAIN worker : worker[i] = GetDocument(c)}

Once(c) ==
    /\ \A i, j \in Calling(c) : i = j
    /\ \A i, j \in Answered(c) : i = j
    /\ Calling(c) # {} => c \notin gets /\ Answered(c) = {}
    /\ c \in gets => Answered(c) = {}

AskedOnce == \A c \in Fetched : Once(c)

\* A step that neither calls, nor takes a call up, nor answers it.
LEMMA OnceKept ==
    ASSUME NEW c, Once(c), NEW k \in Nat, NEW l \in Nat,
           \A i \in Calling(c)' : i \in Nat /\ i + k \in Calling(c),
           \A i \in Answered(c)' : i \in Nat /\ i + l \in Answered(c),
           c \in gets' => c \in gets
    PROVE  Once(c)'
<1>1. ASSUME NEW i \in Calling(c)', NEW j \in Calling(c)'
      PROVE  i = j
  <2>1. i + k = j + k /\ i \in Nat /\ j \in Nat
    BY <1>1 DEF Once
  <2> QED
    BY <2>1
<1>2. ASSUME NEW i \in Answered(c)', NEW j \in Answered(c)'
      PROVE  i = j
  <2>1. i + l = j + l /\ i \in Nat /\ j \in Nat
    BY <1>2 DEF Once
  <2> QED
    BY <2>1
<1>3. Calling(c)' # {} => Calling(c) # {}
  OBVIOUS
<1>4. Answered(c)' # {} => Answered(c) # {}
  OBVIOUS
<1> QED
  BY <1>1, <1>2, <1>3, <1>4 DEF Once

\* The calls on the worker queue after a step, but for the two of a launch.
LEMMA CallingMoves ==
    ASSUME TypeOK, NEW c,
           \/ worker' = worker \/ worker' = <<>>
           \/ worker # <<>> /\ worker' = Tail(worker)
           \/ \E reqs \in Seq(Mutations) : worker' = worker \o reqs
    PROVE  \E k \in Nat : \A i \in Calling(c)' : i \in Nat /\ i + k \in Calling(c)
<1>1. ASSUME \A i \in DOMAIN worker' :
                 \/ worker'[i] # GetDocument(c)
                 \/ i \in DOMAIN worker /\ worker'[i] = worker[i]
      PROVE  \A i \in Calling(c)' : i \in Nat /\ i + 0 \in Calling(c)
  <2>1. DOMAIN worker \subseteq Nat /\ \A i \in Nat : i + 0 = i
    BY LenProperties DEF TypeOK
  <2> QED
    BY <1>1, <2>1 DEF Calling
<1>2. CASE worker' = worker \/ worker' = <<>>
  BY <1>1, <1>2
<1>3. CASE worker # <<>> /\ worker' = Tail(worker)
  <2>1. \A i \in Calling(c)' : i \in Nat /\ i + 1 \in Calling(c)
    BY <1>3, CallsShift DEF Calling
  <2> QED
    BY <2>1
<1>4. ASSUME NEW reqs \in Seq(Mutations), worker' = worker \o reqs
      PROVE  \A i \in Calling(c)' : i \in Nat /\ i + 0 \in Calling(c)
  <2>1. reqs \in Seq(Mutations \cup GetReqs)
    BY SeqDef
  <2>2. /\ Len(worker) \in Nat /\ DOMAIN worker = 1 .. Len(worker)
        /\ DOMAIN worker' = 1 .. Len(worker) + Len(reqs)
        /\ \A i \in 1 .. Len(worker) : worker'[i] = worker[i]
        /\ \A i \in Len(worker) + 1 .. Len(worker) + Len(reqs) : worker'[i] = reqs[i - Len(worker)]
    BY <1>4, <2>1, WorkerConcat
  <2>3. Len(reqs) \in Nat
    BY LenProperties
  <2>4. ASSUME NEW i \in DOMAIN worker', i \notin DOMAIN worker
        PROVE  worker'[i] # GetDocument(c)
    <3>1. i \in Len(worker) + 1 .. Len(worker) + Len(reqs) /\ i - Len(worker) \in 1 .. Len(reqs)
      <4>1. /\ i \in 1 .. Len(worker) + Len(reqs) /\ ~(i \in 1 .. Len(worker))
            /\ Len(worker) \in Nat /\ Len(reqs) \in Nat
        BY <2>2, <2>3, <2>4
      <4> QED
        BY <4>1
    <3>2. \A j \in 1 .. Len(reqs) : reqs[j] \in Mutations
      BY ElementOfSeq
    <3>3. worker'[i] = reqs[i - Len(worker)]
      BY <2>2, <3>1
    <3>4. worker'[i] \in Mutations
      BY <3>1, <3>2, <3>3
    <3> QED
      BY <3>4, CallFields DEF Mutations
  <2> QED
    BY <1>1, <2>2, <2>4
<1> QED
  BY <1>2, <1>3, <1>4

\* The main queue and its front, when there is one.
LEMMA FrontTask ==
    ASSUME TypeOK, mainQueue # <<>>
    PROVE  1 \in DOMAIN mainQueue /\ Head(mainQueue) = mainQueue[1]
<1>1. Len(mainQueue) \in Nat \ {0} /\ DOMAIN mainQueue = 1 .. Len(mainQueue)
  BY EmptySeq, LenProperties DEF TypeOK
<1> QED
  BY <1>1, HeadTailProperties DEF TypeOK

\* The main queue after one of its tasks was taken, and with new tasks behind it.
LEMMA TasksTail ==
    ASSUME TypeOK, mainQueue # <<>>, mainQueue' = Tail(mainQueue)
    PROVE  /\ \A i \in DOMAIN mainQueue' :
                 /\ i \in Nat /\ i + 1 \in DOMAIN mainQueue /\ i + 1 # 1
                 /\ mainQueue'[i] = mainQueue[i + 1]
           /\ 1 \in DOMAIN mainQueue /\ Head(mainQueue) = mainQueue[1]
<1>1. /\ Len(mainQueue) \in Nat \ {0} /\ DOMAIN mainQueue = 1 .. Len(mainQueue)
      /\ DOMAIN mainQueue' = 1 .. Len(mainQueue) - 1
      /\ \A i \in 1 .. Len(mainQueue) - 1 : mainQueue'[i] = mainQueue[i + 1]
  <2>1. Len(mainQueue) \in Nat \ {0}
    BY EmptySeq DEF TypeOK
  <2>2. Tail(mainQueue) \in Seq(GotTasks \cup OtherTasks) /\ Len(Tail(mainQueue)) = Len(mainQueue) - 1
    BY HeadTailProperties DEF TypeOK
  <2> QED
    BY <2>1, <2>2, HeadTailProperties, LenProperties DEF TypeOK
<1>2. Head(mainQueue) = mainQueue[1]
  BY HeadTailProperties DEF TypeOK
<1> QED
  BY <1>1, <1>2

LEMMA TasksJoined ==
    ASSUME TypeOK, NEW tasks \in Seq(GotTasks \cup OtherTasks), mainQueue' = mainQueue \o tasks
    PROVE  /\ Len(mainQueue) \in Nat /\ DOMAIN mainQueue = 1 .. Len(mainQueue)
           /\ \A i \in DOMAIN mainQueue' :
                 \/ i \in DOMAIN mainQueue /\ mainQueue'[i] = mainQueue[i]
                 \/ /\ i \in Nat /\ i > Len(mainQueue) /\ i - Len(mainQueue) \in 1 .. Len(tasks)
                    /\ mainQueue'[i] = tasks[i - Len(mainQueue)]
<1>1. /\ Len(mainQueue) \in Nat /\ DOMAIN mainQueue = 1 .. Len(mainQueue) /\ Len(tasks) \in Nat
      /\ DOMAIN mainQueue' = 1 .. Len(mainQueue) + Len(tasks)
  BY ConcatProperties, LenProperties DEF TypeOK
<1>2. \A i \in 1 .. Len(mainQueue) + Len(tasks) :
          mainQueue'[i] = IF i <= Len(mainQueue) THEN mainQueue[i] ELSE tasks[i - Len(mainQueue)]
  BY ConcatProperties DEF TypeOK
<1> QED
  BY <1>1, <1>2

LEMMA TaskJoined ==
    ASSUME TypeOK, NEW t \in GotTasks \cup OtherTasks, mainQueue' = Append(mainQueue, t)
    PROVE  \A i \in DOMAIN mainQueue' :
              \/ i \in DOMAIN mainQueue /\ mainQueue'[i] = mainQueue[i]
              \/ i = Len(mainQueue) + 1 /\ mainQueue'[i] = t
<1>1. /\ Len(mainQueue) \in Nat /\ DOMAIN mainQueue = 1 .. Len(mainQueue)
      /\ DOMAIN mainQueue' = 1 .. Len(mainQueue) + 1
  BY AppendProperties, LenProperties DEF TypeOK
<1> QED
  BY <1>1, AppendProperties DEF TypeOK

LEMMA TaskIndices == ASSUME TypeOK PROVE \A i \in DOMAIN mainQueue : i \in Nat /\ i + 0 = i
BY LenProperties DEF TypeOK

\* The answers on the main queue after a step that gives none.
LEMMA AnsweredMoves ==
    ASSUME TypeOK, NEW c,
           \/ mainQueue' = mainQueue \/ mainQueue' = <<>>
           \/ mainQueue # <<>> /\ mainQueue' = Tail(mainQueue)
           \/ \E d \in Bundled : mainQueue' = Append(mainQueue, Draw(d))
    PROVE  \E l \in Nat : \A i \in Answered(c)' :
              i \in Nat /\ i + l \in Answered(c) /\ mainQueue'[i] = mainQueue[i + l]
<1>1. CASE mainQueue' = mainQueue \/ mainQueue' = <<>>
  <2>1. \A i \in Answered(c)' : i \in Nat /\ i + 0 \in Answered(c) /\ mainQueue'[i] = mainQueue[i + 0]
    BY <1>1, TaskIndices DEF Answered
  <2> QED
    BY <2>1
<1>2. CASE mainQueue # <<>> /\ mainQueue' = Tail(mainQueue)
  <2>1. \A i \in Answered(c)' : i \in Nat /\ i + 1 \in Answered(c) /\ mainQueue'[i] = mainQueue[i + 1]
    BY <1>2, TasksTail DEF Answered
  <2> QED
    BY <2>1
<1>3. ASSUME NEW d \in Bundled, mainQueue' = Append(mainQueue, Draw(d))
      PROVE  \A i \in Answered(c)' :
                i \in Nat /\ i + 0 \in Answered(c) /\ mainQueue'[i] = mainQueue[i + 0]
  <2>1. Draw(d) \in OtherTasks /\ Draw(d) \notin GotTasks
    BY HuntAssumption DEF Draw, GotTasks
  <2> QED
    BY <1>3, <2>1, TaskJoined, TaskIndices DEF Answered
<1> QED
  BY <1>1, <1>2, <1>3

\* A get that is taken up is answered from the cache at once, or waits.
LEMMA OnceGet ==
    ASSUME TypeOK, CallsInOrder, AskedOnce, WorkerGet, NEW c \in Fetched
    PROVE  Once(c)' /\ (InFlight(c)' => InFlight(c))
<1> DEFINE d == Head(worker).cell
           v == GetResult(LocalView(d), FALSE)
<1>1. /\ d \in Fetched /\ worker[1] = GetDocument(d) /\ worker # <<>> /\ worker' = Tail(worker)
  BY GetInFront
<1>2. Once(c) /\ Once(d)
  BY <1>1 DEF AskedOnce
<1>3. /\ DOMAIN worker' \subseteq Nat /\ 1 \in Calling(d)
      /\ \A i \in Calling(c)' : i + 1 \in Calling(c) /\ i + 1 # 1
  BY <1>1, CallsShift DEF Calling
<1>4. Calling(c) # {} => InFlight(c)
  BY DEF Calling, InFlight
<1>5. InFlight(c)' => \/ c \in gets' \/ Calling(c)' # {} \/ Answered(c)' # {}
  BY DEF InFlight, Calling, Answered
<1>6. Answered(c) # {} => InFlight(c)
  BY DEF InFlight, Answered
<1>7. c \in gets => InFlight(c)
  BY DEF InFlight
<1>8. Got(d, v) \in GotTasks /\ Got(d, v).cell = d
  BY <1>1, LocalViewType, GotType, GotFields, SyncAssumption
<1> HIDE DEF v
<1>9. \/ gets' = gets /\ mainQueue' = Append(mainQueue, Got(d, v))
      \/ gets' = gets \cup {d} /\ mainQueue' = mainQueue
  BY DEF WorkerGet, v
<1> HIDE DEF d
<1>10. CASE c = d
  <2>1. c \notin gets /\ Answered(c) = {} /\ Calling(c)' = {}
    BY <1>2, <1>3, <1>10 DEF Once
  <2>2. CASE gets' = gets /\ mainQueue' = Append(mainQueue, Got(d, v))
    <3>1. \A i \in Answered(c)' : i = Len(mainQueue) + 1
      BY <1>8, <2>1, <2>2, TaskJoined DEF Answered
    <3> QED
      BY <1>3, <1>4, <1>10, <2>1, <2>2, <3>1 DEF Once
  <2>3. CASE gets' = gets \cup {d} /\ mainQueue' = mainQueue
    <3>1. Answered(c)' = {}
      BY <2>1, <2>3 DEF Answered
    <3> QED
      BY <1>3, <1>4, <1>10, <2>1, <3>1 DEF Once
  <2> QED
    BY <1>9, <2>2, <2>3
<1>11. CASE c # d
  <2>1. \A i \in Answered(c)' : i \in Nat /\ i + 0 \in Answered(c)
    <3>1. CASE mainQueue' = Append(mainQueue, Got(d, v))
      BY <1>8, <1>11, <3>1, TaskJoined, TaskIndices DEF Answered
    <3>2. CASE mainQueue' = mainQueue
      BY <3>2, TaskIndices DEF Answered
    <3> QED
      BY <1>9, <3>1, <3>2
  <2>2. c \in gets' => c \in gets
    BY <1>9, <1>11
  <2>3. \A i \in Calling(c)' : i \in Nat /\ i + 1 \in Calling(c)
    BY <1>3 DEF Calling
  <2>4. Once(c)'
    BY <1>2, <2>1, <2>2, <2>3, OnceKept
  <2> QED
    BY <1>4, <1>5, <1>6, <1>7, <2>1, <2>2, <2>3, <2>4
<1> QED
  BY <1>10, <1>11

\* A get that waits is answered by the snapshot of its document, or with all the others
\* from the cache: once.
LEMMA OnceNetwork ==
    ASSUME TypeOK, AskedOnce, NetworkStep, NEW c \in Fetched
    PROVE  Once(c)' /\ (InFlight(c)' => InFlight(c))
<1>1. Once(c) /\ worker' = worker /\ Calling(c)' = Calling(c)
  BY NetworkLeavesCalls DEF AskedOnce, Calling
<1>2. /\ InFlight(c) <=> Calling(c) # {} \/ c \in gets \/ Answered(c) # {}
      /\ InFlight(c)' <=> Calling(c)' # {} \/ (c \in gets)' \/ Answered(c)' # {}
  BY DEF InFlight, Calling, Answered
<1>3. CASE mainQueue' = mainQueue /\ gets' = gets
  <2>1. Answered(c)' = Answered(c)
    BY <1>3 DEF Answered
  <2> QED
    BY <1>1, <1>2, <1>3, <2>1 DEF Once
<1>4. ASSUME NEW tasks \in Seq(GotTasks), mainQueue' = mainQueue \o tasks,
             \A i \in 1 .. Len(tasks) : tasks[i].cell \in gets,
             \A i, j \in 1 .. Len(tasks) : tasks[i].cell = tasks[j].cell => i = j,
             gets' \subseteq gets, \A i \in 1 .. Len(tasks) : tasks[i].cell \notin gets'
      PROVE  Once(c)' /\ (InFlight(c)' => InFlight(c))
  <2> DEFINE n == Len(mainQueue)
  <2>1. tasks \in Seq(GotTasks \cup OtherTasks)
    BY SeqDef
  <2>2. n \in Nat /\ Len(tasks) \in Nat
    BY <1>4, LenProperties, <2>1, TasksJoined
  <2>3. \A i \in Answered(c)' : \/ i \in Answered(c)
                               \/ /\ i \in Nat /\ i - n \in 1 .. Len(tasks)
                                  /\ tasks[i - n].cell = c
    BY <1>4, <2>1, TasksJoined DEF Answered
  <2>4. CASE c \in gets
    <3>1. Calling(c)' = {} /\ Answered(c) = {}
      BY <1>1, <2>4 DEF Once
    <3>2. ASSUME NEW i \in Answered(c)', NEW j \in Answered(c)'
          PROVE  i = j /\ c \notin gets'
      <4>1. /\ i \in Nat /\ j \in Nat /\ i - n \in 1 .. Len(tasks) /\ j - n \in 1 .. Len(tasks)
            /\ tasks[i - n].cell = c /\ tasks[j - n].cell = c
        BY <2>3, <3>1
      <4>2. i - n = j - n /\ c \notin gets'
        BY <1>4, <4>1
      <4> QED
        BY <2>2, <4>1, <4>2
    <3> QED
      BY <1>2, <2>4, <3>1, <3>2 DEF Once
  <2>5. CASE c \notin gets
    <3>1. \A i \in Answered(c)' : i \in Answered(c)
      BY <1>4, <2>3, <2>5
    <3> QED
      BY <1>1, <1>2, <1>4, <2>5, <3>1 DEF Once
  <2> QED
    BY <2>4, <2>5
<1>5. ASSUME NEW d \in Cells, WatchSync(d)
      PROVE  Once(c)' /\ (InFlight(c)' => InFlight(c))
  <2> DEFINE v == GetResult(View(cache', queue, d), TRUE)
  <2>1. CASE d \in gets
    <3>1. mainQueue' = Append(mainQueue, Got(d, v)) /\ gets' = gets \ {d}
      BY <1>5, <2>1 DEF WatchSync
    <3>2. Got(d, v) \in GotTasks
      <4>1. DurableView(d) \in Results
        BY ViewType DEF DurableView, TypeOK, Results
      <4> QED
        BY <1>5, <4>1, SnapshotResult DEF Got, GotTasks
    <3>3. Got(d, v).cell = d
      BY GotFields
    <3> HIDE DEF v
    <3> DEFINE tasks == <<Got(d, v)>>
    <3>4. /\ tasks \in Seq(GotTasks) /\ Len(tasks) = 1 /\ mainQueue' = mainQueue \o tasks
          /\ \A i \in 1 .. Len(tasks) : tasks[i].cell = d /\ i = 1
      <4>1. mainQueue \in Seq(GotTasks \cup OtherTasks) /\ Got(d, v) \in GotTasks \cup OtherTasks
        BY <3>2 DEF TypeOK
      <4>2. Append(mainQueue, Got(d, v)) = mainQueue \o <<Got(d, v)>>
        BY <4>1, AppendIsConcat
      <4> QED
        BY <3>1, <3>2, <3>3, <4>2
    <3> HIDE DEF tasks
    <3> QED
      BY <1>4, <2>1, <3>1, <3>4
  <2>2. CASE d \notin gets
    BY <1>3, <1>5, <2>2 DEF WatchSync
  <2> QED
    BY <2>1, <2>2
<1>6. CASE BecomeOffline
  <2>1. PICK answers \in Seq(GotTasks) :
            /\ mainQueue' = mainQueue \o answers
            /\ \A i \in 1 .. Len(answers) :
                  \E d \in gets : answers[i] = Got(d, GetResult(LocalView(d), FALSE))
            /\ \A i, j \in 1 .. Len(answers) : answers[i].cell = answers[j].cell => i = j
    BY <1>6, OfflineAnswers
  <2>2. ASSUME NEW i \in 1 .. Len(answers) PROVE answers[i].cell \in gets
    <3>1. PICK d \in gets : answers[i] = Got(d, GetResult(LocalView(d), FALSE))
      BY <2>1
    <3> QED
      BY <3>1, GotFields
  <2>3. gets' = {}
    BY <1>6 DEF BecomeOffline
  <2> QED
    BY <1>4, <2>1, <2>2, <2>3
<1>7. ServerCommit \/ Acknowledge \/ Reject \/ WriteStreamBreak \/ WatchMessage \/ WatchIdle
        \/ RestartNetwork => mainQueue' = mainQueue /\ gets' = gets
  BY DEF ServerCommit, Acknowledge, Reject, WriteStreamBreak, WatchMessage, WatchIdle,
         RestartNetwork, session
<1>8. WatchFailure \/ OnlineTimeout => BecomeOffline \/ (mainQueue' = mainQueue /\ gets' = gets)
  BY DEF WatchFailure, OnlineTimeout
<1> QED
  BY <1>3, <1>5, <1>6, <1>7, <1>8 DEF NetworkStep

\* The steps that make no get and take none up.
LEMMA OnceOther ==
    ASSUME HuntTypeOK, HuntInv, Gone, AskedOnce, [HuntNext]_huntVars, NEW c \in Fetched,
           ~Launch, ~ClientStep \/ WorkerWrite
    PROVE  /\ Once(c)' /\ (InFlight(c)' => InFlight(c))
           /\ \E l \in Nat : \A i \in Answered(c)' :
                 i \in Nat /\ i + l \in Answered(c) /\ mainQueue'[i] = mainQueue[i + l]
<1>1. TypeOK /\ Once(c)
  BY DEF HuntTypeOK, AskedOnce
<1>2. /\ \/ worker' = worker \/ worker' = <<>>
         \/ worker # <<>> /\ worker' = Tail(worker)
         \/ \E reqs \in Seq(Mutations) : worker' = worker \o reqs
      /\ c \in gets' => c \in gets
      /\ \/ mainQueue' = mainQueue \/ mainQueue' = <<>>
         \/ mainQueue # <<>> /\ mainQueue' = Tail(mainQueue)
         \/ \E d \in Bundled : mainQueue' = Append(mainQueue, Draw(d))
  <2>1. CASE WorkerWrite
    BY <2>1 DEF WorkerWrite
  <2>2. CASE ~ClientStep
    <3>1. /\ <<UpdateData(DoneIntro, "done")>> \in Seq(Mutations)
          /\ <<UpdateData(Final, "unlocked")>> \in Seq(Mutations)
          /\ \A d \in Routes : <<SetData(LastPath, d), UpdateData(d, "unlocked")>> \in Seq(Mutations)
      BY ScanCalls
    <3>2. \/ worker' = worker \/ worker' = <<>>
          \/ \E reqs \in Seq(Mutations) : worker' = worker \o reqs
      <4>1. \/ worker' = worker \/ worker' = <<>>
            \/ worker' = worker \o <<UpdateData(DoneIntro, "done")>>
            \/ worker' = worker \o <<UpdateData(Final, "unlocked")>>
            \/ \E d \in Routes :
                  worker' = worker \o <<SetData(LastPath, d), UpdateData(d, "unlocked")>>
        BY ZenonT(30), <1>1, <2>2, HuntCallsMade
      <4> QED
        BY ZenonT(30), <3>1, <4>1
    <3> QED
      BY <1>1, <2>2, <3>2, HuntTasks
  <2> QED
    BY <2>1, <2>2
<1>3. PICK k \in Nat : \A i \in Calling(c)' : i \in Nat /\ i + k \in Calling(c)
  BY <1>1, <1>2, CallingMoves
<1>4. PICK l \in Nat : \A i \in Answered(c)' :
          i \in Nat /\ i + l \in Answered(c) /\ mainQueue'[i] = mainQueue[i + l]
  BY <1>1, <1>2, AnsweredMoves
<1>5. Once(c)'
  BY <1>1, <1>2, <1>3, <1>4, OnceKept
<1>6. /\ InFlight(c) <=> Calling(c) # {} \/ c \in gets \/ Answered(c) # {}
      /\ InFlight(c)' <=> Calling(c)' # {} \/ (c \in gets)' \/ Answered(c)' # {}
  BY DEF InFlight, Calling, Answered
<1> QED
  BY <1>2, <1>3, <1>4, <1>5, <1>6

\* A launch calls for its two gets, in an otherwise empty session.
LEMMA LaunchCalls ==
    ASSUME Gone, Launch
    PROVE  /\ worker' = <<GetDocument(LastPath), GetDocument(DoneIntro)>>
           /\ gets' = {} /\ mainQueue' = <<>> /\ loading' = NoLoads /\ sources' = {}
           /\ ~intro' /\ crash' = "none" /\ QRCodeValue' = None
           /\ UNCHANGED <<server, disk>>
BY DEF Launch, Start, Enqueue, Gone

LEMMA OnceNext ==
    ASSUME HuntTypeOK, HuntInv, Gone, AskedOnce, [HuntNext]_huntVars
    PROVE  AskedOnce'
<1> SUFFICES ASSUME NEW c \in Fetched PROVE Once(c)'
  BY DEF AskedOnce
<1>1. TypeOK /\ CallsInOrder
  BY DEF HuntTypeOK, HuntInv
<1>2. CASE Launch
  <2>1. \A i \in Calling(c)' : i \in {1, 2}
    BY <1>2, LaunchCalls DEF Calling
  <2>2. GetDocument(LastPath) # GetDocument(DoneIntro)
    BY CallFields, HuntCells
  <2>3. \A i, j \in Calling(c)' : i = j
    BY <1>2, <2>1, <2>2, LaunchCalls DEF Calling
  <2>4. gets' = {} /\ Answered(c)' = {}
    BY <1>2, LaunchCalls DEF Answered
  <2> QED
    BY <2>3, <2>4 DEF Once
<1>3. CASE ClientStep /\ ~Launch
  BY <1>1, <1>3, OnceGet, OnceNetwork, OnceOther DEF ClientStep, WorkerStep
<1>4. CASE ~ClientStep /\ ~Launch
  BY <1>4, OnceOther
<1> QED
  BY <1>2, <1>3, <1>4

LEMMA HuntOnce == HuntSpec => [](Gone /\ AskedOnce)
<1>1. HuntInit => Gone /\ AskedOnce
  <2> SUFFICES ASSUME HuntInit PROVE Gone /\ AskedOnce
    OBVIOUS
  <2>1. /\ worker = <<>> /\ gets = {} /\ mainQueue = <<>> /\ up = FALSE
        /\ loading = NoLoads /\ sources = {} /\ ~intro
    BY DEF HuntInit, Init
  <2>2. \A c : Calling(c) = {} /\ Answered(c) = {}
    BY <2>1 DEF Calling, Answered
  <2> QED
    BY <2>1, <2>2 DEF Gone, AskedOnce, Once
<1>2. HuntTypeOK /\ HuntInv /\ Gone /\ AskedOnce /\ [HuntNext]_huntVars => Gone' /\ AskedOnce'
  BY GoneNext, OnceNext
<1> QED
  BY <1>1, <1>2, HuntTypeCorrect, ScansTravelInOrder, PTL DEF HuntSpec

-----------------------------------------------------------------------------
(* The introduction *)

Uncached == cache[DoneIntro] \notin Vals

\* An answer is what lasts, or tells that the document is not on the device.
IntroAnswer(v) == IF v = Unknown THEN Uncached ELSE v = DurableView(DoneIntro)

\* The flag is asked for, the pages are shown, their dismissal is called for: never two of
\* these at a time, and the pages are on the screen only while the flag is not set.
IntroInv ==
    /\ InFlight(DoneIntro) => ~intro /\ ~Dismissing
    /\ intro => ~Dismissing /\ DurableView(DoneIntro) = "undone"
    /\ \A i \in Answered(DoneIntro) : IntroAnswer(mainQueue[i].val)
    /\ crash = "cast" => Uncached

\* No setData of the application is on the flag, so that a document which is not on the
\* device does not come from the mutations.
LEMMA IntroMutations ==
    ASSUME MutationsInOrder, NEW i \in DOMAIN queue, queue[i].cell = DoneIntro
    PROVE  queue[i].op = "update"
<1>1. \/ queue[i] \in {UpdateData(Final, "unlocked"), UpdateData(DoneIntro, "done")}
      \/ \E c \in Routes : queue[i] = SetData(LastPath, c)
      \/ \E c \in Routes : queue[i] = UpdateData(c, "unlocked")
  BY DEF MutationsInOrder
<1> QED
  BY <1>1, CallFields, HuntCells

LEMMA UncachedIsHidden ==
    ASSUME TypeOK, MutationsInOrder
    PROVE  Uncached <=> LocalView(DoneIntro) \notin Vals
<1>1. \A i \in Pending(queue, DoneIntro) : queue[i].op # "set"
  BY IntroMutations DEF Pending
<1>2. Effective(cache, queue, DoneIntro) <=> cache[DoneIntro] \in Vals
  BY <1>1 DEF Effective
<1> QED
  BY <1>2, HuntCells, LocalPresent DEF Uncached

\* Only a snapshot brings the document to the device.
LEMMA UncachedNetwork ==
    ASSUME TypeOK, MutationsInOrder, NetworkStep, Uncached, ~WatchSync(DoneIntro)
    PROVE  Uncached'
<1>1. CASE UNCHANGED cache
  BY <1>1 DEF Uncached
<1>2. CASE Acknowledge
  <2> DEFINE m == Head(queue)
  <2>1. queue # <<>> /\ m = queue[1] /\ 1 \in DOMAIN queue
    BY <1>2, AcknowledgeEffect, QueueTail, LenProperties DEF TypeOK
  <2>2. m.cell = DoneIntro => ~Applies(m, cache)
    BY <2>1, IntroMutations DEF Applies, Uncached
  <2>3. DoneIntro \in Cells /\ Unknown \notin Vals /\ cache \in [Cells -> Results]
    BY HuntCells, SyncAssumption DEF TypeOK
  <2>4. \/ cache' = cache
        \/ cache' = [cache EXCEPT ![m.cell] = IF Applies(m, cache) THEN m.val ELSE Unknown]
    BY <1>2 DEF Acknowledge
  <2> HIDE DEF m
  <2> QED
    BY <2>2, <2>3, <2>4 DEF Uncached
<1>3. ASSUME NEW d \in Cells, WatchSync(d)
      PROVE  Uncached'
  <2>1. d # DoneIntro
    BY <1>3
  <2> QED
    BY <1>3, <2>1, HuntCells DEF WatchSync, Uncached, TypeOK
<1>4. ServerCommit \/ Reject \/ WriteStreamBreak \/ WatchMessage \/ WatchIdle \/ WatchFailure
        \/ OnlineTimeout \/ RestartNetwork => UNCHANGED cache
  BY DEF ServerCommit, Reject, WriteStreamBreak, WatchMessage, WatchIdle, WatchFailure,
         OnlineTimeout, RestartNetwork, BecomeOffline, disk
<1> QED
  BY <1>1, <1>2, <1>3, <1>4 DEF NetworkStep

\* What the client answers from its cache.
LEMMA OfflineIntro ==
    ASSUME TypeOK, SyncInv, MutationsInOrder
    PROVE  IntroAnswer(GetResult(LocalView(DoneIntro), FALSE))
<1>1. CASE GetResult(LocalView(DoneIntro), FALSE) = Unknown
  <2>1. LocalView(DoneIntro) \notin Vals
    BY <1>1, SyncAssumption DEF GetResult
  <2> QED
    BY <1>1, <2>1, UncachedIsHidden DEF IntroAnswer
<1>2. CASE GetResult(LocalView(DoneIntro), FALSE) # Unknown
  BY <1>2, HuntCells, OfflineResult DEF IntroAnswer
<1> QED
  BY <1>1, <1>2

LEMMA IntroNetworkAnswers ==
    ASSUME TypeOK, SyncInv, MutationsInOrder, CluesExist, AskedOnce, IntroInv, NetworkStep
    PROVE  \A i \in Answered(DoneIntro)' : IntroAnswer(mainQueue[i].val)'
<1>1. DoneIntro \in Cells /\ DurableView(DoneIntro)' = DurableView(DoneIntro)
  BY HuntCells, DurableNetwork
<1>2. \A i \in Answered(DoneIntro) : IntroAnswer(mainQueue[i].val)
  BY DEF IntroInv
<1>3. CASE WatchSync(DoneIntro)
  <2> DEFINE v == GetResult(View(cache', queue, DoneIntro), TRUE)
  <2>1. DoneIntro \in gets
    <3>1. DoneIntro \notin Listened
      BY HuntAssumption, HuntCells
    <3> QED
      BY <1>3, <3>1 DEF WatchSync
  <2>2. Answered(DoneIntro) = {}
    BY <2>1, HuntAssumption DEF AskedOnce, Once
  <2>3. v = DurableView(DoneIntro) /\ v \in Vals
    BY <1>1, <1>3, SnapshotResult, HuntCells DEF CluesExist
  <2>4. mainQueue' = Append(mainQueue, Got(DoneIntro, v))
    BY <1>3, <2>1 DEF WatchSync
  <2> HIDE DEF v
  <2>5. Got(DoneIntro, v) \in GotTasks
    BY <1>1, <2>3 DEF Got, GotTasks, Results
  <2>6. \A i \in Answered(DoneIntro)' : mainQueue'[i] = Got(DoneIntro, v)
    BY <2>2, <2>4, <2>5, TaskJoined DEF Answered
  <2>7. v = DurableView(DoneIntro)' /\ v # Unknown
    BY <1>1, <2>3, SyncAssumption
  <2>8. \A i \in Answered(DoneIntro)' : mainQueue'[i].val = v
    BY <2>6, GotFields
  <2> QED
    BY <2>7, <2>8 DEF IntroAnswer
<1>4. CASE ~WatchSync(DoneIntro)
  <2>1. Uncached => Uncached'
    BY <1>4, UncachedNetwork
  <2>2. CASE mainQueue' = mainQueue
    BY <1>1, <1>2, <2>1, <2>2 DEF Answered, IntroAnswer
  <2>3. ASSUME NEW d \in Cells, WatchSync(d)
        PROVE  \A i \in Answered(DoneIntro)' : IntroAnswer(mainQueue[i].val)'
    <3> DEFINE v == GetResult(View(cache', queue, d), TRUE)
    <3>1. d # DoneIntro
      BY <1>4, <2>3
    <3>2. \/ mainQueue' = mainQueue
          \/ mainQueue' = Append(mainQueue, Got(d, v))
      BY <2>3 DEF WatchSync
    <3>3. Got(d, v) \in GotTasks
      <4>1. DurableView(d) \in Results
        BY ViewType DEF DurableView, TypeOK, Results
      <4> QED
        BY <2>3, <4>1, SnapshotResult DEF Got, GotTasks
    <3>4. Got(d, v).cell = d
      BY GotFields
    <3> HIDE DEF v
    <3>5. \A i \in Answered(DoneIntro)' : i \in Answered(DoneIntro) /\ mainQueue'[i] = mainQueue[i]
      BY <3>1, <3>2, <3>3, <3>4, TaskJoined DEF Answered
    <3> QED
      BY <1>1, <1>2, <2>1, <3>5 DEF IntroAnswer
  <2>4. CASE BecomeOffline
    <3>1. PICK answers \in Seq(GotTasks) :
              /\ mainQueue' = mainQueue \o answers
              /\ \A i \in 1 .. Len(answers) :
                    \E d \in gets : answers[i] = Got(d, GetResult(LocalView(d), FALSE))
      BY <2>4, OfflineAnswers
    <3>2. answers \in Seq(GotTasks \cup OtherTasks)
      BY SeqDef
    <3>3. ASSUME NEW i \in Answered(DoneIntro)'
          PROVE  IntroAnswer(mainQueue[i].val)'
      <4>1. CASE i \in DOMAIN mainQueue /\ mainQueue'[i] = mainQueue[i]
        <5>1. i \in Answered(DoneIntro)
          BY <3>3, <4>1 DEF Answered
        <5> QED
          BY <1>1, <1>2, <2>1, <4>1, <5>1 DEF IntroAnswer
      <4>2. CASE /\ i - Len(mainQueue) \in 1 .. Len(answers)
                 /\ mainQueue'[i] = answers[i - Len(mainQueue)]
        <5>1. PICK d \in gets : mainQueue'[i] = Got(d, GetResult(LocalView(d), FALSE))
          BY <3>1, <4>2
        <5>2. mainQueue'[i].cell = d /\ mainQueue'[i].val = GetResult(LocalView(d), FALSE)
          BY <5>1, GotFields
        <5>3. mainQueue'[i].cell = DoneIntro
          BY <3>3 DEF Answered
        <5>4. mainQueue'[i].val = GetResult(LocalView(DoneIntro), FALSE)
          BY <5>2, <5>3
        <5> QED
          BY <1>1, <2>1, <5>4, OfflineIntro DEF IntroAnswer
      <4> QED
        BY <3>1, <3>2, <3>3, <4>1, <4>2, TasksJoined DEF Answered
    <3> QED
      BY <3>3
  <2>5. ServerCommit \/ Acknowledge \/ Reject \/ WriteStreamBreak \/ WatchMessage \/ WatchIdle
          \/ RestartNetwork => mainQueue' = mainQueue
    BY DEF ServerCommit, Acknowledge, Reject, WriteStreamBreak, WatchMessage, WatchIdle,
           RestartNetwork, session
  <2>6. WatchFailure \/ OnlineTimeout => BecomeOffline \/ mainQueue' = mainQueue
    BY DEF WatchFailure, OnlineTimeout
  <2> QED
    BY <2>2, <2>3, <2>4, <2>5, <2>6 DEF NetworkStep
<1> QED
  BY <1>3, <1>4

LEMMA IntroNetwork ==
    ASSUME HuntTypeOK, SyncInv, HuntInv, Gone, AskedOnce, IntroInv, NetworkStep,
           UNCHANGED <<home, inputs>>
    PROVE  IntroInv'
<1>1. TypeOK /\ MutationsInOrder /\ CluesExist /\ DoneIntro \in Fetched /\ DoneIntro \in Cells
  BY HuntAssumption, HuntCells DEF HuntTypeOK, HuntInv
<1>2. up /\ crash # "cast"
  <2>1. up
    BY DEF NetworkStep, ServerCommit, Acknowledge, Reject, WriteStreamBreak, WatchSync,
       WatchMessage, WatchFailure, OnlineTimeout, WatchIdle, RestartNetwork
  <2> QED
    BY <2>1 DEF Gone
<1>3. InFlight(DoneIntro)' => InFlight(DoneIntro)
  BY <1>1, OnceNetwork
<1>4. Dismissing' <=> Dismissing
  BY NetworkLeavesCalls DEF Dismissing
<1>5. DurableView(DoneIntro)' = DurableView(DoneIntro)
  BY <1>1, DurableNetwork
<1>6. \A i \in Answered(DoneIntro)' : IntroAnswer(mainQueue[i].val)'
  BY <1>1, IntroNetworkAnswers
<1>7. intro' = intro /\ crash' = crash
  BY DEF home
<1> QED
  BY <1>2, <1>3, <1>4, <1>5, <1>6, <1>7 DEF IntroInv

LEMMA IntroGet ==
    ASSUME HuntTypeOK, SyncInv, HuntInv, AskedOnce, IntroInv, WorkerGet,
           UNCHANGED <<home, inputs>>
    PROVE  IntroInv'
<1> DEFINE d == Head(worker).cell
           v == GetResult(LocalView(d), FALSE)
<1>1. /\ TypeOK /\ CallsInOrder /\ MutationsInOrder
      /\ DoneIntro \in Fetched /\ DoneIntro \in Cells /\ Fetched \subseteq Cells
  BY HuntAssumption, HuntCells, SyncAssumption DEF HuntTypeOK, HuntInv
<1>2. InFlight(DoneIntro)' => InFlight(DoneIntro)
  BY <1>1, OnceGet
<1>3. Dismissing' => Dismissing
  BY <1>1, GetInFront, CallsShift DEF Dismissing
<1>4. DurableView(DoneIntro)' = DurableView(DoneIntro) /\ (Uncached' <=> Uncached)
  BY <1>1, GetTakenUp DEF WorkerGet, disk, Uncached
<1>5. \A i \in Answered(DoneIntro) : IntroAnswer(mainQueue[i].val)
  BY DEF IntroInv
<1>6. d \in Fetched /\ Got(d, v) \in GotTasks
  BY <1>1, GetInFront, LocalViewType, GotType
<1>7. Got(d, v).cell = d /\ Got(d, v).val = v
  BY GotFields
<1>8. mainQueue' = mainQueue \/ mainQueue' = Append(mainQueue, Got(d, v))
  BY DEF WorkerGet
<1>9. d = DoneIntro => IntroAnswer(v)
  BY <1>1, OfflineIntro
<1> HIDE DEF v, d
<1>10. ASSUME NEW i \in Answered(DoneIntro)'
       PROVE  \/ i \in Answered(DoneIntro) /\ mainQueue'[i] = mainQueue[i]
              \/ d = DoneIntro /\ mainQueue'[i].val = v
  <2>1. CASE mainQueue' = mainQueue
    BY <1>10, <2>1 DEF Answered
  <2>2. CASE mainQueue' = Append(mainQueue, Got(d, v))
    BY <1>1, <1>6, <1>7, <1>10, <2>2, TaskJoined DEF Answered
  <2> QED
    BY <1>8, <2>1, <2>2
<1>11. \A i \in Answered(DoneIntro)' : IntroAnswer(mainQueue[i].val)'
  BY <1>4, <1>5, <1>9, <1>10 DEF IntroAnswer
<1>12. intro' = intro /\ crash' = crash
  BY DEF home
<1> QED
  BY <1>2, <1>3, <1>4, <1>11, <1>12 DEF IntroInv

\* The dismissal is written only while nothing waits for the flag.
LEMMA IntroWrite ==
    ASSUME HuntTypeOK, SyncInv, HuntInv, Gone, AskedOnce, IntroInv, WorkerWrite,
           UNCHANGED <<home, inputs>>
    PROVE  IntroInv'
<1>1. TypeOK /\ CallsInOrder /\ CluesExist /\ DoneIntro \in Cells /\ DoneIntro \in Fetched
  BY HuntCells, HuntAssumption DEF HuntTypeOK, HuntInv
<1>2. worker # <<>> /\ worker' = Tail(worker) /\ mainQueue' = mainQueue /\ gets' = gets
  BY DEF WorkerWrite
<1>3. InFlight(DoneIntro)' => InFlight(DoneIntro)
  BY <1>1, <1>2, CallsShift DEF InFlight
<1>4. Dismissing' => Dismissing
  BY <1>1, <1>2, CallsShift DEF Dismissing
<1>5. intro' = intro /\ crash' = crash /\ (Uncached' <=> Uncached)
      /\ Answered(DoneIntro)' = Answered(DoneIntro)
  BY <1>2 DEF home, WorkerWrite, Uncached, Answered
<1>6. CASE DurableView(DoneIntro)' = DurableView(DoneIntro)
  <2>1. \A i \in Answered(DoneIntro)' : IntroAnswer(mainQueue[i].val)'
    BY <1>2, <1>5, <1>6 DEF IntroInv, IntroAnswer
  <2> QED
    BY <1>3, <1>4, <1>5, <1>6, <2>1 DEF IntroInv
<1>7. CASE DurableView(DoneIntro)' # DurableView(DoneIntro)
  <2>1. worker[1] = UpdateData(DoneIntro, "done")
    <3>1. DoneIntro \notin Routes \cup Clues \cup Foreign \cup {LastPath}
      BY HuntCells DEF Routes
    <3> QED
      BY <1>1, <1>7, <3>1, WorkerOnCells DEF WorkerStep
  <2>2. Dismissing
    BY <1>1, <1>2, <2>1, CallsShift DEF Dismissing
  <2>3. ~InFlight(DoneIntro) /\ ~intro
    BY <2>2 DEF IntroInv
  <2>4. Answered(DoneIntro)' = {}
    BY <1>5, <2>3 DEF InFlight, Answered
  <2> QED
    BY <1>3, <1>4, <1>5, <2>3, <2>4 DEF IntroInv
<1> QED
  BY <1>6, <1>7

\* The answer about the introduction is the only one, and nothing is called for then.
LEMMA IntroGot ==
    ASSUME HuntTypeOK, SyncInv, HuntInv, Gone, AskedOnce, IntroInv, GotDoneIntro
    PROVE  IntroInv'
<1> DEFINE done == Head(mainQueue).val
<1>1. TypeOK /\ CluesExist /\ Flags \subseteq Vals /\ DoneIntro \in Fetched
  BY HuntCells, HuntAssumption DEF HuntTypeOK, HuntInv
<1>2. /\ mainQueue # <<>> /\ Head(mainQueue) = mainQueue[1] /\ 1 \in DOMAIN mainQueue
      /\ 1 \in Answered(DoneIntro)
  <2>1. mainQueue # <<>> /\ Head(mainQueue) \in GotTasks /\ Head(mainQueue).cell = DoneIntro
    BY DEF GotDoneIntro
  <2>2. Head(mainQueue) = mainQueue[1] /\ 1 \in DOMAIN mainQueue
    BY <1>1, <2>1, FrontTask
  <2> QED
    BY <2>1, <2>2 DEF Answered
<1>3. IntroAnswer(done) /\ ~intro /\ ~Dismissing
  BY <1>2 DEF IntroInv, InFlight, Answered
<1>4. /\ Calling(DoneIntro) = {} /\ DoneIntro \notin gets /\ \A i \in Answered(DoneIntro) : i = 1
  BY <1>1, <1>2 DEF AskedOnce, Once
<1>5. CASE done \in Flags
  <2>1. TakeGot /\ crash' = crash /\ (intro' => done = "undone")
    BY <1>3, <1>5 DEF GotDoneIntro
  <2>2. /\ mainQueue' = Tail(mainQueue) /\ worker' = worker /\ gets' = gets
        /\ UNCHANGED <<server, disk>>
    BY <2>1 DEF TakeGot
  <2>3. Answered(DoneIntro)' = {}
    <3>1. \A i \in Answered(DoneIntro)' : i + 1 \in Answered(DoneIntro) /\ i + 1 # 1
      BY <1>1, <1>2, <2>2, TasksTail DEF Answered
    <3> QED
      BY <1>4, <3>1
  <2>4. ~InFlight(DoneIntro)' /\ ~Dismissing'
    BY <1>3, <1>4, <2>2, <2>3 DEF InFlight, Answered, Calling, Dismissing
  <2>5. /\ DurableView(DoneIntro)' = DurableView(DoneIntro) /\ (Uncached' <=> Uncached)
        /\ done = DurableView(DoneIntro)
    BY <1>1, <1>3, <1>5, <2>2, SyncAssumption DEF DurableView, disk, Uncached, IntroAnswer
  <2>6. crash = "cast" => Uncached
    BY DEF IntroInv
  <2> QED
    BY <2>1, <2>3, <2>4, <2>5, <2>6 DEF IntroInv
<1>6. CASE done \notin Flags
  <2>1. Crash("cast")
    BY <1>6 DEF GotDoneIntro
  <2>2. /\ worker' = <<>> /\ gets' = {} /\ mainQueue' = <<>> /\ ~intro'
        /\ UNCHANGED <<server, disk>>
    BY <2>1 DEF Crash, Exit, HomeGone
  <2>3. Uncached
    BY <1>1, <1>3, <1>6 DEF IntroAnswer, CluesExist
  <2>4. Uncached' /\ ~InFlight(DoneIntro)' /\ Answered(DoneIntro)' = {}
    BY <2>2, <2>3 DEF Uncached, disk, InFlight, Answered
  <2> QED
    BY <2>2, <2>4 DEF IntroInv
<1> QED
  BY <1>5, <1>6

\* The other steps of the hunt neither show the pages nor end the process by the cast, and
\* only the button calls for the dismissal.
LEMMA IntroOther ==
    ASSUME TypeOK, [HuntNext]_huntVars, ~ClientStep, ~Launch, ~GotDoneIntro, ~DismissIntro
    PROVE  (intro' => intro) /\ (crash' = "cast" => crash = "cast") /\ (Dismissing' => Dismissing)
<1>1. (intro' => intro) /\ (crash' = "cast" => crash = "cast")
  <2>1. CASE KillApp
    BY <2>1 DEF KillApp, HomeGone
  <2>2. ASSUME NEW reason \in {"file", "source", "path"}, Crash(reason)
        PROVE  ~intro' /\ crash' # "cast"
    BY <2>2 DEF Crash, HomeGone
  <2>3. ASSUME NEW code \in Codes, Scan(code)
        PROVE  (intro' => intro) /\ (crash' = "cast" => crash = "cast")
    <3>1. CASE Crash("path")
      BY <2>2, <3>1
    <3>2. CASE intro' = intro /\ crash' = crash
      BY <3>2
    <3> QED
      BY <2>3, <3>1, <3>2 DEF Scan, ScanFinal, ScanClue, ScanMalformed
  <2>4. CASE GotLastPath
    BY <2>4 DEF GotLastPath
  <2>5. CASE DrawPolyline
    BY <2>2, <2>5 DEF DrawPolyline
  <2>6. ASSUME NEW c \in Routes \cup {Final}, LoadGeoJson(c)
        PROVE  (intro' => intro) /\ (crash' = "cast" => crash = "cast")
    BY <2>2, <2>6 DEF LoadGeoJson
  <2>7. CASE StyleLoaded \/ DismissMessage \/ UNCHANGED huntVars
    BY <2>7 DEF StyleLoaded, DismissMessage, huntVars, home
  <2> QED
    BY <2>1, <2>3, <2>4, <2>5, <2>6, <2>7 DEF HuntNext, MainStep, LoadStep
<1>2. Dismissing' => Dismissing
  <2>1. CASE worker' = worker \/ worker' = <<>>
    BY <2>1 DEF Dismissing
  <2>2. CASE worker' = worker \o <<UpdateData(Final, "unlocked")>>
    <3>1. UpdateData(Final, "unlocked") # UpdateData(DoneIntro, "done")
      BY CallFields, HuntCells
    <3>2. \A i \in DOMAIN worker' : \/ i \in DOMAIN worker /\ worker'[i] = worker[i]
                                    \/ worker'[i] = UpdateData(Final, "unlocked")
      BY <2>2, ScanCalls, WorkerPlusOne
    <3> QED
      BY <3>1, <3>2 DEF Dismissing
  <2>3. ASSUME NEW c \in Routes,
               worker' = worker \o <<SetData(LastPath, c), UpdateData(c, "unlocked")>>
        PROVE  Dismissing' => Dismissing
    <3>1. /\ SetData(LastPath, c) # UpdateData(DoneIntro, "done")
          /\ UpdateData(c, "unlocked") # UpdateData(DoneIntro, "done")
      BY CallFields, HuntCells
    <3>2. \A i \in DOMAIN worker' : \/ i \in DOMAIN worker /\ worker'[i] = worker[i]
                                    \/ worker'[i] = SetData(LastPath, c)
                                    \/ worker'[i] = UpdateData(c, "unlocked")
      <4> DEFINE n == Len(worker)
      <4>1. /\ n \in Nat /\ DOMAIN worker = 1 .. n /\ DOMAIN worker' = 1 .. n + 2
            /\ \A i \in 1 .. n : worker'[i] = worker[i]
            /\ worker'[n + 1] = SetData(LastPath, c)
            /\ worker'[n + 2] = UpdateData(c, "unlocked")
        BY <2>3, ScanCalls, WorkerPlusTwo
      <4>2. \A i \in DOMAIN worker' : i \in DOMAIN worker \/ i = n + 1 \/ i = n + 2
        BY <4>1
      <4> QED
        BY <4>1, <4>2
    <3> QED
      BY <3>1, <3>2 DEF Dismissing
  <2>4. \/ worker' = worker \/ worker' = <<>>
        \/ worker' = worker \o <<UpdateData(Final, "unlocked")>>
        \/ \E c \in Routes : worker' = worker \o <<SetData(LastPath, c), UpdateData(c, "unlocked")>>
    BY ZenonT(30), HuntCallsMade
  <2> QED
    BY <2>1, <2>2, <2>3, <2>4
<1> QED
  BY <1>1, <1>2

LEMMA IntroNext ==
    HuntTypeOK /\ SyncInv /\ HuntInv /\ Gone /\ AskedOnce /\ IntroInv /\ [HuntNext]_huntVars
        => IntroInv'
<1> SUFFICES ASSUME HuntTypeOK, SyncInv, HuntInv, Gone, AskedOnce, IntroInv,
                    [HuntNext]_huntVars
             PROVE  IntroInv'
  OBVIOUS
<1>1. TypeOK /\ DoneIntro \in Fetched
  BY HuntAssumption DEF HuntTypeOK
<1>2. CASE ClientStep
  BY <1>2, IntroNetwork, IntroGet, IntroWrite DEF ClientStep, WorkerStep
<1>3. CASE GotDoneIntro
  BY <1>3, IntroGot
<1>4. CASE Launch
  <2>1. ~intro' /\ crash' = "none" /\ Answered(DoneIntro)' = {}
    BY <1>4, LaunchCalls DEF Answered
  <2>2. ~Dismissing'
    BY <1>4, LaunchCalls, CallFields DEF Dismissing
  <2> QED
    BY <2>1, <2>2 DEF IntroInv
<1>5. CASE ~ClientStep /\ ~GotDoneIntro /\ ~Launch
  <2>1. UNCHANGED <<server, disk>>
    BY <1>5, HuntStepKinds
  <2>2. DurableView(DoneIntro)' = DurableView(DoneIntro) /\ (Uncached' <=> Uncached)
    BY <2>1 DEF DurableView, disk, Uncached
  <2>3. /\ InFlight(DoneIntro)' => InFlight(DoneIntro)
        /\ \E l \in Nat : \A i \in Answered(DoneIntro)' :
              i \in Nat /\ i + l \in Answered(DoneIntro) /\ mainQueue'[i] = mainQueue[i + l]
    BY <1>1, <1>5, OnceOther
  <2>4. \A i \in Answered(DoneIntro)' : IntroAnswer(mainQueue[i].val)'
    BY <2>2, <2>3 DEF IntroInv, IntroAnswer
  <2>5. CASE DismissIntro
    <3>1. intro /\ ~intro' /\ crash' = crash
      BY <2>5 DEF DismissIntro
    <3> QED
      BY <2>2, <2>3, <2>4, <3>1 DEF IntroInv
  <2>6. CASE ~DismissIntro
    BY <1>1, <1>5, <2>2, <2>3, <2>4, <2>6, IntroOther DEF IntroInv
  <2> QED
    BY <2>5, <2>6
<1> QED
  BY <1>2, <1>3, <1>4, <1>5

LEMMA HuntIntro == HuntSpec => []IntroInv
<1>1. HuntInit => IntroInv
  <2> SUFFICES ASSUME HuntInit PROVE IntroInv
    OBVIOUS
  <2>1. worker = <<>> /\ gets = {} /\ mainQueue = <<>> /\ ~intro /\ crash = "none"
    BY DEF HuntInit, Init
  <2> QED
    BY <2>1 DEF IntroInv, InFlight, Answered
<1> QED
  BY <1>1, IntroNext, HuntTypeCorrect, HuntStreamsAreSound, ScansTravelInOrder, HuntOnce, PTL
  DEF HuntSpec

\* Once its dismissal is called for, the introduction is not shown again: not by an answer
\* that is under way or comes later, nor after the process died with the call.
THEOREM IntroductionOnce == HuntSpec => []IntroOnce
<1>1. IntroInv /\ HuntTypeOK => IntroOnce
  <2> SUFFICES ASSUME IntroInv, Dismissing \/ DurableView(DoneIntro) = "done"
               PROVE  ~intro /\ \A i \in Answered(DoneIntro) : mainQueue[i].val # "undone"
    BY DEF IntroOnce
  <2>1. ~intro
    BY DEF IntroInv
  <2>2. ASSUME NEW i \in Answered(DoneIntro), mainQueue[i].val = "undone"
        PROVE  FALSE
    <3>1. InFlight(DoneIntro)
      BY <2>2 DEF InFlight, Answered
    <3>2. DurableView(DoneIntro) = "done"
      BY <3>1 DEF IntroInv
    <3>3. IntroAnswer("undone") /\ "undone" # Unknown
      BY <2>2, SyncAssumption, HuntCells DEF IntroInv, Flags
    <3> QED
      BY <3>2, <3>3 DEF IntroAnswer
  <2> QED
    BY <2>1, <2>2
<1> QED
  BY <1>1, HuntIntro, HuntTypeCorrect, PTL

-----------------------------------------------------------------------------
(* The session before its first scan *)

\* A step that loads and draws nothing, and brings no answer but the stored route.
LEMMA RestoringKept ==
    ASSUME Restoring, UNCHANGED <<loading, sources>>, NEW l \in Nat,
           DurableView(LastPath)' = DurableView(LastPath),
           \A i \in DOMAIN worker' : worker'[i].op # "set",
           \A i \in Answered(LastPath)' : mainQueue'[i].val \in {DurableView(LastPath), Unknown},
           \A i \in Drawing' : i \in Nat /\ i + l \in Drawing /\ mainQueue'[i] = mainQueue[i + l],
           InFlight(LastPath)' => InFlight(LastPath)
    PROVE  Restoring'
<1> DEFINE last == DurableView(LastPath)
<1>1. ASSUME NEW i \in Drawing', NEW j \in Drawing'
      PROVE  i = j
  <2>1. i \in Nat /\ j \in Nat /\ i + l = j + l
    BY <1>1 DEF Restoring
  <2> QED
    BY <2>1
<1>2. Drawing = {} => Drawing' = {}
  OBVIOUS
<1>3. \A i \in Drawing' : mainQueue'[i] = Draw(last)
  BY DEF Restoring
<1>4. NoLoads' = NoLoads /\ Draw(last)' = Draw(last) /\ last' = last
  BY DEF NoLoads, Draw
<1> HIDE DEF last
<1>5. /\ \A i \in Answered(LastPath)' : mainQueue'[i].val \in {last, Unknown}
      /\ loading # NoLoads => last \in Routes /\ loading = [NoLoads EXCEPT ![last] = 1]
      /\ sources \subseteq {last}
  BY DEF Restoring, last
<1>6. /\ InFlight(LastPath) => loading = NoLoads /\ Drawing = {} /\ sources = {}
      /\ loading # NoLoads => Drawing = {} /\ sources = {}
      /\ Drawing # {} => sources = {}
  BY DEF Restoring
<1> QED
  BY <1>1, <1>2, <1>3, <1>4, <1>5, <1>6 DEF Restoring, last

\* The client adds only answers to the main queue.
LEMMA ClientTasks ==
    ASSUME TypeOK, CallsInOrder, ClientStep
    PROVE  \E tasks \in Seq(GotTasks) : mainQueue' = mainQueue \o tasks
<1>1. CASE mainQueue' = mainQueue
  <2>1. <<>> \in Seq(GotTasks) /\ mainQueue \o <<>> = mainQueue
    BY ConcatProperties DEF TypeOK
  <2> QED
    BY <1>1, <2>1
<1>2. ASSUME NEW t \in GotTasks, mainQueue' = Append(mainQueue, t)
      PROVE  \E tasks \in Seq(GotTasks) : mainQueue' = mainQueue \o tasks
  <2>1. t \in GotTasks \cup OtherTasks /\ mainQueue \in Seq(GotTasks \cup OtherTasks)
    BY DEF TypeOK
  <2>2. Append(mainQueue, t) = mainQueue \o <<t>> /\ <<t>> \in Seq(GotTasks)
    BY <2>1, AppendIsConcat
  <2> QED
    BY <1>2, <2>2
<1>3. CASE WorkerGet
  <2> DEFINE d == Head(worker).cell
             v == GetResult(LocalView(d), FALSE)
  <2>1. Got(d, v) \in GotTasks
    BY <1>3, GetInFront, LocalViewType, GotType, SyncAssumption
  <2>2. mainQueue' = mainQueue \/ mainQueue' = Append(mainQueue, Got(d, v))
    BY <1>3 DEF WorkerGet
  <2> HIDE DEF v, d
  <2> QED
    BY <1>1, <1>2, <2>1, <2>2
<1>4. ASSUME NEW d \in Cells, WatchSync(d)
      PROVE  \E tasks \in Seq(GotTasks) : mainQueue' = mainQueue \o tasks
  <2> DEFINE v == GetResult(View(cache', queue, d), TRUE)
  <2>1. Got(d, v) \in GotTasks
    <3>1. DurableView(d) \in Results
      BY ViewType DEF DurableView, TypeOK, Results
    <3> QED
      BY <1>4, <3>1, SnapshotResult DEF Got, GotTasks
  <2>2. mainQueue' = mainQueue \/ mainQueue' = Append(mainQueue, Got(d, v))
    BY <1>4 DEF WatchSync
  <2> HIDE DEF v
  <2> QED
    BY <1>1, <1>2, <2>1, <2>2
<1>5. CASE BecomeOffline
  BY <1>5, OfflineAnswers
<1>6. WorkerWrite \/ ServerCommit \/ Acknowledge \/ Reject \/ WriteStreamBreak \/ WatchMessage
        \/ WatchIdle \/ RestartNetwork => mainQueue' = mainQueue
  BY DEF WorkerWrite, ServerCommit, Acknowledge, Reject, WriteStreamBreak, WatchMessage, WatchIdle,
         RestartNetwork, session
<1>7. WatchFailure \/ OnlineTimeout => BecomeOffline \/ mainQueue' = mainQueue
  BY DEF WatchFailure, OnlineTimeout
<1> QED
  BY <1>1, <1>3, <1>4, <1>5, <1>6, <1>7 DEF ClientStep, WorkerStep, NetworkStep

\* The client answers with the stored route, and leaves it alone.
LEMMA RestoringClient ==
    ASSUME HuntTypeOK, SyncInv, HuntInv, OnlyFetched, AskedOnce, Restoring, ClientStep
    PROVE  Restoring' /\ DurableView(LastPath)' = DurableView(LastPath)
<1> DEFINE last == DurableView(LastPath)
<1>1. /\ TypeOK /\ CallsInOrder /\ CluesExist
      /\ LastPath \in Cells /\ LastPath \in Fetched
  BY HuntCells, HuntAssumption DEF HuntTypeOK, HuntInv
<1>2. \A i \in DOMAIN worker : worker[i].op # "set"
  BY DEF Restoring
<1>3. loading' = loading /\ sources' = sources
  BY DEF ClientStep, home
<1>4. last' = last /\ \A i \in DOMAIN worker' : worker'[i].op # "set"
  <2>1. CASE NetworkStep
    BY <1>1, <1>2, <2>1, DurableNetwork, NetworkLeavesCalls
  <2>2. CASE WorkerStep
    <3>1. worker # <<>> /\ worker' = Tail(worker)
      BY <1>1, <2>2, WorkerOnCells
    <3>2. 1 \in DOMAIN worker /\ \A i \in DOMAIN worker' : worker'[i].op # "set"
      BY <1>1, <1>2, <3>1, CallsShift
    <3>3. \A c \in Routes : worker[1] # SetData(LastPath, c)
      BY <1>2, <3>2, CallFields
    <3>4. LastPath \notin Clues \cup Foreign \cup {DoneIntro}
      BY HuntCells DEF Routes, Clues
    <3>5. last' = last
      BY <1>1, <2>2, <3>3, <3>4, WorkerOnCells
    <3> QED
      BY <3>2, <3>5
  <2> QED
    BY <2>1, <2>2 DEF ClientStep
<1>5. InFlight(LastPath)' => InFlight(LastPath)
  <2>1. CASE WorkerWrite
    BY <1>1, <2>1, CallsShift DEF WorkerWrite, InFlight
  <2>2. CASE WorkerGet
    BY <1>1, <2>2, OnceGet
  <2>3. CASE NetworkStep
    BY <1>1, <2>3, OnceNetwork
  <2> QED
    BY <2>1, <2>2, <2>3 DEF ClientStep, WorkerStep
<1>6. AnswersAreLatest
  BY <1>1, WorkerAnswers, NetworkAnswers DEF ClientStep
<1>7. PICK tasks \in Seq(GotTasks) : mainQueue' = mainQueue \o tasks
  BY <1>1, ClientTasks
<1>8. tasks \in Seq(GotTasks \cup OtherTasks)
  BY SeqDef
<1>9. /\ Len(mainQueue) \in Nat /\ DOMAIN mainQueue = 1 .. Len(mainQueue)
      /\ \A i \in DOMAIN mainQueue' :
            \/ i \in DOMAIN mainQueue /\ mainQueue'[i] = mainQueue[i]
            \/ i > Len(mainQueue) /\ mainQueue'[i] \in GotTasks
  <2>1. \A k \in 1 .. Len(tasks) : tasks[k] \in GotTasks
    BY ElementOfSeq
  <2> QED
    BY <1>1, <1>7, <1>8, <2>1, TasksJoined
<1>10. \A i \in Answered(LastPath)' : mainQueue'[i].val \in {last, Unknown}
  <2> SUFFICES ASSUME NEW i \in Answered(LastPath)'
               PROVE  mainQueue'[i].val \in {last, Unknown}
    OBVIOUS
  <2>1. i \in DOMAIN mainQueue' /\ mainQueue'[i] \in GotTasks /\ mainQueue'[i].cell = LastPath
    BY DEF Answered
  <2>2. CASE i > Len(mainQueue)
    BY <1>4, <1>6, <2>1, <2>2 DEF AnswersAreLatest
  <2>3. CASE i \in DOMAIN mainQueue /\ mainQueue'[i] = mainQueue[i]
    <3>1. i \in Answered(LastPath)
      BY <2>1, <2>3 DEF Answered
    <3> QED
      BY <2>3, <3>1 DEF Restoring
  <2> QED
    BY <1>9, <2>1, <2>2, <2>3
<1>11. \A i \in Drawing' : i \in Nat /\ i + 0 \in Drawing /\ mainQueue'[i] = mainQueue[i + 0]
  <2>1. GotTasks \cap OtherTasks = {}
    BY HuntAssumption DEF GotTasks
  <2> QED
    BY <1>1, <1>9, <2>1, TaskIndices DEF Drawing
<1> HIDE DEF last
<1>12. Restoring'
  BY <1>3, <1>4, <1>5, <1>10, <1>11, RestoringKept DEF last
<1> QED
  BY <1>4, <1>12 DEF last

\* The answer of getLastPath is the only one, and is loaded once.
LEMMA RestoringGot ==
    ASSUME HuntTypeOK, AskedOnce, Restoring, GotLastPath
    PROVE  Restoring'
<1> DEFINE last == DurableView(LastPath)
           v == Head(mainQueue).val
<1>1. /\ TypeOK /\ LastPath \in Fetched
      /\ mainQueue # <<>> /\ mainQueue' = Tail(mainQueue)
      /\ Head(mainQueue) \in GotTasks /\ Head(mainQueue).cell = LastPath
      /\ worker' = worker /\ gets' = gets /\ sources' = sources /\ UNCHANGED <<server, queue>>
  BY HuntAssumption DEF HuntTypeOK, GotLastPath, TakeGot, disk
<1>2. 1 \in Answered(LastPath) /\ Head(mainQueue) = mainQueue[1]
  BY <1>1, FrontTask DEF Answered
<1>3. /\ Calling(LastPath) = {} /\ LastPath \notin gets
      /\ \A i \in Answered(LastPath) : i = 1
  BY <1>1, <1>2 DEF AskedOnce, Once
<1>4. loading = NoLoads /\ Drawing = {} /\ sources = {} /\ v \in {last, Unknown}
  <2>1. InFlight(LastPath)
    BY <1>2 DEF InFlight, Answered
  <2> QED
    BY <1>2, <2>1 DEF Restoring
<1>5. Answered(LastPath)' = {} /\ Drawing' = {}
  <2>1. \A i \in Answered(LastPath)' : i + 1 \in Answered(LastPath) /\ i + 1 # 1
    BY <1>1, TasksTail DEF Answered
  <2>2. \A i \in Drawing' : i + 1 \in Drawing
    BY <1>1, TasksTail DEF Drawing
  <2> QED
    BY <1>3, <1>4, <2>1, <2>2
<1>6. ~InFlight(LastPath)'
  BY <1>1, <1>3, <1>5 DEF InFlight, Calling, Answered
<1>7. \A i \in DOMAIN worker' : worker'[i].op # "set"
  BY <1>1 DEF Restoring
<1>8. last' = last /\ NoLoads' = NoLoads /\ sources' = {}
  BY <1>1, <1>4 DEF DurableView, NoLoads
<1>9. loading' # NoLoads => last \in Routes /\ loading' = [NoLoads EXCEPT ![last] = 1]
  <2>1. CASE v \in Routes
    <3>1. v = last
      BY <1>4, <2>1, HuntCells, SyncAssumption
    <3>2. loading' = [NoLoads EXCEPT ![v] = @ + 1]
      BY <1>4, <2>1 DEF GotLastPath, SubmitLoad
    <3>3. NoLoads[v] = 0
      BY <2>1 DEF NoLoads
    <3>4. loading' = [NoLoads EXCEPT ![v] = 1]
      BY <3>2, <3>3
    <3> HIDE DEF last, v
    <3> QED
      BY <2>1, <3>1, <3>4
  <2>2. CASE v \notin Routes
    BY <1>4, <2>2 DEF GotLastPath
  <2> QED
    BY <2>1, <2>2
<1> HIDE DEF last
<1> QED
  BY <1>5, <1>6, <1>7, <1>8, <1>9 DEF Restoring, last

\* The file of the stored route is found, or the process ends.
LEMMA RestoringLoad ==
    ASSUME HuntTypeOK, Restoring, NEW c \in Routes \cup {Final}, LoadGeoJson(c),
           InFlight(LastPath)' => InFlight(LastPath)
    PROVE  \/ Restoring' /\ crash' = crash
           \/ Crash("file") /\ DurableView(LastPath) \in Foreign
<1> DEFINE last == DurableView(LastPath)
<1>1. NoLoads[c] = 0 /\ loading[c] > 0 /\ TypeOK
  BY DEF NoLoads, LoadGeoJson, HuntTypeOK
<1>2. loading # NoLoads
  BY <1>1
<1>3. /\ last \in Routes /\ loading = [NoLoads EXCEPT ![last] = 1]
      /\ Drawing = {} /\ sources = {} /\ ~InFlight(LastPath)
  BY <1>2 DEF Restoring
<1>4. c = last /\ loading[c] = 1
  BY <1>1, <1>3 DEF NoLoads
<1>5. CASE c \in Clues
  <2>1. c \in Bundled /\ c # Final
    BY <1>3, <1>4, <1>5, HuntCells DEF Clues
  <2>2. /\ loading' = [loading EXCEPT ![c] = 0] /\ mainQueue' = Append(mainQueue, Draw(c))
        /\ worker' = worker /\ sources' = {} /\ crash' = crash /\ UNCHANGED <<server, queue>>
    BY <1>3, <1>4, <1>5, <2>1 DEF LoadGeoJson, disk
  <2>3. loading' = NoLoads /\ NoLoads' = NoLoads
    BY <1>3, <1>4, <2>2 DEF NoLoads
  <2>4. last' = last /\ \A i \in DOMAIN worker' : worker'[i].op # "set"
    BY <2>2 DEF Restoring, DurableView
  <2>5. Draw(c) \in OtherTasks /\ Draw(c) \notin GotTasks
    BY <2>1, HuntAssumption DEF Draw, GotTasks
  <2>6. Answered(LastPath)' = {}
    <3>1. Answered(LastPath) = {}
      BY <1>3 DEF InFlight, Answered
    <3>2. \A i \in Answered(LastPath)' : i \in Answered(LastPath)
      BY <1>1, <2>2, <2>5, TaskJoined DEF Answered
    <3> QED
      BY <3>1, <3>2
  <2>7. \A i \in Drawing' : i = Len(mainQueue) + 1 /\ mainQueue'[i] = Draw(c)
    <3>1. \A i \in DOMAIN mainQueue : i \in Drawing <=> mainQueue[i] \in OtherTasks
      BY DEF Drawing
    <3> QED
      BY <1>1, <1>3, <2>2, <2>5, <3>1, TaskJoined DEF Drawing
  <2>8. Draw(c)' = Draw(c) /\ ~InFlight(LastPath)'
    BY <1>3 DEF Draw
  <2> HIDE DEF last
  <2> QED
    BY <1>4, <2>2, <2>3, <2>4, <2>6, <2>7, <2>8 DEF Restoring, last
<1>6. CASE c \notin Clues
  BY <1>3, <1>4, <1>6 DEF LoadGeoJson, Routes, Clues
<1> QED
  BY <1>5, <1>6

\* The route is drawn on a map that has none.
LEMMA RestoringDraw ==
    ASSUME HuntTypeOK, Restoring, DrawPolyline, InFlight(LastPath)' => InFlight(LastPath)
    PROVE  Restoring' /\ crash' = crash
<1> DEFINE last == DurableView(LastPath)
<1>1. TypeOK /\ mainQueue # <<>> /\ Head(mainQueue).task = "draw"
  BY DEF HuntTypeOK, DrawPolyline
<1>2. 1 \in Drawing /\ Head(mainQueue) = mainQueue[1]
  <2>1. 1 \in DOMAIN mainQueue /\ Head(mainQueue) = mainQueue[1]
    BY <1>1, FrontTask
  <2>2. mainQueue[1] \in GotTasks \cup OtherTasks
    BY <1>1, <2>1, ElementOfSeq, LenProperties DEF TypeOK
  <2>3. mainQueue[1] \notin GotTasks
    BY <1>1, <2>1 DEF GotTasks
  <2> QED
    BY <2>1, <2>2, <2>3 DEF Drawing
<1>3. /\ mainQueue[1] = Draw(last) /\ \A i \in Drawing : i = 1
      /\ sources = {} /\ loading = NoLoads /\ ~InFlight(LastPath)
  BY <1>2 DEF Restoring
<1>4. Head(mainQueue).clue = last
  BY <1>2, <1>3 DEF Draw
<1>5. /\ sources' \subseteq {last} /\ mainQueue' = Tail(mainQueue) /\ worker' = worker
      /\ loading' = NoLoads /\ crash' = crash /\ UNCHANGED <<server, queue>>
  BY <1>3, <1>4 DEF DrawPolyline, disk
<1>6. Answered(LastPath)' = {} /\ Drawing' = {} /\ ~InFlight(LastPath)'
  <2>1. \A i \in Drawing' : i + 1 \in Drawing /\ i + 1 # 1
    BY <1>1, <1>5, TasksTail DEF Drawing
  <2>2. Answered(LastPath)' = {}
    BY <1>3 DEF InFlight, Answered
  <2> QED
    BY <1>3, <2>1, <2>2
<1>7. last' = last /\ NoLoads' = NoLoads /\ \A i \in DOMAIN worker' : worker'[i].op # "set"
  BY <1>5 DEF Restoring, DurableView, NoLoads
<1> HIDE DEF last
<1> QED
  BY <1>5, <1>6, <1>7 DEF Restoring, last

\* The steps that have nothing to do with routes.
LEMMA RestoringOther ==
    ASSUME HuntTypeOK, HuntInv, Restoring, InFlight(LastPath)' => InFlight(LastPath),
           \A i \in Answered(LastPath)' :
              \E j \in Answered(LastPath) : mainQueue'[i] = mainQueue[j],
           \/ GotDoneIntro /\ TakeGot /\ UNCHANGED <<loading, sources>>
           \/ DismissIntro \/ StyleLoaded \/ DismissMessage \/ UNCHANGED huntVars
    PROVE  Restoring'
<1>1. TypeOK
  BY DEF HuntTypeOK
<1>2. /\ loading' = loading /\ sources' = sources /\ UNCHANGED <<server, queue>>
      /\ mainQueue' = mainQueue \/ (mainQueue # <<>> /\ mainQueue' = Tail(mainQueue))
      /\ worker' = worker \/ worker' = worker \o <<UpdateData(DoneIntro, "done")>>
  BY DEF TakeGot, DismissIntro, Enqueue, StyleLoaded, DismissMessage, huntVars, vars, home, disk
<1>3. DurableView(LastPath)' = DurableView(LastPath)
  BY <1>2, DurableUnchanged
<1>4. \A i \in DOMAIN worker' : worker'[i].op # "set"
  <2>1. \A i \in DOMAIN worker' : \/ i \in DOMAIN worker /\ worker'[i] = worker[i]
                                  \/ worker'[i] = UpdateData(DoneIntro, "done")
    BY <1>1, <1>2, ScanCalls, WorkerPlusOne
  <2> QED
    BY <2>1, CallFields DEF Restoring
<1>5. \A i \in Answered(LastPath)' : mainQueue'[i].val \in {DurableView(LastPath), Unknown}
  BY DEF Restoring
<1>6. \E l \in Nat : \A i \in Drawing' :
          i \in Nat /\ i + l \in Drawing /\ mainQueue'[i] = mainQueue[i + l]
  <2>1. CASE mainQueue' = mainQueue
    <3>1. \A i \in Drawing' : i \in Nat /\ i + 0 \in Drawing /\ mainQueue'[i] = mainQueue[i + 0]
      BY <1>1, <2>1, TaskIndices DEF Drawing
    <3> QED
      BY <3>1
  <2>2. CASE mainQueue # <<>> /\ mainQueue' = Tail(mainQueue)
    <3>1. \A i \in Drawing' : i \in Nat /\ i + 1 \in Drawing /\ mainQueue'[i] = mainQueue[i + 1]
      BY <1>1, <2>2, TasksTail DEF Drawing
    <3> QED
      BY <3>1
  <2> QED
    BY <1>2, <2>1, <2>2
<1> QED
  BY <1>2, <1>3, <1>4, <1>5, <1>6, RestoringKept

\* What LaunchRestores says of the session and of its end.
SessionRestores ==
    /\ up /\ QRCodeValue = None => Restoring
    /\ crash # "none" /\ QRCodeValue = None =>
          \/ crash = "file" /\ DurableView(LastPath) \in Foreign
          \/ crash = "cast"

\* Nothing happens to an application that does not run, but a launch.
LEMMA NothingWhileDown ==
    ASSUME HuntTypeOK, Gone, ~up, ~Launch, [HuntNext]_huntVars
    PROVE  UNCHANGED <<server, queue, up, crash, QRCodeValue>>
<1>1. worker = <<>> /\ mainQueue = <<>> /\ loading = NoLoads /\ ~intro
  BY DEF Gone
<1>2. \A c \in Routes \cup {Final} : ~(loading[c] > 0)
  BY <1>1 DEF NoLoads
<1>3. ~NetworkStep
  BY DEF NetworkStep, ServerCommit, Acknowledge, Reject, WriteStreamBreak, WatchSync,
     WatchMessage, WatchFailure, OnlineTimeout, WatchIdle, RestartNetwork
<1>4. ~WorkerStep
  BY <1>1 DEF WorkerStep, WorkerWrite, WorkerGet
<1>5. ~MainStep /\ ~LoadStep /\ ~KillApp /\ ~DismissIntro
  BY <1>1, <1>2 DEF MainStep, GotLastPath, TakeGot, GotDoneIntro, DrawPolyline, LoadStep,
     LoadGeoJson, KillApp, Kill, DismissIntro
<1>6. \A code \in Codes : ~Scan(code)
  BY DEF Scan
<1>7. StyleLoaded \/ DismissMessage \/ UNCHANGED huntVars
        => UNCHANGED <<server, queue, up, crash, QRCodeValue>>
  BY DEF StyleLoaded, DismissMessage, huntVars, vars, home, disk
<1> QED
  BY <1>3, <1>4, <1>5, <1>6, <1>7 DEF HuntNext, ClientStep

LEMMA SessionRestoresNext ==
    ASSUME HuntTypeOK, SyncInv, HuntInv, OnlyFetched, Gone, AskedOnce, SessionRestores,
           [HuntNext]_huntVars
    PROVE  SessionRestores'
<1>1. CASE Launch
  <2>1. /\ Answered(LastPath)' = {} /\ Drawing' = {} /\ loading' = NoLoads /\ sources' = {}
        /\ NoLoads' = NoLoads /\ crash' = "none"
    BY <1>1, LaunchCalls DEF Answered, Drawing, NoLoads
  <2>2. \A i \in DOMAIN worker' : worker'[i].op # "set"
    BY <1>1, LaunchCalls, CallFields
  <2> QED
    BY <2>1, <2>2 DEF SessionRestores, Restoring
<1>2. CASE ~Launch /\ ~up
  <2>1. UNCHANGED <<server, queue, up, crash, QRCodeValue>>
    BY <1>2, NothingWhileDown
  <2> QED
    BY <1>2, <2>1, DurableUnchanged DEF SessionRestores
<1>3. CASE ~Launch /\ up
  <2>1. crash = "none" /\ LastPath \in Fetched
    BY <1>3, HuntAssumption DEF Gone
  <2>2. ASSUME QRCodeValue' # None PROVE SessionRestores'
    BY <2>2 DEF SessionRestores
  <2>3. ASSUME Restoring', crash' = crash PROVE SessionRestores'
    BY <2>1, <2>3 DEF SessionRestores
  <2>4. ASSUME up' = FALSE, crash' \in {"none", "cast"} PROVE SessionRestores'
    BY <2>4 DEF SessionRestores
  <2>5. CASE \E code \in Codes : Scan(code)
    <3>1. PICK code \in Codes : Scan(code)
      BY <2>5
    <3>2. QRCodeValue' = code
      BY <3>1 DEF Scan, ScanFinal, ScanClue, ScanMalformed
    <3> QED
      BY <2>2, <3>2, HuntAssumption
  <2>6. CASE KillApp
    BY <2>1, <2>4, <2>6 DEF KillApp, Kill, Exit
  <2>7. CASE ~KillApp /\ ~\E code \in Codes : Scan(code)
    <3>1. CASE ClientStep
      <4>1. UNCHANGED <<QRCodeValue, crash>>
        BY <3>1 DEF ClientStep, home
      <4>2. Restoring => Restoring'
        BY <3>1, RestoringClient
      <4> QED
        BY <1>3, <2>2, <2>3, <4>1, <4>2 DEF SessionRestores
    <3>2. CASE ~ClientStep
      <4>1. /\ InFlight(LastPath)' => InFlight(LastPath)
            /\ \A i \in Answered(LastPath)' :
                  \E j \in Answered(LastPath) : mainQueue'[i] = mainQueue[j]
        <5>1. /\ InFlight(LastPath)' => InFlight(LastPath)
              /\ \E l \in Nat : \A i \in Answered(LastPath)' :
                    i \in Nat /\ i + l \in Answered(LastPath) /\ mainQueue'[i] = mainQueue[i + l]
          BY <1>3, <2>1, <3>2, OnceOther
        <5> QED
          BY <5>1
      <4>2. CASE GotLastPath
        BY <1>3, <2>2, <2>3, <4>2, RestoringGot DEF SessionRestores, GotLastPath
      <4>3. CASE DrawPolyline
        BY <1>3, <2>2, <2>3, <4>1, <4>3, RestoringDraw DEF SessionRestores, DrawPolyline
      <4>4. ASSUME NEW c \in Routes \cup {Final}, LoadGeoJson(c)
            PROVE  SessionRestores'
        <5>1. QRCodeValue' = QRCodeValue
          BY <4>4 DEF LoadGeoJson
        <5>2. CASE Crash("file") /\ DurableView(LastPath) \in Foreign
          <6>1. /\ up' = FALSE /\ crash' = "file"
                /\ DurableView(LastPath)' = DurableView(LastPath)
            BY <5>2, DurableUnchanged DEF Crash, Exit, disk
          <6> QED
            BY <5>2, <6>1 DEF SessionRestores
        <5> QED
          BY <1>3, <2>2, <2>3, <4>1, <4>4, <5>1, <5>2, RestoringLoad DEF SessionRestores
      <4>5. CASE GotDoneIntro
        <5>1. CASE Crash("cast")
          BY <2>4, <5>1 DEF Crash, Exit
        <5>2. CASE TakeGot /\ UNCHANGED <<loading, sources, crash>>
          <6>1. Restoring => Restoring'
            BY <4>1, <4>5, <5>2, RestoringOther
          <6> QED
            BY <1>3, <2>2, <2>3, <4>5, <5>2, <6>1 DEF SessionRestores, GotDoneIntro
        <5> QED
          BY <4>5, <5>1, <5>2 DEF GotDoneIntro
      <4>6. CASE DismissIntro \/ StyleLoaded \/ DismissMessage \/ UNCHANGED huntVars
        <5>1. UNCHANGED <<QRCodeValue, crash>>
          BY <4>6 DEF DismissIntro, StyleLoaded, DismissMessage, huntVars, home
        <5>2. Restoring => Restoring'
          BY <4>1, <4>6, RestoringOther
        <5> QED
          BY <1>3, <2>2, <2>3, <5>1, <5>2 DEF SessionRestores
      <4> QED
        BY <1>3, <2>7, <3>2, <4>2, <4>3, <4>4, <4>5, <4>6 DEF HuntNext, MainStep, LoadStep
    <3> QED
      BY <3>1, <3>2
  <2> QED
    BY <2>5, <2>6, <2>7
<1> QED
  BY <1>1, <1>2, <1>3

\* Without a scan a launch restores the stored route, once, whatever the state of the
\* network; the process fails only on a foreign route, or by the forced cast of doneIntro
\* while the device has no document of the introduction.
THEOREM LaunchesRestore == HuntSpec => []LaunchRestores
<1>1. HuntInit => SessionRestores
  BY DEF HuntInit, Init, SessionRestores
<1>2. /\ HuntTypeOK /\ SyncInv /\ HuntInv /\ OnlyFetched /\ Gone /\ AskedOnce
      /\ SessionRestores /\ [HuntNext]_huntVars
      => SessionRestores'
  BY SessionRestoresNext
<1>3. HuntTypeOK /\ HuntInv /\ IntroInv /\ SessionRestores => LaunchRestores
  BY UncachedIsHidden DEF HuntTypeOK, HuntInv, IntroInv, SessionRestores, LaunchRestores
<1> QED
  BY <1>1, <1>2, <1>3, HuntTypeCorrect, HuntStreamsAreSound, ScansTravelInOrder, HuntFetched,
     HuntOnce, HuntIntro, PTL
  DEF HuntSpec
=============================================================================
