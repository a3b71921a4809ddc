-------------------------- MODULE WorkstationProofs -------------------------
(* What the terminal interface leaves behind and what its forms act on, what  *)
(* writing into another program's file costs its owner, which call a yes at   *)
(* the prompt of `serve` approves, what commands leave of a library after any *)
(* merge and how the library is listed, proved for every number of edits,     *)
(* backups, names tried, keys pressed, rows, calls, lines typed, categories   *)
(* and entries.                                                               *)
EXTENDS LibraryTree, Tui, Screens, Installation, Prompter, FiniteSetTheorems,
        WellFoundedInduction, TLAPS

-----------------------------------------------------------------------------
(* The terminal interface.                                                    *)

(* A task that is under way has brought nothing yet, a finished one is not    *)
(* under way, and there is none once the program is out.                      *)
Handover ==
    /\ pending.brings # "none" => pending.stage = "finished"
    /\ phase = "out" => pending = NoWork /\ ~broker

(* Somebody looks away, or goes on to something else, and the inspection is   *)
(* no longer asked for: what is asked for is still looked at.                 *)
Asked == requested => entitled

TuiInv == TuiTypeOK /\ Handover /\ Asked /\ NothingLeftBehind

LEMMA InitTuiInv == TuiInit => TuiInv
<1> SUFFICES ASSUME TuiInit PROVE TuiInv
  OBVIOUS
<1>1. TuiTypeOK BY DEF TuiInit, TuiTypeOK
<1>2. Handover BY DEF TuiInit, Handover, NoWork
<1>3. Asked BY DEF TuiInit, Asked
<1>4. NothingLeftBehind BY DEF TuiInit, NothingLeftBehind
<1>5. QED BY <1>1, <1>2, <1>3, <1>4 DEF TuiInv

(* What App::start leaves, with a broker to stop or without.                  *)
LEMMA StartedTuiInv ==
    ASSUME NEW a \in Actions, NEW held \in BOOLEAN, Started(a, held),
           TuiInv, phase \in {"poll", "keys"}, phase' = "keys",
           serving => held, serving' = serving,
           <<other, quitting>>' = <<other, quitting>>,
           entitled' \in BOOLEAN, a = "inspect" => entitled'
    PROVE  TuiInv'
<1> USE DEF Started, pauses_broker, NoWork
<1>1. TuiTypeOK' BY DEF TuiInv, TuiTypeOK, Actions
<1>2. Handover' BY DEF Handover
<1>3. Asked' BY DEF Asked
<1>4. NothingLeftBehind' BY DEF NothingLeftBehind
<1>5. QED BY <1>1, <1>2, <1>3, <1>4 DEF TuiInv

LEMMA PollTuiInv == ASSUME TuiInv, Poll PROVE TuiInv'
<1> DEFINE done == pending.stage = "finished"
           idle == pending = NoWork \/ done
           held == broker \/ (done /\ pending.brings = "broker")
           live == held /\ serving
<1>0. TuiTypeOK BY DEF TuiInv
<1>1. CASE quitting /\ idle /\ live
  <2>1. Started("lock", live) /\ phase' = "keys" BY <1>1 DEF Poll
  <2>2. "lock" \in Actions /\ live \in BOOLEAN /\ entitled \in BOOLEAN BY <1>0 DEF TuiTypeOK, Actions
  <2>3. phase \in {"poll", "keys"} BY DEF Poll
  <2>4. serving' = serving /\ entitled' = entitled /\ other' = other /\ quitting' = quitting BY DEF Poll
  <2>5. QED BY <1>1, <2>1, <2>2, <2>3, <2>4, StartedTuiInv
<1>2. CASE ~(quitting /\ idle /\ live)
  <2>1. /\ phase = "poll"
        /\ pending' = IF idle THEN NoWork ELSE pending
        /\ broker' = live
        /\ phase' \in {"finish", "keys"}
        /\ UNCHANGED <<serving, other, quitting, entitled>>
        /\ library' \in {"loaded", "none", library}
        /\ inspection' \in {"open", "none", inspection}
        /\ inspection' = "open" => inspection = "open" \/ requested
        /\ inspection' = "old" => inspection = "old"
        /\ requested' => requested
        /\ requested' \in BOOLEAN
    BY <1>0, <1>2 DEF Poll, TuiTypeOK
  <2>2. TuiTypeOK' BY <1>0, <2>1 DEF TuiTypeOK
  <2>3. Handover' BY <2>1 DEF TuiInv, Handover, NoWork
  <2>4. Asked' BY <2>1 DEF TuiInv, Asked
  <2>5. NothingLeftBehind' BY <2>1, <1>0 DEF TuiInv, NothingLeftBehind, Handover, NoWork, Asked, TuiTypeOK
  <2>6. QED BY <2>2, <2>3, <2>4, <2>5 DEF TuiInv
<1>3. QED BY <1>1, <1>2

LEMMA SubmitTuiInv == ASSUME TuiInv, NEW a \in Actions, Submit(a) PROVE TuiInv'
<1>1. serving => broker BY DEF Submit, TuiInv, NothingLeftBehind, NoWork
<1>2. broker \in BOOLEAN BY DEF TuiInv, TuiTypeOK
<1>3. entitled' = (a = "inspect") /\ entitled' \in BOOLEAN BY DEF Submit
<1>4. phase' = "keys" /\ phase = "keys" BY DEF Submit
<1>5. QED BY <1>1, <1>2, <1>3, <1>4, StartedTuiInv DEF Submit

LEMMA ScreenTuiInv ==
    ASSUME TuiInv, Tick \/ CloseInspection \/ Quit \/ FocusLost \/ ScreenFails
    PROVE  TuiInv'
<1>1. /\ UNCHANGED <<pending, broker, serving, other, library>>
      /\ phase' \in {"poll", "keys", "finish"}
      /\ requested' \in BOOLEAN /\ quitting' \in BOOLEAN /\ entitled' \in BOOLEAN
      /\ inspection' = inspection \/ inspection' = "none"
      /\ requested' => requested
      /\ entitled => entitled' \/ (inspection' = "none" /\ ~requested')
  <2> USE DEF TuiInv, TuiTypeOK
  <2>1. CASE Tick BY <2>1 DEF Tick
  <2>2. CASE CloseInspection BY <2>2 DEF CloseInspection
  <2>3. CASE Quit BY <2>3 DEF Quit
  <2>4. CASE FocusLost BY <2>4 DEF FocusLost
  <2>5. CASE ScreenFails BY <2>5 DEF ScreenFails
  <2>6. QED BY <2>1, <2>2, <2>3, <2>4, <2>5
<1>2. TuiTypeOK' BY <1>1 DEF TuiInv, TuiTypeOK
<1>3. Handover' BY <1>1 DEF TuiInv, Handover
<1>4. Asked' BY <1>1 DEF TuiInv, Asked
<1>5. NothingLeftBehind' BY <1>1 DEF TuiInv, NothingLeftBehind
<1>6. QED BY <1>2, <1>3, <1>4, <1>5 DEF TuiInv

LEMMA FinishTuiInv == ASSUME TuiInv, FinishApp PROVE TuiInv'
<1> USE DEF FinishApp, TuiInv
<1>1. TuiTypeOK' BY DEF TuiTypeOK
<1>2. Handover' BY DEF Handover, NoWork
<1>3. Asked' BY DEF Asked
<1>4. pending.stage # "stopping" BY DEF NoWork
<1>5. ~serving' BY <1>4 DEF NothingLeftBehind
<1>6. NothingLeftBehind' BY <1>5 DEF NothingLeftBehind
<1>7. QED BY <1>1, <1>2, <1>3, <1>6

LEMMA TaskStopsTuiInv == ASSUME TuiInv, TaskStops PROVE TuiInv'
<1> USE DEF TaskStops, TuiInv
<1>1. /\ pending.stage = "stopping"
      /\ pending \in [action : Actions, stage : {"stopping", "running"}, brings : {"none"}]
      /\ pending' \in {[pending EXCEPT !.stage = "running"],
                       [pending EXCEPT !.stage = "finished", !.brings = "error"]}
  BY DEF TuiTypeOK, NoWork
<1>2. TuiTypeOK'
  <2>1. [pending EXCEPT !.stage = "running"] \in
          [action : Actions, stage : {"stopping", "running"}, brings : {"none"}]
    BY <1>1
  <2>2. [pending EXCEPT !.stage = "finished", !.brings = "error"] \in
          [action : Actions, stage : {"finished"},
           brings : {"error", "message", "broker", "library", "fresh", "stale"}]
    BY <1>1
  <2>3. pending' \in [action : Actions, stage : {"stopping", "running"}, brings : {"none"}]
                      \cup [action : Actions, stage : {"finished"},
                            brings : {"error", "message", "broker", "library", "fresh", "stale"}]
    BY <1>1, <2>1, <2>2
  <2>4. serving' \in BOOLEAN OBVIOUS
  <2>5. UNCHANGED <<phase, broker, other, inspection, requested, library, quitting, entitled>>
    OBVIOUS
  <2>6. TuiTypeOK BY DEF TuiInv
  <2> HIDE DEF TaskStops, TuiInv
  <2>7. QED BY <2>3, <2>4, <2>5, <2>6 DEF TuiTypeOK
<1>3. Handover' BY <1>1 DEF Handover, NoWork
<1>4. Asked' BY DEF Asked
<1>5. NothingLeftBehind' BY <1>3 DEF NothingLeftBehind, Handover, NoWork
<1>6. QED BY <1>2, <1>3, <1>4, <1>5

LEMMA TaskRunsTuiInv == ASSUME TuiInv, TaskRuns PROVE TuiInv'
<1> USE DEF TaskRuns, TuiInv
<1>1. PICK word \in {"error", "message", "broker", "library", "fresh", "stale"} :
        /\ pending' = [pending EXCEPT !.stage = "finished", !.brings = word]
        /\ serving' = (serving \/ word = "broker")
  OBVIOUS
<1>2. /\ pending.stage = "running"
      /\ pending \in [action : Actions, stage : {"stopping", "running"}, brings : {"none"}]
  BY DEF TuiTypeOK, NoWork
<1>3. pending' \in [action : Actions, stage : {"finished"},
                    brings : {"error", "message", "broker", "library", "fresh", "stale"}]
      /\ pending'.stage = "finished" /\ pending'.brings = word
  BY <1>1, <1>2
<1>4. TuiTypeOK' BY <1>1, <1>3 DEF TuiTypeOK
<1>5. Handover' BY <1>2, <1>3 DEF Handover, NoWork
<1>6. Asked' BY DEF Asked
<1>7. NothingLeftBehind' BY <1>1, <1>2, <1>3, <1>5 DEF NothingLeftBehind, Handover, NoWork
<1>8. QED BY <1>4, <1>5, <1>6, <1>7

LEMMA AroundTuiInv == ASSUME TuiInv, BrokerEnds \/ OthersHold \/ ClockRuns PROVE TuiInv'
<1> USE DEF TuiInv
<1>1. CASE BrokerEnds \/ OthersHold
  <2>0. /\ UNCHANGED <<phase, pending, broker, inspection, requested, library, quitting, entitled>>
        /\ serving' \in BOOLEAN /\ (serving' => serving) /\ other' \in BOOLEAN
    <3>1. serving \in BOOLEAN /\ other \in BOOLEAN BY DEF TuiTypeOK
    <3>2. CASE BrokerEnds BY <3>1, <3>2 DEF BrokerEnds
    <3>3. CASE OthersHold
      <4>1. (~other) \in BOOLEAN OBVIOUS
      <4>2. QED BY <3>1, <3>3, <4>1 DEF OthersHold
    <3>4. QED BY <1>1, <3>2, <3>3
  <2>1. TuiTypeOK' BY <2>0 DEF TuiTypeOK
  <2>2. Handover' BY <2>0 DEF Handover
  <2>3. Asked' BY <2>0 DEF Asked
  <2>4. NothingLeftBehind' BY <2>0 DEF NothingLeftBehind
  <2>5. QED BY <2>1, <2>2, <2>3, <2>4
<1>2. CASE ClockRuns
  <2> USE <1>2 DEF ClockRuns
  <2>1. \/ pending' = pending
        \/ /\ pending \in [action : Actions, stage : {"finished"},
                           brings : {"error", "message", "broker", "library", "fresh", "stale"}]
           /\ pending.brings = "fresh"
           /\ pending' = [pending EXCEPT !.brings = "stale"]
    BY DEF TuiTypeOK, NoWork
  <2>2. TuiTypeOK' BY <2>1 DEF TuiTypeOK
  <2>3. Handover' BY <2>1 DEF Handover, NoWork
  <2>4. Asked' BY DEF Asked
  <2>5. NothingLeftBehind' BY <2>1 DEF NothingLeftBehind, TuiTypeOK
  <2>6. QED BY <2>2, <2>3, <2>4, <2>5
<1>3. QED BY <1>1, <1>2

LEMMA StepTuiInv == TuiInv /\ [TuiNext]_tvars => TuiInv'
<1> SUFFICES ASSUME TuiInv, [TuiNext]_tvars PROVE TuiInv'
  OBVIOUS
<1>1. CASE Poll BY <1>1, PollTuiInv
<1>2. CASE \E a \in Actions : Submit(a) BY <1>2, SubmitTuiInv
<1>3. CASE Tick \/ CloseInspection \/ Quit \/ FocusLost \/ ScreenFails BY <1>3, ScreenTuiInv
<1>4. CASE FinishApp BY <1>4, FinishTuiInv
<1>5. CASE TaskStops BY <1>5, TaskStopsTuiInv
<1>6. CASE TaskRuns BY <1>6, TaskRunsTuiInv
<1>7. CASE BrokerEnds \/ OthersHold \/ ClockRuns BY <1>7, AroundTuiInv
<1>8. CASE UNCHANGED tvars
  BY <1>8 DEF tvars, TuiInv, TuiTypeOK, Handover, Asked, NothingLeftBehind
<1>9. QED BY <1>1, <1>2, <1>3, <1>4, <1>5, <1>6, <1>7, <1>8 DEF TuiNext

(* However the interface is left and whatever finishes when: no broker of     *)
(* its own serves that it does not hold or is about to stop, none serves when *)
(* it has returned, and an opened entry is on the screen only for somebody    *)
(* who has been looking ever since asking for it.                             *)
THEOREM NothingIsLeftBehind == TuiSpec => []NothingLeftBehind
<1>1. TuiInv => NothingLeftBehind BY DEF TuiInv
<1>2. QED BY InitTuiInv, StepTuiInv, <1>1, PTL DEF TuiSpec

-----------------------------------------------------------------------------
(* The installation into clients.                                             *)

Setting == Nat \cup Runs
Name == {"at", "uuid"} \X Nat
Run == [pc : {"idle", "compare", "backup", "try", "copy", "write"}, base : SUBSET Setting,
        name : Name \cup {<<>>}]
Saved == UNION {backups[n] : n \in DOMAIN backups}

Types ==
    /\ file \subseteq Setting
    /\ run \in [Runs -> Run]
    /\ edits \in Nat
    /\ looked \in [Runs -> SUBSET Setting]
    /\ backups = [n \in DOMAIN backups |-> backups[n]]
    /\ DOMAIN backups \subseteq Name
    /\ IsFiniteSet(DOMAIN backups)

(* What a run met when it last looked is in what it is going to write, or it  *)
(* has been saved.                                                            *)
LookedIsKept ==
    \A r \in Runs :
      /\ run[r].pc \in {"compare", "backup", "try", "copy"} => looked[r] \subseteq Settings(run[r].base)
      /\ run[r].pc = "write" => looked[r] \subseteq Settings(run[r].base) \cup Saved

(* No backup is taken under a name that is in use.                            *)
ChosenIsFree ==
    /\ run[Installer].pc \in {"try", "copy"} =>
         run[Installer].name \in Name /\ run[Installer].name[1] = "at"
    /\ run[Installer].pc = "copy" => run[Installer].name \notin DOMAIN backups
UuidsAreOld ==
    \A n \in DOMAIN backups : n[1] = "uuid" => n[2] < Cardinality(DOMAIN backups)

InstallInv == Types /\ LookedIsKept /\ ChosenIsFree /\ UuidsAreOld

(* One step of the program as its owner sees it.                              *)
NothingLost ==
    LET kept == UNION {backups'[n] : n \in DOMAIN backups'} IN
    /\ UNION {backups[n] : n \in DOMAIN backups} \subseteq kept
    /\ \A r \in Runs : run[r].pc = "write" /\ run'[r].pc = "idle" /\ file' # file =>
        /\ looked[r] \subseteq Settings(file') \cup kept
        /\ r = Direct /\ run[r].base = Absent => ~Exists
-----------------------------------------------------------------------------
(* A new name keeps all that was saved.                                       *)
LEMMA KeptIsMore ==
    ASSUME Types, UuidsAreOld, NEW name \in Name \ DOMAIN backups, NEW content,
           name[1] = "uuid" => name[2] = Cardinality(DOMAIN backups), Kept(name, content)
    PROVE  /\ backups' = [n \in DOMAIN backups' |-> backups'[n]]
           /\ DOMAIN backups' = DOMAIN backups \cup {name} /\ IsFiniteSet(DOMAIN backups')
           /\ UuidsAreOld'
           /\ Saved' = Saved \cup content
<1> DEFINE old == DOMAIN backups
<1>1. /\ backups' = [n \in old \cup {name} |-> IF n = name THEN content ELSE backups[n]]
  BY DEF Kept
<1>2. DOMAIN backups' = old \cup {name} BY <1>1
<1>3. /\ IsFiniteSet(old) /\ Cardinality(old) \in Nat BY FS_CardinalityType DEF Types
<1>4. IsFiniteSet(old \cup {name}) /\ Cardinality(old \cup {name}) = Cardinality(old) + 1
  BY <1>3, FS_AddElement
<1>5. UuidsAreOld'
  <2>1. \A n \in old \cup {name} : n[1] = "uuid" => n[2] < Cardinality(old) + 1
    <3>1. \A n \in old : n[1] = "uuid" => n[2] < Cardinality(old) BY DEF UuidsAreOld
    <3>2. \A n \in old \cup {name} : n[2] \in Nat BY DEF Types, Name
    <3>3. QED BY <1>3, <3>1, <3>2
  <2>2. QED BY <1>2, <1>4, <2>1 DEF UuidsAreOld
<1>6. Saved' = Saved \cup content BY <1>1, <1>2 DEF Saved
<1>7. QED BY <1>1, <1>2, <1>4, <1>5, <1>6

(* One run moves on and the others stay where they are.                       *)
LEMMA OneMoves ==
    ASSUME Types, NEW r \in Runs, NEW to \in Run, run' = [run EXCEPT ![r] = to]
    PROVE  /\ run' \in [Runs -> Run] /\ run'[r] = to
           /\ \A q \in Runs : q # r => run'[q] = run[q]
BY DEF Types

LEMMA InitStep == InstallInit => InstallInv
<1> SUFFICES ASSUME InstallInit PROVE InstallInv OBVIOUS
<1>1. DOMAIN backups = {} BY DEF InstallInit
<1>2. IsFiniteSet(DOMAIN backups) BY <1>1, FS_EmptySet
<1>3. backups = [n \in DOMAIN backups |-> backups[n]] BY DEF InstallInit
<1>4. Idle \in Run BY DEF Idle, Run, Absent, Setting
<1>5. Types BY <1>1, <1>2, <1>3, <1>4 DEF InstallInit, Types, Absent, Setting
<1>6. LookedIsKept /\ ChosenIsFree BY DEF InstallInit, LookedIsKept, ChosenIsFree, Idle, Runs
<1>7. UuidsAreOld BY <1>1 DEF UuidsAreOld
<1>8. QED BY <1>5, <1>6, <1>7 DEF InstallInv

(* What a step does to the file and to one run while no backup is taken.      *)
LEMMA NoBackup ==
    ASSUME InstallInv, UNCHANGED <<backups, edits>>, file' \subseteq Setting,
           NEW r \in Runs, NEW to \in Run, NEW met \in SUBSET Setting,
           run' = [run EXCEPT ![r] = to], looked' = [looked EXCEPT ![r] = met],
           to.pc \in {"compare", "backup", "try", "copy"} => met \subseteq Settings(to.base),
           to.pc = "write" => met \subseteq Settings(to.base) \cup Saved,
           r = Installer /\ to.pc \in {"try", "copy"} => to.name \in Name /\ to.name[1] = "at",
           r = Installer /\ to.pc = "copy" => to.name \notin DOMAIN backups
    PROVE  InstallInv'
<1>1. /\ run' \in [Runs -> Run] /\ run'[r] = to
      /\ \A q \in Runs : q # r => run'[q] = run[q]
  BY OneMoves DEF InstallInv
<1>2. /\ looked' \in [Runs -> SUBSET Setting] /\ looked'[r] = met
      /\ \A q \in Runs : q # r => looked'[q] = looked[q]
  BY DEF InstallInv, Types
<1>3. Types' BY <1>1, <1>2 DEF InstallInv, Types
<1>4. Saved' = Saved BY DEF Saved
<1>5. LookedIsKept'
  <2>1. ASSUME NEW q \in Runs
        PROVE  /\ run'[q].pc \in {"compare", "backup", "try", "copy"} =>
                    looked'[q] \subseteq Settings(run'[q].base)
               /\ run'[q].pc = "write" => looked'[q] \subseteq Settings(run'[q].base) \cup Saved
    <3>1. CASE q = r BY <1>1, <1>2, <3>1
    <3>2. CASE q # r BY <1>1, <1>2, <3>2 DEF InstallInv, LookedIsKept
    <3>3. QED BY <3>1, <3>2
  <2>2. QED BY <1>4, <2>1 DEF LookedIsKept, Settings, Absent
<1>6. ChosenIsFree'
  <2>1. Installer \in Runs BY DEF Runs
  <2>2. CASE r = Installer BY <1>1, <2>2 DEF ChosenIsFree
  <2>3. CASE r # Installer BY <1>1, <2>1, <2>3 DEF ChosenIsFree, InstallInv
  <2>4. QED BY <2>2, <2>3
<1>7. UuidsAreOld' BY DEF InstallInv, UuidsAreOld
<1>8. QED BY <1>3, <1>5, <1>6, <1>7 DEF InstallInv

LEMMA ReadStep == ASSUME InstallInv, NEW r \in Runs, Read(r) PROVE InstallInv' /\ NothingLost
<1> DEFINE to == [run[r] EXCEPT !.base = file, !.pc = IF r = Installer THEN "backup" ELSE "compare"]
<1>1. /\ run[r] \in Run /\ file \subseteq Setting BY DEF InstallInv, Types
<1>2. /\ to \in Run /\ to.base = file /\ to.pc \in {"backup", "compare"} BY <1>1 DEF Run
<1>3. run' = [run EXCEPT ![r] = to] BY <1>1 DEF Read, InstallInv, Types, Run
<1>4. looked' = [looked EXCEPT ![r] = Settings(file)] BY DEF Read, Look
<1>5. Settings(file) \in SUBSET Setting BY <1>1 DEF Settings
<1>6. UNCHANGED <<file, backups, edits>> BY DEF Read
<1> HIDE DEF to
<1>7. InstallInv' BY <1>1, <1>2, <1>3, <1>4, <1>5, <1>6, NoBackup
<1>8. NothingLost BY <1>6 DEF NothingLost
<1>9. QED BY <1>7, <1>8

LEMMA IdleIsARun == Idle \in Run /\ Idle.pc = "idle"
BY DEF Idle, Run, Absent, Setting

(* A run that ends, whatever it leaves in the file.                           *)
LEMMA StopStep ==
    ASSUME InstallInv, NEW r \in Runs, Stops(r), UNCHANGED <<backups, edits>>, file' \subseteq Setting
    PROVE  InstallInv'
<1>1. run' = [run EXCEPT ![r] = Idle] /\ looked' = [looked EXCEPT ![r] = {}] BY DEF Stops
<1>2. {} \in SUBSET Setting OBVIOUS
<1>3. QED BY <1>1, <1>2, IdleIsARun, NoBackup

(* A run that only goes on, with what it has read and met.                    *)
LEMMA GoStep ==
    ASSUME InstallInv, NEW r \in Runs, NEW to \in Run, run' = [run EXCEPT ![r] = to],
           to.base = run[r].base, UNCHANGED <<file, backups, edits, looked>>,
           run[r].pc # "idle", to.pc \in {"backup", "try", "copy", "write"}, run[r].pc # "write",
           r = Installer /\ to.pc \in {"try", "copy"} => to.name \in Name /\ to.name[1] = "at",
           r = Installer /\ to.pc = "copy" => to.name \notin DOMAIN backups
    PROVE  InstallInv'
<1>1. looked' = [looked EXCEPT ![r] = looked[r]] BY DEF InstallInv, Types
<1>2. looked[r] \in SUBSET Setting /\ run[r] \in Run /\ file \subseteq Setting BY DEF InstallInv, Types
<1>3. run[r].pc \in {"compare", "backup", "try", "copy"} BY <1>2 DEF Run
<1>4. looked[r] \subseteq Settings(to.base) BY <1>3 DEF InstallInv, LookedIsKept
<1>5. QED BY <1>1, <1>2, <1>4, NoBackup

LEMMA FailsStep == ASSUME InstallInv, NEW r \in Runs, Fails(r) PROVE InstallInv' /\ NothingLost
<1>1. UNCHANGED <<file, backups, edits>> /\ Stops(r) BY DEF Fails
<1>2. file' \subseteq Setting BY <1>1 DEF InstallInv, Types
<1>3. QED BY <1>1, <1>2, StopStep DEF NothingLost

LEMMA ChooseNameStep == ASSUME InstallInv, ChooseName PROVE InstallInv' /\ NothingLost
<1>1. UNCHANGED <<file, backups, edits, looked>> /\ run[Installer].pc = "backup" BY DEF ChooseName
<1>2. Installer \in Runs /\ run[Installer] \in Run BY DEF Runs, InstallInv, Types
<1> DEFINE named == [run[Installer] EXCEPT !.pc = "try", !.name = <<"at", 0>>]
<1> DEFINE unnamed == [run[Installer] EXCEPT !.pc = "write"]
<1>3. /\ named \in Run /\ named.pc = "try" /\ named.base = run[Installer].base
      /\ named.name \in Name /\ named.name[1] = "at"
  BY <1>2 DEF Run, Name
<1>4. unnamed \in Run /\ unnamed.pc = "write" /\ unnamed.base = run[Installer].base BY <1>2 DEF Run
<1>5. run' = [run EXCEPT ![Installer] = named] \/ run' = [run EXCEPT ![Installer] = unnamed]
  BY <1>2 DEF ChooseName, Go, InstallInv, Types, Run
<1> HIDE DEF named, unnamed
<1>6. InstallInv' BY <1>1, <1>2, <1>3, <1>4, <1>5, GoStep
<1>7. QED BY <1>1, <1>6 DEF NothingLost

LEMMA TryNameStep == ASSUME InstallInv, TryName PROVE InstallInv' /\ NothingLost
<1>1. UNCHANGED <<file, backups, edits>> /\ run[Installer].pc = "try" BY DEF TryName
<1>2. Installer \in Runs /\ run[Installer] \in Run BY DEF Runs, InstallInv, Types
<1>3. file' \subseteq Setting BY <1>1 DEF InstallInv, Types
<1> DEFINE name == run[Installer].name
<1>4. name \in Name /\ name[1] = "at" BY <1>1 DEF InstallInv, ChosenIsFree
<1> DEFINE free == [run[Installer] EXCEPT !.pc = "copy"]
<1> DEFINE taken == [run[Installer] EXCEPT !.name = <<"at", name[2] + 1>>]
<1>5. free \in Run /\ free.pc = "copy" /\ free.base = run[Installer].base /\ free.name = name
  BY <1>2 DEF Run
<1>6. <<"at", name[2] + 1>> \in Name BY <1>4 DEF Name
<1>7. /\ taken \in Run /\ taken.pc = "try" /\ taken.base = run[Installer].base
      /\ taken.name \in Name /\ taken.name[1] = "at"
  BY <1>1, <1>2, <1>6 DEF Run
<1>8. \/ run' = [run EXCEPT ![Installer] = free] /\ name \notin DOMAIN backups /\ UNCHANGED looked
      \/ run' = [run EXCEPT ![Installer] = taken] /\ UNCHANGED looked
      \/ Stops(Installer)
  BY <1>2 DEF TryName, IsTaken, Go, InstallInv, Types, Run
<1> HIDE DEF free, taken, name
<1>9. InstallInv' BY <1>1, <1>2, <1>3, <1>4, <1>5, <1>7, <1>8, GoStep, StopStep
<1>10. QED BY <1>1, <1>9 DEF NothingLost

LEMMA CompareStep == ASSUME InstallInv, Compare, Installer # Direct PROVE InstallInv' /\ NothingLost
<1>1. UNCHANGED <<file, backups, edits>> /\ run[Direct].pc = "compare" BY DEF Compare
<1>2. Direct \in Runs /\ run[Direct] \in Run BY DEF Runs, InstallInv, Types
<1>3. file' \subseteq Setting /\ Settings(file) \in SUBSET Setting BY <1>1 DEF InstallInv, Types, Settings
<1> DEFINE to == [run[Direct] EXCEPT !.pc = "backup"]
<1>4. to \in Run /\ to.pc = "backup" /\ to.base = run[Direct].base BY <1>2 DEF Run
<1>5. \/ Stops(Direct)
      \/ /\ file = run[Direct].base /\ run' = [run EXCEPT ![Direct] = to]
         /\ looked' = [looked EXCEPT ![Direct] = Settings(file)]
  BY DEF Compare, Go, Look
<1> HIDE DEF to
<1>6. InstallInv' BY <1>1, <1>2, <1>3, <1>4, <1>5, NoBackup, StopStep
<1>7. QED BY <1>1, <1>6 DEF NothingLost

(* A backup under a new name, after which the run may write.                  *)
LEMMA BackupStep ==
    ASSUME InstallInv, UNCHANGED <<file, edits>>, NEW name \in Name \ DOMAIN backups,
           NEW content, Kept(name, content),
           name[1] = "uuid" => name[2] = Cardinality(DOMAIN backups),
           NEW r \in Runs, NEW to \in Run, to.pc = "write", run' = [run EXCEPT ![r] = to],
           NEW met \in SUBSET Setting, looked' = [looked EXCEPT ![r] = met],
           met \subseteq Settings(to.base) \cup content,
           r # Installer => name[1] # "at"
    PROVE  InstallInv' /\ NothingLost
<1>1. /\ run' \in [Runs -> Run] /\ run'[r] = to
      /\ \A q \in Runs : q # r => run'[q] = run[q]
  BY OneMoves DEF InstallInv
<1>2. /\ looked' \in [Runs -> SUBSET Setting] /\ looked'[r] = met
      /\ \A q \in Runs : q # r => looked'[q] = looked[q]
  BY DEF InstallInv, Types
<1>3. /\ backups' = [n \in DOMAIN backups' |-> backups'[n]]
      /\ DOMAIN backups' = DOMAIN backups \cup {name} /\ IsFiniteSet(DOMAIN backups')
      /\ UuidsAreOld'
      /\ Saved' = Saved \cup content
  BY KeptIsMore DEF InstallInv
<1>4. Types' BY <1>1, <1>2, <1>3 DEF InstallInv, Types
<1>5. LookedIsKept'
  <2>1. ASSUME NEW q \in Runs
        PROVE  /\ run'[q].pc \in {"compare", "backup", "try", "copy"} =>
                    looked'[q] \subseteq Settings(run'[q].base)
               /\ run'[q].pc = "write" =>
                    looked'[q] \subseteq Settings(run'[q].base) \cup Saved \cup content
    <3>1. CASE q = r BY <1>1, <1>2, <3>1
    <3>2. CASE q # r BY <1>1, <1>2, <3>2 DEF InstallInv, LookedIsKept
    <3>3. QED BY <3>1, <3>2
  <2>2. QED BY <1>3, <2>1 DEF LookedIsKept, Settings, Absent
<1>6. ChosenIsFree'
  <2>1. Installer \in Runs BY DEF Runs
  <2>2. CASE r = Installer BY <1>1, <2>2 DEF ChosenIsFree
  <2>3. CASE r # Installer BY <1>1, <1>3, <2>1, <2>3 DEF ChosenIsFree, InstallInv
  <2>4. QED BY <2>2, <2>3
<1>7. NothingLost BY <1>3 DEF NothingLost, Saved
<1>8. QED BY <1>3, <1>4, <1>5, <1>6, <1>7 DEF InstallInv

LEMMA CopyStep == ASSUME InstallInv, Copy PROVE InstallInv' /\ NothingLost
<1>1. UNCHANGED <<file, edits>> /\ run[Installer].pc = "copy" BY DEF Copy
<1>2. Installer \in Runs /\ run[Installer] \in Run BY DEF Runs, InstallInv, Types
<1>3. /\ file \subseteq Setting /\ file' \subseteq Setting /\ Settings(file) \in SUBSET Setting
  BY <1>1 DEF InstallInv, Types, Settings
<1> DEFINE name == run[Installer].name
<1> DEFINE to == [run[Installer] EXCEPT !.pc = "write"]
<1>4. name \in Name \ DOMAIN backups /\ name[1] = "at" BY <1>1 DEF InstallInv, ChosenIsFree
<1>5. to \in Run /\ to.pc = "write" BY <1>2 DEF Run
<1>6. Settings(file) \subseteq Settings(to.base) \cup file BY DEF Settings
<1>7. CASE Exists
  <2>1. /\ Kept(name, file) /\ run' = [run EXCEPT ![Installer] = to]
        /\ looked' = [looked EXCEPT ![Installer] = Settings(file)]
    BY <1>7 DEF Copy, Go, Look
  <2> HIDE DEF to, name
  <2>2. QED BY <1>1, <1>2, <1>3, <1>4, <1>5, <1>6, <2>1, BackupStep
<1>8. CASE ~Exists
  <2>1. Stops(Installer) /\ UNCHANGED backups BY <1>8 DEF Copy
  <2>2. QED BY <1>1, <1>2, <1>3, <2>1, StopStep DEF NothingLost
<1>9. QED BY <1>7, <1>8

LEMMA KeepOriginalStep ==
    ASSUME InstallInv, KeepOriginal, Installer # Direct PROVE InstallInv' /\ NothingLost
<1>1. UNCHANGED <<file, edits, looked>> /\ run[Direct].pc = "backup" BY DEF KeepOriginal
<1>2. Direct \in Runs /\ run[Direct] \in Run /\ looked[Direct] \in SUBSET Setting
  BY DEF Runs, InstallInv, Types
<1> DEFINE name == <<"uuid", Cardinality(DOMAIN backups)>>
<1> DEFINE to == [run[Direct] EXCEPT !.pc = "write"]
<1>3. to \in Run /\ to.pc = "write" /\ to.base = run[Direct].base BY <1>2 DEF Run
<1>4. run' = [run EXCEPT ![Direct] = to] BY DEF KeepOriginal, Go
<1>5. looked' = [looked EXCEPT ![Direct] = looked[Direct]] BY <1>1 DEF InstallInv, Types
<1>6. looked[Direct] \subseteq Settings(to.base) BY <1>1, <1>2, <1>3 DEF InstallInv, LookedIsKept
<1>7. Cardinality(DOMAIN backups) \in Nat BY FS_CardinalityType DEF InstallInv, Types
<1>8. name \in Name /\ name[1] = "uuid" /\ name[2] = Cardinality(DOMAIN backups) BY <1>7 DEF Name
<1>9. name \notin DOMAIN backups BY <1>7, <1>8 DEF InstallInv, UuidsAreOld
<1>10. CASE run[Direct].base = Absent
  <2>1. UNCHANGED backups BY <1>10 DEF KeepOriginal
  <2> HIDE DEF to
  <2>2. QED BY <1>1, <1>2, <1>3, <1>4, <2>1, GoStep DEF NothingLost
<1>11. CASE run[Direct].base # Absent
  <2>1. Kept(name, run[Direct].base) BY <1>11 DEF KeepOriginal
  <2>2. PICK content : content = run[Direct].base OBVIOUS
  <2>3. PICK met \in SUBSET Setting : met = looked[Direct] BY <1>2
  <2>4. name[1] # "at" /\ name \in Name \ DOMAIN backups BY <1>8, <1>9
  <2>5. met \subseteq Settings(to.base) \cup content BY <1>6, <2>3
  <2>6. Kept(name, content) BY <2>1, <2>2
  <2>7. looked' = [looked EXCEPT ![Direct] = met] BY <1>5, <2>3
  <2> HIDE DEF to, name
  <2>8. QED BY <1>1, <1>2, <1>3, <1>4, <1>8, <2>3, <2>4, <2>5, <2>6, <2>7, BackupStep
<1>12. QED BY <1>10, <1>11

LEMMA WriteStep == ASSUME InstallInv, NEW r \in Runs, Write(r) PROVE InstallInv' /\ NothingLost
<1>1. /\ UNCHANGED <<backups, edits>> /\ Stops(r) /\ run[r].pc = "write" BY DEF Write
<1>2. run[r].base \subseteq Setting /\ file \subseteq Setting /\ run \in [Runs -> Run]
  BY DEF InstallInv, Types, Run
<1>3. Merged(r) \subseteq Setting BY <1>2 DEF Merged, Settings, Setting
<1>4. file' \subseteq Setting BY <1>2, <1>3 DEF Write
<1>5. InstallInv' BY <1>1, <1>4, StopStep
<1>6. \A q \in Runs : q # r => run'[q] = run[q] BY <1>1, <1>2 DEF Stops
<1>7. looked[r] \subseteq Settings(run[r].base) \cup Saved BY <1>1 DEF InstallInv, LookedIsKept
<1>8. file' # file => file' = Merged(r) /\ (r = Direct /\ run[r].base = Absent => ~Exists) BY DEF Write
<1>9. Settings(run[r].base) \subseteq Settings(Merged(r)) BY DEF Settings, Merged
<1>10. file' # file => looked[r] \subseteq Settings(file') \cup Saved BY <1>7, <1>8, <1>9 DEF Settings
<1>11. NothingLost BY <1>1, <1>6, <1>8, <1>10 DEF NothingLost, Saved
<1>12. QED BY <1>5, <1>11

LEMMA OwnerStep == ASSUME InstallInv, OwnerWrites \/ OwnerRemoves PROVE InstallInv' /\ NothingLost
<1>1. UNCHANGED <<backups, run, looked>> BY DEF OwnerWrites, OwnerRemoves
<1>2. file' \subseteq Setting /\ edits' \in Nat
  BY DEF InstallInv, Types, OwnerWrites, OwnerRemoves, Settings, Setting, Absent
<1>3. InstallInv'
  <2>1. Types' BY <1>1, <1>2 DEF InstallInv, Types
  <2>2. LookedIsKept' BY <1>1 DEF InstallInv, LookedIsKept, Settings, Absent, Saved
  <2>3. ChosenIsFree' /\ UuidsAreOld' BY <1>1 DEF InstallInv, ChosenIsFree, UuidsAreOld
  <2>4. QED BY <2>1, <2>2, <2>3 DEF InstallInv
<1>4. QED BY <1>1, <1>3 DEF NothingLost

(* Neither the installation of a grant nor a direct configuration costs the   *)
(* owner of the file a setting that was there when it last looked.            *)
THEOREM OwnerKeepsAll == ASSUME Installer # Direct PROVE InstallSpec => OwnerLosesNothing
<1>1. ASSUME InstallInv, [InstallNext]_ivars PROVE InstallInv' /\ [NothingLost]_ivars
  <2>1. CASE InstallNext
    BY <1>1, <2>1, ReadStep, WriteStep, FailsStep, ChooseNameStep, TryNameStep, CopyStep,
       CompareStep, KeepOriginalStep, OwnerStep DEF InstallNext
  <2>2. CASE UNCHANGED ivars
    BY <1>1, <2>2 DEF ivars, InstallInv, Types, LookedIsKept, ChosenIsFree, UuidsAreOld, Saved, Settings
  <2>3. QED BY <1>1, <2>1, <2>2
<1>2. QED BY <1>1, InitStep, PTL DEF InstallSpec, OwnerLosesNothing, NothingLost

-----------------------------------------------------------------------------
(* The least of a set of numbers.                                             *)
LEMMA LeastOf ==
    ASSUME NEW S \in SUBSET Nat, S # {}
    PROVE  Min(S) \in S /\ \A n \in S : Min(S) <= n
<1>1. PICK m \in S : \A n \in S : <<n, m>> \notin OpToRel(<, Nat)
  BY NatLessThanWellFounded, WFMin
<1>2. OpToRel(<, Nat) = {ss \in Nat \X Nat : ss[1] < ss[2]} BY Zenon DEF OpToRel
<1>3. ASSUME NEW n \in S PROVE m <= n
  <2>1. <<n, m>> \in Nat \X Nat /\ n \in Nat /\ m \in Nat OBVIOUS
  <2>2. ~ (n < m) BY <1>1, <1>2, <2>1
  <2>3. QED BY <2>1, <2>2
<1>4. QED BY <1>3 DEF Min

-----------------------------------------------------------------------------
(* The prompt of `serve`.                                                     *)

Line == [says : Answers, at : Nat, late : BOOLEAN]

Ids ==
    /\ asked \in Nat /\ waiting \subseteq Nat /\ shown \in Nat /\ shown <= asked
    /\ \A id \in waiting : 0 < id /\ id <= asked
LineTypes == stdin \in Seq(Line) /\ lines \in Seq(Line) /\ hand \in Line \cup {NoLine, Gone}
Pcs == {"none", "looking", "printing", "asking", "over"}
Task == [pc : Pcs, request : Nat, on_screen : Nat]
PromptTypes == Ids /\ LineTypes /\ prompter \in Task

(* Calls are asked about in the order of their ids: whoever still waits comes *)
(* after the call whose prompt is on the screen, or is that call.             *)
InOrder ==
    LET p == prompter IN
    /\ \A id \in waiting : shown <= id
    /\ p.pc = "looking" => \/ p.on_screen = shown
                           \/ p.on_screen = 0 /\ shown \notin waiting
    /\ p.pc = "printing" =>
         /\ p.on_screen = p.request /\ shown < p.request /\ p.request <= asked
         /\ \A id \in waiting : p.request <= id
    /\ p.pc = "asking" => p.on_screen = p.request /\ p.request = shown

(* A line on its way was typed at the prompt that is on the screen, or at an  *)
(* earlier one and was on its way already when the lines were thrown away.    *)
Fits(line) ==
    \/ line.at = shown /\ (prompter.pc = "printing" => line.late)
    \/ line.late /\ line.at < shown
LinesFit ==
    /\ \A n \in 1..Len(stdin) : Fits(stdin[n])
    /\ \A n \in 1..Len(lines) : Fits(lines[n])
    /\ hand \notin {NoLine, Gone} => Fits(hand)

PromptInv == PromptTypes /\ InOrder /\ LinesFit /\ MixedUpOnlyInTransit

LEMMA PromptInitInv == PromptInit => PromptInv
BY DEF PromptInit, PromptInv, PromptTypes, Ids, LineTypes, Task, Pcs, InOrder, LinesFit,
       MixedUpOnlyInTransit

LEMMA WorldSteps == ASSUME PromptInv, Arrive \/ Leave PROVE PromptInv'
<1>1. /\ UNCHANGED <<stdin, hand, lines, prompter, shown, approved>>
      /\ asked' \in {asked, asked + 1}
      /\ \A id \in waiting' : id \in waiting \/ (id = asked + 1 /\ asked' = asked + 1)
  BY DEF Arrive, Leave
<1>2. Ids /\ prompter \in Task BY DEF PromptInv, PromptTypes
<1>3. asked \in Nat /\ asked' \in Nat /\ asked <= asked' BY <1>1, <1>2 DEF Ids
<1>4. ASSUME NEW id \in waiting' PROVE id \in Nat /\ 0 < id /\ id <= asked' /\ shown <= id
  <2>1. CASE id \in waiting BY <1>2, <1>3, <2>1 DEF PromptInv, InOrder, Ids
  <2>2. CASE id = asked + 1 /\ asked' = asked + 1 BY <1>2, <1>3, <2>2 DEF Ids
  <2>3. QED BY <1>1, <2>1, <2>2
<1>5. Ids' BY <1>1, <1>2, <1>3, <1>4 DEF Ids
<1>6. InOrder'
  <2>1. shown \notin waiting => shown \notin waiting' BY <1>1, <1>2 DEF Ids
  <2>2. prompter.pc = "printing" => /\ prompter.request <= asked'
                                    /\ \A id \in waiting' : prompter.request <= id
    BY <1>1, <1>2, <1>3 DEF PromptInv, InOrder, Task
  <2>3. QED BY <1>1, <1>4, <2>1, <2>2 DEF PromptInv, InOrder
<1>7. LineTypes' /\ LinesFit' /\ MixedUpOnlyInTransit'
  BY <1>1 DEF PromptInv, PromptTypes, LineTypes, LinesFit, Fits, MixedUpOnlyInTransit
<1>8. QED BY <1>1, <1>2, <1>5, <1>6, <1>7 DEF PromptInv, PromptTypes

LEMMA AppendFits ==
    ASSUME NEW s \in Seq(Line), NEW l \in Line
    PROVE  /\ Append(s, l) \in Seq(Line)
           /\ \A n \in 1..Len(Append(s, l)) :
                Append(s, l)[n] = l \/ \E m \in 1..Len(s) : Append(s, l)[n] = s[m]
OBVIOUS

LEMMA TailFits ==
    ASSUME NEW s \in Seq(Line), s # <<>>
    PROVE  /\ Tail(s) \in Seq(Line) /\ Head(s) \in Line /\ Head(s) = s[1] /\ 1 \in 1..Len(s)
           /\ \A n \in 1..Len(Tail(s)) : \E m \in 1..Len(s) : Tail(s)[n] = s[m]
OBVIOUS

LEMMA LineSteps == ASSUME PromptInv, Type \/ ReadLine \/ Send PROVE PromptInv'
<1>0. UNCHANGED <<waiting, asked, prompter, shown, approved>> BY DEF Type, ReadLine, Send
<1>1. Ids' /\ prompter' \in Task /\ InOrder' /\ MixedUpOnlyInTransit'
  BY <1>0 DEF PromptInv, PromptTypes, Ids, InOrder, MixedUpOnlyInTransit
<1>2. LineTypes /\ LinesFit /\ shown \in Nat BY DEF PromptInv, PromptTypes, Ids
<1>3. \A l : Fits(l) => Fits(l)' BY <1>0 DEF Fits
<1>4. CASE Type
  <2> DEFINE late == prompter.pc = "printing"
  <2>1. PICK says \in Answers : stdin' = Append(stdin, [says |-> says, at |-> shown, late |-> late])
    BY <1>4 DEF Type
  <2> DEFINE l == [says |-> says, at |-> shown, late |-> late]
  <2>2. late \in BOOLEAN OBVIOUS
  <2>3. l.at = shown /\ (prompter.pc = "printing" => l.late) OBVIOUS
  <2> HIDE DEF late
  <2>4. l \in Line BY <1>2, <2>2 DEF Line
  <2>5. UNCHANGED <<hand, lines>> /\ stdin' = Append(stdin, l) BY <1>4, <2>1 DEF Type
  <2> HIDE DEF l
  <2>6. LineTypes' BY <1>2, <2>4, <2>5, AppendFits DEF LineTypes
  <2>7. \A n \in 1..Len(stdin') : stdin'[n] = l \/ \E m \in 1..Len(stdin) : stdin'[n] = stdin[m]
    BY <1>2, <2>4, <2>5, AppendFits DEF LineTypes
  <2>8. Fits(l) BY <2>3 DEF Fits
  <2>9. LinesFit' BY <1>2, <1>3, <2>5, <2>7, <2>8 DEF LinesFit
  <2>10. QED BY <1>1, <2>6, <2>9 DEF PromptInv, PromptTypes
<1>5. CASE ReadLine
  <2>1. /\ stdin # <<>> /\ hand' \in {Head(stdin), Gone} /\ stdin' = Tail(stdin) /\ lines' = lines
    BY <1>5 DEF ReadLine
  <2>2. LineTypes' BY <1>2, <2>1, TailFits DEF LineTypes
  <2>3. /\ \A n \in 1..Len(stdin') : \E m \in 1..Len(stdin) : stdin'[n] = stdin[m]
        /\ Head(stdin) = stdin[1] /\ 1 \in 1..Len(stdin)
    BY <1>2, <2>1, TailFits DEF LineTypes
  <2>4. LinesFit' BY <1>2, <1>3, <2>1, <2>3 DEF LinesFit
  <2>5. QED BY <1>1, <2>2, <2>4 DEF PromptInv, PromptTypes
<1>6. CASE Send
  <2>1. /\ hand \in Line /\ Fits(hand) /\ hand' \in {Gone, NoLine} /\ stdin' = stdin
        /\ lines' \in {lines, Append(lines, hand)}
    BY <1>2, <1>6 DEF Send, LinesFit, LineTypes
  <2>2. LineTypes' BY <1>2, <2>1, AppendFits DEF LineTypes
  <2>3. \A n \in 1..Len(lines') : lines'[n] = hand \/ \E m \in 1..Len(lines) : lines'[n] = lines[m]
    <3>1. CASE lines' = lines BY <3>1
    <3>2. CASE lines' = Append(lines, hand) BY <1>2, <2>1, <3>2, AppendFits DEF LineTypes
    <3>3. QED BY <2>1, <3>1, <3>2
  <2>4. LinesFit' BY <1>2, <1>3, <2>1, <2>3 DEF LinesFit
  <2>5. QED BY <1>1, <2>2, <2>4 DEF PromptInv, PromptTypes
<1>7. QED BY <1>4, <1>5, <1>6

LEMMA TaskMoved ==
    ASSUME prompter \in Task, NEW n \in Nat
    PROVE  /\ prompter' = [prompter EXCEPT !.pc = "looking", !.on_screen = n] =>
                prompter' \in Task /\ prompter'.pc = "looking" /\ prompter'.on_screen = n
           /\ prompter' = [prompter EXCEPT !.pc = "asking", !.request = n] =>
                /\ prompter' \in Task /\ prompter'.pc = "asking" /\ prompter'.request = n
                /\ prompter'.on_screen = prompter.on_screen
           /\ prompter' = [prompter EXCEPT !.pc = "over"] => prompter' \in Task /\ prompter'.pc = "over"
BY DEF Task, Pcs

LEMMA LookSteps ==
    ASSUME PromptInv, NobodyWaits \/ SameCall \/ NoAnswer \/ NobodyReads \/ Stop
    PROVE  PromptInv'
<1>0. Ids /\ LineTypes /\ prompter \in Task /\ InOrder BY DEF PromptInv, PromptTypes
<1>1. /\ UNCHANGED <<asked, stdin, hand, lines, shown, approved>> /\ waiting' \subseteq waiting
  BY DEF NobodyWaits, SameCall, NoAnswer, NobodyReads, Stop, LookAgain
<1>2. waiting # {} => Min(waiting) \in waiting BY <1>0, LeastOf DEF Ids
<1>3. \/ /\ prompter.pc = "looking" /\ waiting = {}
         /\ prompter' = [prompter EXCEPT !.pc = "looking", !.on_screen = 0]
      \/ /\ prompter.pc = "looking" /\ Min(waiting) \in waiting /\ Min(waiting) = prompter.on_screen
         /\ prompter' = [prompter EXCEPT !.pc = "asking", !.request = Min(waiting)]
      \/ /\ prompter.pc = "asking"
         /\ prompter' = [prompter EXCEPT !.pc = "looking", !.on_screen = prompter.on_screen]
      \/ prompter' = [prompter EXCEPT !.pc = "over"]
  BY <1>2 DEF NobodyWaits, SameCall, NoAnswer, NobodyReads, Stop, LookAgain
<1>4. /\ prompter' \in Task /\ prompter'.pc # "printing"
      /\ prompter'.pc = "looking" =>
           \/ prompter'.on_screen = 0 /\ waiting = {}
           \/ prompter.pc = "asking" /\ prompter'.on_screen = prompter.on_screen
      /\ prompter'.pc = "asking" =>
           /\ prompter.pc = "looking" /\ prompter.on_screen \in waiting
           /\ prompter'.on_screen = prompter.on_screen /\ prompter'.request = prompter.on_screen
  <2>1. {"looking", "asking", "over"} \subseteq Pcs /\ 0 \in Nat /\ prompter.on_screen \in Nat
    BY <1>0 DEF Pcs, Task
  <2>2. \A n \in Nat : prompter' = [prompter EXCEPT !.pc = "looking", !.on_screen = n] =>
           prompter' \in Task /\ prompter'.pc = "looking" /\ prompter'.on_screen = n
    BY <1>0, TaskMoved
  <2>3. \A n \in Nat : prompter' = [prompter EXCEPT !.pc = "asking", !.request = n] =>
           /\ prompter' \in Task /\ prompter'.pc = "asking" /\ prompter'.request = n
           /\ prompter'.on_screen = prompter.on_screen
    BY <1>0, TaskMoved
  <2>4. prompter' = [prompter EXCEPT !.pc = "over"] => prompter' \in Task /\ prompter'.pc = "over"
    BY <1>0, TaskMoved
  <2>5. QED BY <1>3, <2>1, <2>2, <2>3, <2>4
<1>5. Ids' /\ LineTypes' BY <1>0, <1>1 DEF Ids, LineTypes
<1>6. InOrder'
  <2>1. \A id \in waiting' : shown' <= id BY <1>0, <1>1 DEF InOrder
  <2>2. prompter'.pc = "looking" => \/ prompter'.on_screen = shown
                                    \/ prompter'.on_screen = 0 /\ shown \notin waiting'
    BY <1>0, <1>1, <1>4 DEF InOrder
  <2>3. prompter'.pc = "asking" => prompter'.on_screen = prompter'.request /\ prompter'.request = shown
    BY <1>0, <1>4 DEF InOrder, Ids
  <2>4. QED BY <1>1, <1>4, <2>1, <2>2, <2>3 DEF InOrder
<1>7. LinesFit' /\ MixedUpOnlyInTransit'
  BY <1>1, <1>4 DEF PromptInv, LinesFit, Fits, MixedUpOnlyInTransit
<1>8. QED BY <1>4, <1>5, <1>6, <1>7 DEF PromptInv, PromptTypes

(* A new prompt: what is on its way is marked, and the call comes after the   *)
(* one before.                                                                *)
LEMMA NextCallStep == ASSUME PromptInv, NextCall PROVE PromptInv'
<1> DEFINE next == Min(waiting)
<1>0. Ids /\ LineTypes /\ prompter \in Task /\ InOrder BY DEF PromptInv, PromptTypes
<1>1. /\ prompter.pc = "looking" /\ waiting # {} /\ next # prompter.on_screen
      /\ lines' = <<>> /\ stdin' = [n \in DOMAIN stdin |-> Late(stdin[n])]
      /\ hand' = IF hand \in {NoLine, Gone} THEN hand ELSE Late(hand)
      /\ prompter' = [pc |-> "printing", request |-> next, on_screen |-> next]
      /\ UNCHANGED <<waiting, asked, typed, shown, approved>>
  BY DEF NextCall, Drained
<1>2. next \in waiting /\ \A id \in waiting : next <= id BY <1>0, <1>1, LeastOf DEF Ids
<1> HIDE DEF next
<1>3. \A l \in Line : Late(l) \in Line /\ Late(l).late /\ Late(l).at = l.at BY DEF Line, Late
<1> HIDE DEF Late
<1>4. stdin' \in Seq(Line) /\ Len(stdin') = Len(stdin)
      /\ \A n \in 1..Len(stdin) : stdin[n] \in Line /\ stdin'[n] = Late(stdin[n])
  BY <1>0, <1>1, <1>3 DEF LineTypes
<1>5. Ids' /\ LineTypes' /\ prompter' \in Task
  <2>1. Ids' BY <1>0, <1>1 DEF Ids
  <2>2. LineTypes' BY <1>0, <1>1, <1>3, <1>4 DEF LineTypes
  <2>3. next \in Nat BY <1>0, <1>2 DEF Ids
  <2>4. QED BY <1>1, <2>1, <2>2, <2>3 DEF Task, Pcs
<1>6. shown < next
  <2>1. shown # next /\ shown <= next BY <1>0, <1>1, <1>2 DEF InOrder
  <2>2. QED BY <1>0, <1>2, <2>1 DEF Ids
<1>7. InOrder' BY <1>0, <1>1, <1>2, <1>6 DEF InOrder, Ids
<1>8. LinesFit'
  <2>1. \A l \in Line : Fits(l) => Fits(Late(l))' BY <1>1, <1>3 DEF Fits
  <2>2. QED BY <1>0, <1>1, <1>4, <2>1 DEF PromptInv, LinesFit, LineTypes
<1>9. MixedUpOnlyInTransit' BY <1>1 DEF PromptInv, MixedUpOnlyInTransit
<1>10. QED BY <1>5, <1>7, <1>8, <1>9 DEF PromptInv, PromptTypes

LEMMA ShowPromptStep == ASSUME PromptInv, ShowPrompt PROVE PromptInv'
<1>0. Ids /\ LineTypes /\ prompter \in Task /\ InOrder BY DEF PromptInv, PromptTypes
<1>1. /\ prompter.pc = "printing" /\ prompter' = [prompter EXCEPT !.pc = "asking"]
      /\ shown' = prompter.request
      /\ UNCHANGED <<waiting, asked, stdin, hand, lines, approved>>
  BY DEF ShowPrompt
<1>2. /\ prompter' \in Task /\ prompter'.pc = "asking"
      /\ prompter'.request = prompter.request /\ prompter'.on_screen = prompter.on_screen
  BY <1>0, <1>1 DEF Task, Pcs
<1>3. Ids' /\ LineTypes' BY <1>0, <1>1 DEF Ids, LineTypes, InOrder, Task
<1>4. InOrder' BY <1>0, <1>1, <1>2 DEF InOrder
<1>5. \A l \in Line : Fits(l) => Fits(l)'
  <2>1. \A l \in Line : Fits(l) => l.late /\ l.at < shown'
    BY <1>0, <1>1 DEF Fits, InOrder, Line, Ids, Task
  <2>2. QED BY <2>1 DEF Fits
<1>6. /\ \A n \in 1..Len(stdin) : stdin[n] \in Line
      /\ \A n \in 1..Len(lines) : lines[n] \in Line
  BY <1>0 DEF LineTypes
<1>7. LinesFit' BY <1>0, <1>1, <1>5, <1>6 DEF PromptInv, LinesFit, LineTypes
<1>8. MixedUpOnlyInTransit' BY <1>1 DEF PromptInv, MixedUpOnlyInTransit
<1>9. QED BY <1>2, <1>3, <1>4, <1>7, <1>8 DEF PromptInv, PromptTypes

LEMMA AnswerStep == ASSUME PromptInv, Answer PROVE PromptInv'
<1> DEFINE line == Head(lines)
<1>0. Ids /\ LineTypes /\ prompter \in Task /\ InOrder /\ LinesFit BY DEF PromptInv, PromptTypes
<1>1. /\ prompter.pc = "asking" /\ lines # <<>> /\ lines' = Tail(lines)
      /\ UNCHANGED <<asked, stdin, hand, shown>>
  BY DEF Answer
<1>2. prompter.request = shown /\ prompter.on_screen = shown BY <1>0, <1>1 DEF InOrder
<1>3. \/ /\ prompter' = [prompter EXCEPT !.pc = "looking", !.on_screen = prompter.on_screen]
         /\ UNCHANGED <<waiting, approved>>
      \/ /\ prompter' = [prompter EXCEPT !.pc = "looking", !.on_screen = 0]
         /\ waiting' = waiting \ {prompter.request}
         /\ \A a \in approved' : a \in approved \/ (a.id = prompter.request /\ a.by = line)
  <2>1. CASE line.says = "other" BY <2>1 DEF Answer, LookAgain
  <2>2. CASE line.says # "other"
    <3> DEFINE ids == IF line.says = "yes" THEN waiting \cap {prompter.request} ELSE {}
    <3>1. /\ prompter' = [prompter EXCEPT !.pc = "looking", !.on_screen = 0]
          /\ waiting' = waiting \ {prompter.request}
          /\ approved' = approved \cup {[id |-> id, by |-> line] : id \in ids}
      BY <2>2 DEF Answer, LookAgain
    <3>2. ids \subseteq {prompter.request} OBVIOUS
    <3> HIDE DEF ids, line
    <3>3. QED BY <3>1, <3>2
  <2>3. QED BY <2>1, <2>2
<1>4. line \in Line /\ Fits(line) BY <1>0, <1>1, TailFits DEF LinesFit, LineTypes
<1> HIDE DEF line
<1>5. /\ prompter' \in Task /\ prompter'.pc = "looking"
      /\ \/ prompter'.on_screen = shown /\ waiting' = waiting
         \/ prompter'.on_screen = 0 /\ waiting' = waiting \ {shown}
  <2>1. "looking" \in Pcs /\ 0 \in Nat /\ prompter.on_screen \in Nat BY <1>0 DEF Pcs, Task
  <2> HIDE DEF Task
  <2>2. \A n \in Nat : prompter' = [prompter EXCEPT !.pc = "looking", !.on_screen = n] =>
           prompter' \in Task /\ prompter'.pc = "looking" /\ prompter'.on_screen = n
    BY <1>0, TaskMoved
  <2>3. QED BY <1>2, <1>3, <2>1, <2>2
<1>6. Ids' BY <1>0, <1>1, <1>5 DEF Ids
<1>7. InOrder' BY <1>0, <1>1, <1>5 DEF InOrder
<1>8. LineTypes' BY <1>0, <1>1, TailFits DEF LineTypes
<1>9. LinesFit'
  <2>1. \A l : Fits(l) => Fits(l)' BY <1>1, <1>5 DEF Fits
  <2>2. \A n \in 1..Len(lines') : \E m \in 1..Len(lines) : lines'[n] = lines[m]
    BY <1>0, <1>1, TailFits DEF LineTypes
  <2>3. QED BY <1>0, <1>1, <2>1, <2>2 DEF LinesFit
<1>10. MixedUpOnlyInTransit'
  BY <1>2, <1>3, <1>4 DEF PromptInv, MixedUpOnlyInTransit, Fits
<1>11. QED BY <1>5, <1>6, <1>7, <1>8, <1>9, <1>10 DEF PromptInv, PromptTypes

(* A yes approves the call whose prompt was on the screen when it was typed,  *)
(* or was on its way when a later call took over.                             *)
THEOREM ApprovedAtItsPrompt == PromptSpec => []MixedUpOnlyInTransit
<1>1. PromptInv /\ [PromptNext]_pvars => PromptInv'
  <2> SUFFICES ASSUME PromptInv, [PromptNext]_pvars PROVE PromptInv'
    OBVIOUS
  <2>1. CASE PromptNext
    BY <2>1, WorldSteps, LineSteps, LookSteps, NextCallStep, ShowPromptStep, AnswerStep
       DEF PromptNext
  <2>2. CASE UNCHANGED pvars
    <3> USE <2>2 DEF pvars
    <3>1. PromptTypes' BY DEF PromptInv, PromptTypes, Ids, LineTypes
    <3>2. InOrder' BY DEF PromptInv, InOrder
    <3>3. LinesFit' BY DEF PromptInv, LinesFit, Fits
    <3>4. MixedUpOnlyInTransit' BY DEF PromptInv, MixedUpOnlyInTransit
    <3>5. QED BY <3>1, <3>2, <3>3, <3>4 DEF PromptInv
  <2>3. QED BY <2>1, <2>2
<1>2. PromptInv => MixedUpOnlyInTransit BY DEF PromptInv
<1>3. QED BY PromptInitInv, <1>1, <1>2, PTL DEF PromptSpec

-----------------------------------------------------------------------------
(* The screens.  The lemmas first say what each helper of the pages and of    *)
(* the home page returns, and then what each key and each outcome keeps.      *)

(* What the rows of a page are: a sequence of something.                      *)
IsList(s) == Len(s) \in Nat /\ DOMAIN s = 1..Len(s)

Views == [home : BOOLEAN, page : Pages \cup {"WebDav"}, selected : [Pages -> Nat],
          filter : [Pages -> Queries], category : {"none", "root", "sub"}, row : Nat,
          query : Queries \ {"active"}]
IsConfig(c) == c = [is |-> c.is, conns |-> c.conns, grants |-> c.grants] /\ IsList(c.grants)
IsMode(m) == m = [is |-> m.is, kind |-> m.kind, target |-> m.target, shown |-> m.shown, left |-> m.left]
IsJob(j) == j = [kind |-> j.kind, target |-> j.target, category |-> j.category, shown |-> j.shown,
                 left |-> j.left, brings |-> j.brings, made |-> j.made]

LEMMA PageRows ==
    ASSUME NEW c, IsConfig(c), NEW v \in Views, NEW p \in Pages
    PROVE  IsList(visible_rows(c, v, p))
<1> DEFINE all == total_rows(c, p)
           query == v.filter[p]
<1>1. IsList(all)
  <2>1. IsList(SelectSeq(Order, LAMBDA n : n \in c.conns)) BY ScreensAssumption DEF IsList
  <2>2. IsList(<<>>) BY DEF IsList
  <2>3. QED BY <2>1, <2>2 DEF total_rows, IsConfig
<1>2. IsList(Active(all, expired)) BY <1>1 DEF Active, IsList
<1>3. ASSUME NEW q \in DOMAIN Ranking PROVE IsList(Found(q, all))
  BY ScreensAssumption, <1>3 DEF Found, IsList
<1>4. IsList(<<>>) BY DEF IsList
<1>5. query \in Queries BY DEF Views
<1> HIDE DEF all, IsList
<1>6. visible_rows(c, v, p) = CASE query = "" -> all
         [] query = "active" -> IF p = "Grants" THEN Active(all, expired) ELSE <<>>
         [] OTHER -> Found(query, all)
  BY DEF visible_rows, all
<1> HIDE DEF query
<1>7. CASE query = "" BY <1>1, <1>6, <1>7
<1>8. CASE query = "active" BY <1>2, <1>4, <1>6, <1>8
<1>9. CASE query \notin {"", "active"}
  <2>1. query \in DOMAIN Ranking BY <1>5, <1>9 DEF Queries
  <2>2. QED BY <1>3, <1>6, <1>9, <2>1
<1>10. QED BY <1>7, <1>8, <1>9

LEMMA Joined == ASSUME NEW s, NEW t, IsList(s), IsList(t) PROVE IsList(s \o t)
BY DEF IsList

LEMMA HomeRows ==
    ASSUME NEW c, NEW l, NEW v \in Views
    PROVE  IsList(home_rows(c, l, v))
<1>0. IsList(<<>>) /\ \A x : IsList(<<x>>) BY DEF IsList
<1>1. \A x, y : IsList(<<x, y>>) BY DEF IsList
<1>2. ASSUME NEW category PROVE IsList(Under(l, category))
  BY ScreensAssumption DEF Under, IsList
<1>3. ASSUME NEW category PROVE IsList(walk(l, category))
  <2> DEFINE sub == IF l.sub THEN <<"sub">> \o Under(l, "sub") ELSE <<>>
             top == sub \o Under(l, "root")
  <2>1. IsList(sub) BY <1>0, <1>2, Joined
  <2> HIDE DEF sub
  <2>2. IsList(top) BY <1>2, <2>1, Joined
  <2>3. walk(l, category) = CASE category = "none" -> <<"root">> \o top
                              [] category = "root" -> top
                              [] OTHER -> Under(l, category)
    BY DEF walk, sub
  <2> HIDE DEF top
  <2>4. IsList(<<"root">> \o top) BY <1>0, <2>2, Joined
  <2>5. QED BY <1>2, <2>2, <2>3, <2>4
<1>4. IsList(home_actions(c))
  <2> DEFINE two == <<IF c.is THEN "action:browse" ELSE "action:new", "action:open">>
             more == IF c.is THEN <<"action:grants">> ELSE <<>>
  <2>1. IsList(two) /\ IsList(more) BY <1>0, <1>1
  <2>2. home_actions(c) = two \o more BY DEF home_actions
  <2> HIDE DEF two, more
  <2>3. QED BY <2>1, <2>2, Joined
<1>5. ASSUME v.query # "" PROVE IsList(Found(v.query, walk(l, "none")))
  <2>1. v.query \in DOMAIN Ranking BY <1>5 DEF Views, Queries
  <2>2. QED BY ScreensAssumption, <2>1 DEF Found, IsList
<1> DEFINE found == IF v.query = "" THEN walk(l, v.category) ELSE Found(v.query, walk(l, "none"))
           first == c.is /\ IF v.query = "" THEN v.category = "none"
                            ELSE "action:grants" \in ToSet(Ranking[v.query])
           above == IF first THEN <<"action:grants">> ELSE <<>>
<1>6. IsList(found) BY <1>3, <1>5
<1>7. IsList(above) BY <1>0
<1>8. home_rows(c, l, v) = IF ~l.open THEN home_actions(c) ELSE above \o found BY DEF home_rows
<1> HIDE DEF found, first, above
<1>9. IsList(above \o found) BY <1>6, <1>7, Joined
<1>10. QED BY <1>4, <1>8, <1>9

(* A row that is looked for is found where it is now.                         *)
LEMMA FoundAgain ==
    ASSUME NEW rows, IsList(rows), NEW key, NEW was
    PROVE  /\ Position(rows, key, was) \in Nat
           /\ key \in ToSet(rows) =>
                /\ Position(rows, key, was) \in 1..Len(rows)
                /\ rows[Position(rows, key, was)] = key
           /\ key \notin ToSet(rows) => Position(rows, key, was) = 1
<1>1. CASE key \notin ToSet(rows) BY <1>1 DEF Position
<1>2. CASE key \in ToSet(rows)
  <2> DEFINE places == {n \in 1..Len(rows) : rows[n] = key}
  <2>1. places # {} BY <1>2 DEF ToSet, IsList
  <2>2. places \in SUBSET Nat BY DEF IsList
  <2>3. Position(rows, key, was) = Min(places) BY <1>2, <2>1 DEF Position, SelectInSeq
  <2>4. Min(places) \in places BY <2>1, <2>2, LeastOf
  <2>5. QED BY <1>2, <2>2, <2>3, <2>4
<1>3. QED BY <1>1, <1>2

LEMMA ClampedRow ==
    ASSUME NEW rows, IsList(rows), NEW n \in Nat
    PROVE  /\ Clamped(n, rows) \in Nat
           /\ Clamped(n, rows) <= Len(rows) \/ Len(rows) = 0
           /\ n \in 1..Len(rows) => Clamped(n, rows) = n
           /\ n <= Len(rows) => Clamped(n, rows) = n
<1>1. rows = <<>> => Len(rows) = 0 OBVIOUS
<1>2. Len(rows) \in Nat BY DEF IsList
<1>3. CASE n <= Len(rows) BY <1>2, <1>3 DEF Clamped
<1>4. CASE ~(n <= Len(rows)) /\ rows = <<>>
  <2>1. Clamped(n, rows) = 1 /\ Len(rows) = 0 /\ n \notin 1..Len(rows) BY <1>1, <1>4 DEF Clamped
  <2>2. QED BY <1>2, <1>4, <2>1
<1>5. CASE ~(n <= Len(rows)) /\ rows # <<>>
  <2>1. Clamped(n, rows) = Len(rows) /\ n \notin 1..Len(rows) BY <1>2, <1>5 DEF Clamped
  <2>2. QED BY <1>2, <1>5, <2>1
<1>6. QED BY <1>3, <1>4, <1>5

(* The marked row of the home page is one of its rows.                        *)
RowFits(c, l, v) == v.row <= Len(home_rows(c, l, v)) \/ Len(home_rows(c, l, v)) = 0

LEMMA SameHomeRows ==
    ASSUME NEW c, NEW d, NEW l, NEW v, NEW w,
           c.is <=> d.is, v.query = w.query, v.category = w.category
    PROVE  home_rows(c, l, v) = home_rows(d, l, w)
BY DEF home_rows, home_actions

LEMMA DrawnView ==
    ASSUME NEW v \in Views, NEW c, NEW l
    PROVE  /\ Drawn(c, l, v) \in Views
           /\ Drawn(c, l, v) = [v EXCEPT !.row = Drawn(c, l, v).row]
           /\ v.home => RowFits(c, l, Drawn(c, l, v))
           /\ v.home /\ RowFits(c, l, v) =>
                Nth(home_rows(c, l, v), Drawn(c, l, v).row) = Nth(home_rows(c, l, v), v.row)
           /\ ~v.home => Drawn(c, l, v) = v
<1> DEFINE rows == home_rows(c, l, v)
           n == Clamped(v.row, rows)
           w == Drawn(c, l, v)
<1>1. IsList(rows) BY HomeRows
<1>2. v.row \in Nat BY DEF Views
<1>3. /\ n \in Nat /\ (n <= Len(rows) \/ Len(rows) = 0)
      /\ v.row <= Len(rows) => n = v.row
  BY <1>1, <1>2, ClampedRow
<1>4. w = IF v.home THEN [v EXCEPT !.row = n] ELSE v BY DEF Drawn
<1> HIDE DEF rows, n, w
<1>5. CASE ~v.home BY <1>4, <1>5 DEF Views, w
<1>6. CASE v.home
  <2>1. w \in Views /\ w = [v EXCEPT !.row = w.row] /\ w.row = n BY <1>3, <1>4, <1>6 DEF Views
  <2>2. w.query = v.query /\ w.category = v.category BY <2>1 DEF Views
  <2>3. home_rows(c, l, w) = rows BY <2>2, SameHomeRows DEF rows
  <2>4. RowFits(c, l, w) BY <1>3, <2>1, <2>3 DEF RowFits
  <2>5. v.row <= Len(rows) \/ Len(rows) = 0 => Nth(rows, n) = Nth(rows, v.row)
    BY <1>2, <1>3 DEF Nth
  <2>6. QED BY <1>6, <2>1, <2>4, <2>5 DEF RowFits, rows, w
<1>7. QED BY <1>5, <1>6

(* What somebody may do to the configuration.                                 *)
Amended(c, d) ==
    \/ d = c
    \/ \E n : d = WithoutGrants(c, n)
    \/ \E names : d = [c EXCEPT !.conns = names]
    \/ \E g : d = [c EXCEPT !.grants = Append(@, g)]
    \/ \E g : d = [c EXCEPT !.grants = Remove(@, g)]
    \/ \E names, g : d = [is |-> TRUE, conns |-> names, grants |-> Append(c.grants, g)]
    \/ d = [c EXCEPT !.is = ~@]

LEMMA AmendedConfig ==
    ASSUME NEW c, IsConfig(c), NEW d, Amended(c, d)
    PROVE  IsConfig(d)
<1>1. IsList(c.grants) BY DEF IsConfig
<1>2. ASSUME NEW n PROVE IsList(OfOthers(c.grants, n)) BY <1>1 DEF IsList, OfOthers
<1>3. ASSUME NEW n PROVE IsList(Remove(c.grants, n)) BY <1>1 DEF IsList, Remove
<1>4. ASSUME NEW g PROVE IsList(Append(c.grants, g)) BY <1>1 DEF IsList
<1> HIDE DEF IsList
<1>5. ASSUME NEW names, NEW grants, NEW is, IsList(grants)
      PROVE  IsConfig([is |-> is, conns |-> names, grants |-> grants])
  BY <1>5 DEF IsConfig
<1>6. c \in [is : {c.is}, conns : {c.conns}, grants : {c.grants}] BY DEF IsConfig
<1> HIDE DEF IsConfig
<1>7. ASSUME NEW names, NEW grants, IsList(grants)
      PROVE  /\ IsConfig([c EXCEPT !.grants = grants])
             /\ IsConfig([c EXCEPT !.conns = names, !.grants = grants])
  <2>1. [c EXCEPT !.grants = grants] = [is |-> c.is, conns |-> c.conns, grants |-> grants]
    BY <1>6
  <2>2. [c EXCEPT !.conns = names, !.grants = grants] = [is |-> c.is, conns |-> names, grants |-> grants]
    <3> DEFINE named == [c EXCEPT !.conns = names]
    <3>1. named \in [is : {c.is}, conns : {names}, grants : {c.grants}] BY <1>6
    <3>2. [c EXCEPT !.conns = names, !.grants = grants] = [named EXCEPT !.grants = grants] BY <1>6
    <3> HIDE DEF named
    <3>3. QED BY <3>1, <3>2
  <2>3. QED BY <1>5, <1>7, <2>1, <2>2
<1>8. ASSUME NEW n PROVE IsConfig(WithoutGrants(c, n)) BY <1>2, <1>7 DEF WithoutGrants
<1>9. ASSUME NEW g PROVE IsConfig([c EXCEPT !.grants = Append(@, g)]) BY <1>4, <1>7
<1>10. ASSUME NEW g PROVE IsConfig([c EXCEPT !.grants = Remove(@, g)])
  BY <1>3, <1>7
<1>11. ASSUME NEW names, NEW g
       PROVE  /\ IsConfig([c EXCEPT !.conns = names])
              /\ IsConfig([c EXCEPT !.is = ~@])
              /\ IsConfig([is |-> TRUE, conns |-> names, grants |-> Append(c.grants, g)])
  <2>1. [c EXCEPT !.conns = names] = [is |-> c.is, conns |-> names, grants |-> c.grants] BY <1>6
  <2>2. [c EXCEPT !.is = ~@] = [is |-> ~c.is, conns |-> c.conns, grants |-> c.grants] BY <1>6
  <2>3. IsConfig([c EXCEPT !.conns = names]) BY <1>1, <1>5, <2>1
  <2>4. IsConfig([c EXCEPT !.is = ~@]) BY <1>1, <1>5, <2>2
  <2>5. IsConfig([is |-> TRUE, conns |-> names, grants |-> Append(c.grants, g)]) BY <1>4, <1>5
  <2>6. QED BY <2>3, <2>4, <2>5
<1>12. CASE \E n : d = WithoutGrants(c, n) BY <1>8, <1>12
<1>13. CASE \E names : d = [c EXCEPT !.conns = names]
  <2>1. PICK names : d = [c EXCEPT !.conns = names] BY <1>13
  <2>2. QED BY <1>11, <2>1
<1>14. CASE \E g : d = [c EXCEPT !.grants = Append(@, g)]
  <2>1. PICK g : d = [c EXCEPT !.grants = Append(@, g)] BY <1>14
  <2>2. QED BY <1>9, <2>1
<1>15. CASE \E g : d = [c EXCEPT !.grants = Remove(@, g)]
  <2>1. PICK g : d = [c EXCEPT !.grants = Remove(@, g)] BY <1>15
  <2>2. QED BY <1>10, <2>1
<1>16. CASE \E names, g : d = [is |-> TRUE, conns |-> names, grants |-> Append(c.grants, g)]
  BY <1>11, <1>16
<1>17. CASE d = [c EXCEPT !.is = ~@] BY <1>11, <1>17
<1>18. QED BY <1>12, <1>13, <1>14, <1>15, <1>16, <1>17 DEF Amended

LEMMA SameRows ==
    ASSUME NEW c, NEW v, NEW w, NEW p, v.filter[p] = w.filter[p]
    PROVE  visible_rows(c, v, p) = visible_rows(c, w, p)
BY DEF visible_rows

(* Two views that differ in what is selected on the pages only.               *)
Alike(v, w) == w \in Views /\ w = [v EXCEPT !.selected = w.selected]

LEMMA RestoredView ==
    ASSUME NEW c, IsConfig(c), NEW v \in Views, NEW p \in Pages \cup {"WebDav"}, NEW key
    PROVE  /\ Alike(v, Restored(c, v, p, key))
           /\ \A q \in Pages \ {p} : Restored(c, v, p, key).selected[q] = v.selected[q]
<1> DEFINE n == Position(visible_rows(c, v, p), key, v.selected[p])
           w == Restored(c, v, p, key)
<1>1. p \in Pages => n \in Nat BY PageRows, FoundAgain
<1>2. w = [v EXCEPT !.selected[p] = n] BY DEF Restored
<1>3. v.selected \in [Pages -> Nat] BY DEF Views
<1>4. w = [v EXCEPT !.selected = [v.selected EXCEPT ![p] = n]] BY <1>2 DEF Views
<1> DEFINE chosen == [v.selected EXCEPT ![p] = n]
<1> HIDE DEF n, w
<1>5. chosen \in [Pages -> Nat] /\ \A q \in Pages \ {p} : chosen[q] = v.selected[q] BY <1>1, <1>3
<1> HIDE DEF chosen
<1>6. w = [v EXCEPT !.selected = chosen] BY <1>4 DEF chosen
<1>7. w \in Views /\ w.selected = chosen BY <1>5, <1>6 DEF Views
<1>8. QED BY <1>5, <1>6, <1>7 DEF Alike, w

LEMMA ChosenView ==
    ASSUME NEW v \in Views, NEW chosen \in [Pages -> Nat]
    PROVE  Alike(v, [v EXCEPT !.selected = chosen]) /\ [v EXCEPT !.selected = chosen].selected = chosen
BY DEF Alike, Views

LEMMA ClampedView ==
    ASSUME NEW c, IsConfig(c), NEW v \in Views
    PROVE  /\ Alike(v, clamp_selection(c, v))
           /\ \A p \in Pages :
                clamp_selection(c, v).selected[p] = Clamped(v.selected[p], visible_rows(c, v, p))
<1> DEFINE chosen == [p \in Pages |-> Clamped(v.selected[p], visible_rows(c, v, p))]
<1>1. \A p \in Pages : v.selected[p] \in Nat BY DEF Views
<1>2. \A p \in Pages : Clamped(v.selected[p], visible_rows(c, v, p)) \in Nat
  BY <1>1, PageRows, ClampedRow
<1>3. chosen \in [Pages -> Nat] BY <1>2
<1>4. clamp_selection(c, v) = [v EXCEPT !.selected = chosen] BY DEF clamp_selection
<1>5. \A p \in Pages : chosen[p] = Clamped(v.selected[p], visible_rows(c, v, p)) OBVIOUS
<1> HIDE DEF chosen
<1>6. QED BY <1>3, <1>4, <1>5, ChosenView

LEMMA RereadConfig == ASSUME IsConfig(shared) PROVE IsConfig(Reread)
<1>1. CASE shared.is BY <1>1 DEF Reread
<1>2. CASE ~shared.is
  <2>1. Len(<<>>) = 0 /\ DOMAIN <<>> = 1..0 OBVIOUS
  <2>2. IsList(NoConfig.grants) BY <2>1 DEF NoConfig, IsList
  <2>3. QED BY <1>2, <2>2 DEF Reread, NoConfig, IsConfig
<1>3. QED BY <1>1, <1>2

LEMMA ReloadedView ==
    ASSUME IsConfig(shared), NEW v \in Views
    PROVE  /\ Alike(v, Reloaded(v))
           /\ \A p \in Pages : Reloaded(v).selected[p] =
                 Position(visible_rows(Reread, v, p), selection_key(loaded, v, p), v.selected[p])
<1> DEFINE at(p) == Position(visible_rows(Reread, v, p), selection_key(loaded, v, p), v.selected[p])
           chosen == [p \in Pages |-> at(p)]
<1>1. \A p \in Pages : at(p) \in Nat BY RereadConfig, PageRows, FoundAgain
<1>2. Reloaded(v) = [v EXCEPT !.selected = chosen] BY DEF Reloaded
<1> HIDE DEF at
<1>3. chosen \in [Pages -> Nat] /\ \A p \in Pages : chosen[p] = at(p) BY <1>1
<1> HIDE DEF chosen
<1>4. QED BY <1>2, <1>3, ChosenView DEF at

LEMMA TurnedView ==
    ASSUME NEW v \in Views, NEW p \in Pages \cup {"WebDav"}
    PROVE  /\ set_page(v, p) \in Views /\ ~set_page(v, p).home
           /\ set_page(v, p) = [v EXCEPT !.home = FALSE, !.page = p]
BY DEF set_page, Views

LEMMA HomeRestoredView ==
    ASSUME NEW v \in Views
    PROVE  /\ HomeRestored(v) \in Views
           /\ HomeRestored(v) =
                [v EXCEPT !.category = HomeRestored(v).category, !.row = HomeRestored(v).row]
           /\ RowFits(Reread, ReadVault, HomeRestored(v))
<1> DEFINE there == restore.category = "root" \/ (restore.category = "sub" /\ store.sub)
           category == IF restore.is /\ there THEN restore.category ELSE "none"
           w == [v EXCEPT !.category = category]
           rows == home_rows(Reread, ReadVault, w)
           n == IF restore.is THEN Position(rows, restore.row, 1) ELSE 1
           x == HomeRestored(v)
<1>1. x = [w EXCEPT !.row = n] BY DEF HomeRestored
<1>2. category \in {"none", "root", "sub"} OBVIOUS
<1> HIDE DEF category
<1>3. w \in Views BY <1>2 DEF Views
<1>4. IsList(rows) BY <1>3, HomeRows
<1>5. n \in Nat /\ (n <= Len(rows) \/ Len(rows) = 0)
  <2>1. Len(rows) \in Nat BY <1>4 DEF IsList
  <2>2. CASE restore.is
    <3> DEFINE m == Position(rows, restore.row, 1)
    <3>1. m \in Nat /\ (m \in 1..Len(rows) \/ m = 1) BY <1>4, FoundAgain
    <3>2. n = m BY <2>2
    <3> HIDE DEF m, n, rows
    <3>3. QED BY <2>1, <3>1, <3>2
  <2>3. CASE ~restore.is
    <3>1. n = 1 BY <2>3
    <3> HIDE DEF n, rows
    <3>2. QED BY <2>1, <3>1
  <2>4. QED BY <2>2, <2>3
<1> HIDE DEF n, x
<1>6. /\ x = [v EXCEPT !.category = category, !.row = n]
      /\ x.category = category /\ x.row = n /\ x.query = w.query
  BY <1>1, <1>2, <1>5 DEF Views
<1>7. x \in Views BY <1>1, <1>3, <1>5 DEF Views
<1>8. x.category = w.category BY <1>6 DEF Views
<1>9. home_rows(Reread, ReadVault, x) = home_rows(Reread, ReadVault, w)
  <2> DEFINE c == Reread
             l == ReadVault
  <2>1. x.query = w.query /\ x.category = w.category BY <1>6, <1>8
  <2> HIDE DEF c, l, w
  <2>2. home_rows(c, l, x) = home_rows(c, l, w) BY <2>1, SameHomeRows
  <2>3. QED BY <2>2 DEF c, l
<1>10. home_rows(Reread, ReadVault, x) = rows BY <1>9
<1> HIDE DEF w, rows
<1>11. RowFits(Reread, ReadVault, x)
  <2>1. x.row = n BY <1>6
  <2>2. QED BY <1>5, <1>10, <2>1 DEF RowFits
<1>12. QED BY <1>6, <1>7, <1>11 DEF x

(* Marking a row of the home page.                                            *)
LEMMA MarkedRow ==
    ASSUME NEW c, NEW l, NEW v \in Views, NEW n \in Nat,
           n = 1 \/ n <= Len(home_rows(c, l, v)),
           NEW w, w.query = v.query, w.category = v.category, w.row = n
    PROVE  RowFits(c, l, w)
<1>1. home_rows(c, l, w) = home_rows(c, l, v) BY SameHomeRows
<1>2. Len(home_rows(c, l, v)) \in Nat BY HomeRows DEF IsList
<1>3. QED BY <1>1, <1>2 DEF RowFits

LEMMA MarkedView ==
    ASSUME NEW c, NEW l, NEW v \in Views, NEW n \in Nat,
           n = 1 \/ n <= Len(home_rows(c, l, v)), NEW w, w = [v EXCEPT !.row = n]
    PROVE  w \in Views /\ w.home = v.home /\ w.category = v.category /\ RowFits(c, l, w)
<1>1. w \in Views /\ w.home = v.home /\ w.category = v.category /\ w.query = v.query /\ w.row = n
  BY DEF Views
<1>2. RowFits(c, l, w) BY <1>1, MarkedRow, Zenon
<1>3. QED BY <1>1, <1>2

(* What a form was opened on is what was shown, and the category the path     *)
(* named is still the current one, or no longer asked about.                  *)
FormOk(m, v) ==
    /\ m.target = m.shown.row
    /\ \/ m.shown.category = "hidden"
       \/ v.home /\ m.shown.category = v.category
       \/ ~v.home /\ (m.shown.category = "none" \/ m.left)
ModeOk(m, v) ==
    /\ IsMode(m)
    /\ m.is = "filter" => m.kind \in Queries /\ (v.home => m.kind # "active")
    /\ m.is = "form" => FormOk(m, v)

(* A task that brings the library back found it closed, and while it is       *)
(* closed no path names a category.                                           *)
LibraryJobs == {"change", "edit", "category", "library", "delete", "move", "connect", "key"}
JobOk ==
    /\ IsJob(job) /\ (job.brings = "library" => job.kind \in LibraryJobs)
    /\ job.kind \in LibraryJobs =>
         /\ ~opened.open
         /\ mode.is = "form" /\ view.home => mode.shown.category = "hidden"

ViewOk == view \in Views /\ (view.home => RowFits(loaded, opened, view))
ScreensInv ==
    /\ presses \in Nat /\ IsConfig(loaded) /\ IsConfig(shared)
    /\ ViewOk /\ ModeOk(mode, view) /\ JobOk /\ ActedOnWhatWasShown

LEMMA ScreensInitInv == ScreensInit => ScreensInv
<1> SUFFICES ASSUME ScreensInit PROVE ScreensInv
  OBVIOUS
<1>1. IsConfig(shared) /\ IsConfig(loaded)
  <2> DEFINE n == Cardinality(Grants)
             all == SetToSeq(Grants)
  <2>1. n \in Nat /\ ExistsBijection(1..n, Grants) BY ScreensAssumption, FS_CardinalityType
  <2>2. \E f \in [1..n -> Grants] : IsInjective(f)
    BY <2>1 DEF ExistsBijection, Bijection, Injection, IsInjective
  <2>3. all \in [1..n -> Grants] BY <2>2 DEF SetToSeq
  <2>4. IsList(all) BY <2>1, <2>3 DEF IsList
  <2>5. shared = [is |-> TRUE, conns |-> Named, grants |-> all] /\ loaded = shared BY DEF ScreensInit
  <2> HIDE DEF all, IsList
  <2>6. QED BY <2>4, <2>5 DEF IsConfig
<1>2. \A c \in {"none", "root"} : FirstView(c) \in Views /\ FirstView(c).row = 1
  <2>1. "" \in Queries \ {"active"} /\ "Connections" \in Pages BY DEF Queries, Pages
  <2>2. QED BY <2>1 DEF FirstView, Views
<1>3. \E c \in {"none", "root"} : view = FirstView(c) BY DEF ScreensInit
<1>4. view \in Views /\ view.row = 1 BY <1>2, <1>3
<1>5. ViewOk
  <2>1. Len(home_rows(loaded, opened, view)) \in Nat BY <1>4, HomeRows DEF IsList
  <2>2. QED BY <1>4, <2>1 DEF ViewOk, RowFits
<1>6. ModeOk(mode, view) BY DEF ScreensInit, NoForm, ModeOk, IsMode
<1>7. job \in {NoJob, [NoJob EXCEPT !.kind = "login"]} BY DEF ScreensInit
<1>8. JobOk /\ ActedOnWhatWasShown
  BY <1>7 DEF NoJob, NoForm, JobOk, IsJob, LibraryJobs, ActedOnWhatWasShown
<1>9. presses \in Nat BY DEF ScreensInit
<1>10. QED BY <1>1, <1>5, <1>6, <1>8, <1>9 DEF ScreensInv

(* A key that changes what is chosen and the mode only.                       *)
LEMMA KeyStep ==
    ASSUME ScreensInv, UNCHANGED <<loaded, opened, shared, job>>, presses' \in Nat,
           view' \in Views, view'.home => RowFits(loaded, opened, view'), ModeOk(mode', view'),
           job.kind \in LibraryJobs /\ mode'.is = "form" /\ view'.home => mode'.shown.category = "hidden"
    PROVE  ScreensInv'
<1>1. ViewOk' BY DEF ViewOk
<1>2. JobOk' BY DEF ScreensInv, JobOk
<1>3. ActedOnWhatWasShown' BY DEF ScreensInv, ActedOnWhatWasShown
<1>4. ModeOk(mode, view)' OBVIOUS
<1>5. IsConfig(loaded)' /\ IsConfig(shared)' BY DEF ScreensInv
<1>6. QED BY <1>1, <1>2, <1>3, <1>4, <1>5 DEF ScreensInv

LEMMA Pressed ==
    ASSUME ScreensInv, Press
    PROVE  presses' \in Nat /\ presses' # presses
BY DEF ScreensInv, Press

(* Opening a form where the person is.                                        *)
LEMMA FormOpens ==
    ASSUME ScreensInv, NEW kind, NEW target, show_form(kind, target),
           UNCHANGED <<loaded, opened, shared, job, view>>, presses' \in Nat
    PROVE  ScreensInv'
<1>1. view \in Views /\ (view.home => RowFits(loaded, opened, view)) BY DEF ScreensInv, ViewOk
<1>2. /\ IsMode(mode') /\ mode'.is = "form" /\ mode'.target = mode'.shown.row
      /\ mode'.shown.category = Header
  BY DEF show_form, IsMode
<1>3. Header = IF ~view.home THEN "none" ELSE IF opened.open THEN view.category ELSE "hidden"
  BY DEF Header
<1>4. ModeOk(mode', view) BY <1>2, <1>3 DEF ModeOk, FormOk
<1>5. job.kind \in LibraryJobs /\ view.home => mode'.shown.category = "hidden"
  BY <1>2, <1>3 DEF ScreensInv, JobOk
<1>6. QED BY <1>1, <1>4, <1>5, KeyStep

LEMMA NoFormIsOk == ASSUME NEW v PROVE ModeOk(NoForm, v) /\ NoForm.is = "normal"
BY DEF ModeOk, NoForm, IsMode

(* A key on a view, with the mode as it was and no form open.                 *)
LEMMA ViewChanges ==
    ASSUME ScreensInv, UNCHANGED <<loaded, opened, shared, job>>, presses' \in Nat,
           view' \in Views, view'.home => RowFits(loaded, opened, view'),
           mode' = NoForm \/ (mode' = mode /\ mode.is = "normal")
    PROVE  ScreensInv'
<1>1. ModeOk(mode', view') /\ mode'.is # "form"
  BY NoFormIsOk DEF ScreensInv, ModeOk
<1>2. QED BY <1>1, KeyStep

LEMMA PagedView ==
    ASSUME ScreensInv, NEW p \in Pages, Paged(p)
    PROVE  view' \in Views /\ ~view'.home
<1>1. view \in Views /\ IsConfig(loaded) BY DEF ScreensInv, ViewOk
<1> DEFINE v == set_page(view, p)
<1>2. v \in Views /\ ~v.home BY <1>1, TurnedView
<1>3. Alike(v, clamp_selection(loaded, v)) BY <1>1, <1>2, ClampedView
<1>4. view' = clamp_selection(loaded, v) BY DEF Paged
<1> HIDE DEF v
<1>5. QED BY <1>2, <1>3, <1>4 DEF Alike, Views

LEMMA HomeKeys ==
    ASSUME ScreensInv, HomeMove \/ HomeEnter \/ HomeBack \/ HomeForm \/ HomeNew
    PROVE  ScreensInv'
<1>0. /\ AtHome /\ UNCHANGED <<loaded, opened, shared, job>>
  BY DEF HomeMove, HomeEnter, HomeBack, HomeForm, HomeNew, Reading, world
<1>1. presses' \in Nat /\ mode.is = "normal" /\ view.home BY <1>0, Pressed DEF AtHome
<1>2. view \in Views BY DEF ScreensInv, ViewOk
<1>3. CASE HomeMove
  <2>1. PICK n \in 1..Len(home_rows(loaded, opened, view)) : view' = [view EXCEPT !.row = n]
    BY <1>3 DEF HomeMove
  <2>2. n \in Nat /\ n <= Len(home_rows(loaded, opened, view)) BY <1>2, HomeRows DEF IsList
  <2>3. view' \in Views /\ RowFits(loaded, opened, view') BY <1>2, <2>1, <2>2, MarkedView
  <2>4. QED BY <1>0, <1>1, <1>3, <2>3, ViewChanges DEF HomeMove
<1>4. ASSUME NEW category \in {"none", "root", "sub"},
             view' = [view EXCEPT !.category = category, !.row = 1], mode' = mode
      PROVE  ScreensInv'
  <2> DEFINE v == [view EXCEPT !.category = category]
  <2>1. v \in Views BY <1>2 DEF Views
  <2>2. view' = [v EXCEPT !.row = 1] BY <1>2, <1>4 DEF Views
  <2> HIDE DEF v
  <2>3. view' \in Views /\ RowFits(loaded, opened, view') BY <2>1, <2>2, MarkedView
  <2>4. QED BY <1>0, <1>1, <1>4, <2>3, ViewChanges
<1>5. CASE HomeEnter
  <2>1. CASE IsCategory(SelectedRow)
    <3>1. SelectedRow \in {"none", "root", "sub"} BY <2>1 DEF IsCategory
    <3>2. view' = [view EXCEPT !.category = SelectedRow, !.row = 1] /\ mode' = mode BY <1>5, <2>1 DEF HomeEnter
    <3> DEFINE r == SelectedRow
    <3> HIDE DEF r
    <3>3. QED BY <1>4, <3>1, <3>2
  <2>2. CASE ~IsCategory(SelectedRow) /\ IsEntry(SelectedRow)
    BY <1>0, <1>1, <1>5, <2>2, FormOpens DEF HomeEnter
  <2>3. CASE ~IsCategory(SelectedRow) /\ ~IsEntry(SelectedRow)
    <3>1. run_home_action(SelectedRow) BY <1>5, <2>3 DEF HomeEnter
    <3>2. CASE SelectedRow = "action:grants"
      <4>1. mode' = mode /\ Paged("Grants") BY <3>1, <3>2 DEF run_home_action
      <4>2. view' \in Views /\ ~view'.home BY <4>1, PagedView DEF Pages
      <4>3. QED BY <1>0, <1>1, <4>1, <4>2, ViewChanges
    <3>3. CASE SelectedRow # "action:grants"
      <4>1. view' = view /\ \E kind : show_form(kind, NoTarget) BY <3>1, <3>3 DEF run_home_action
      <4>2. QED BY <1>0, <1>1, <4>1, FormOpens
    <3>4. QED BY <3>2, <3>3
  <2>4. QED BY <2>1, <2>2, <2>3
<1>6. CASE HomeBack
  <2> DEFINE category == IF opened.open /\ view.category = "sub" THEN "root" ELSE "none"
  <2>1. view' = [view EXCEPT !.category = category, !.row = 1] /\ mode' = mode BY <1>6 DEF HomeBack
  <2>2. category \in {"none", "root", "sub"} OBVIOUS
  <2> HIDE DEF category
  <2>3. QED BY <1>4, <2>1, <2>2
<1>7. CASE HomeForm
  <2>1. view' = view /\ \E kind, target : show_form(kind, target) BY <1>7 DEF HomeForm
  <2>2. QED BY <1>0, <1>1, <2>1, FormOpens
<1>8. CASE HomeNew
  <2>1. view' = view /\ \E kind, target : show_form(kind, target) BY <1>8 DEF HomeNew
  <2>2. QED BY <1>0, <1>1, <2>1, FormOpens
<1>9. QED BY <1>3, <1>5, <1>6, <1>7, <1>8

LEMMA PageKeys ==
    ASSUME ScreensInv, PageMove \/ CommandForm \/ Turn \/ Cancel
    PROVE  ScreensInv'
<1>0. Press /\ UNCHANGED <<loaded, opened, shared, job>>
  BY DEF PageMove, CommandForm, Turn, Cancel, OnPages, AtCommand, Reading, world
<1>1. presses' \in Nat BY <1>0, Pressed
<1>2. view \in Views /\ IsConfig(loaded) /\ (view.home => RowFits(loaded, opened, view))
  BY DEF ScreensInv, ViewOk
<1>3. CASE PageMove
  <2>1. PICK n \in 1..Len(visible_rows(loaded, view, view.page)) :
           view' = [view EXCEPT !.selected[view.page] = n]
    BY <1>3 DEF PageMove
  <2>2. view.page \in Pages /\ ~view.home /\ mode.is = "normal" /\ mode' = mode
    BY <1>3 DEF PageMove, OnPages
  <2>3. n \in Nat OBVIOUS
  <2>4. view' \in Views /\ view'.home = view.home BY <1>2, <2>1, <2>3 DEF Views
  <2>5. QED BY <1>0, <1>1, <2>2, <2>4, ViewChanges
<1>4. CASE CommandForm
  <2>1. view' = view /\ \E kind, target : show_form(kind, target) BY <1>4 DEF CommandForm
  <2>2. QED BY <1>0, <1>1, <2>1, FormOpens
<1>5. CASE Turn
  <2>1. mode.is = "normal" /\ mode' = mode BY <1>5 DEF Turn
  <2>2. CASE view' = Drawn(loaded, opened, [view EXCEPT !.home = ~@])
    <3> DEFINE v == [view EXCEPT !.home = ~@]
    <3>1. v \in Views BY <1>2 DEF Views
    <3>2. view' = Drawn(loaded, opened, v) BY <2>2
    <3> HIDE DEF v
    <3>3. /\ view' \in Views /\ view' = [v EXCEPT !.row = view'.row]
          /\ v.home => RowFits(loaded, opened, view')
      BY <3>1, <3>2, DrawnView
    <3>4. view'.home = v.home BY <3>1, <3>3 DEF Views
    <3>5. QED BY <1>0, <1>1, <2>1, <3>3, <3>4, ViewChanges
  <2>3. CASE \E p \in Pages : Paged(p)
    <3>1. view' \in Views /\ ~view'.home BY <2>3, PagedView
    <3>2. QED BY <1>0, <1>1, <2>1, <3>1, ViewChanges
  <2>4. QED BY <1>5, <2>2, <2>3 DEF Turn
<1>6. CASE Cancel BY <1>0, <1>1, <1>2, <1>6, ViewChanges DEF Cancel
<1>7. QED BY <1>3, <1>4, <1>5, <1>6

(* A filter is typed, or the one there was comes back.                        *)
Searched(query, key, was) ==
    IF view.home
      THEN LET v == [view EXCEPT !.query = query] IN
           [v EXCEPT !.row = Position(home_rows(loaded, opened, v), key, was)]
      ELSE Restored(loaded, [view EXCEPT !.filter[view.page] = query], view.page, key)

LEMMA SearchedView ==
    ASSUME ScreensInv, NEW query \in Queries, view.home => query # "active", NEW key,
           NEW was \in Nat, NEW w, w = Searched(query, key, was)
    PROVE  w \in Views /\ w.home = view.home /\ (w.home => RowFits(loaded, opened, w))
<1>0. view \in Views /\ IsConfig(loaded) BY DEF ScreensInv, ViewOk
<1>1. CASE view.home
  <2> DEFINE v == [view EXCEPT !.query = query]
             n == Position(home_rows(loaded, opened, v), key, was)
  <2>1. v \in Views /\ v.home = view.home BY <1>0, <1>1 DEF Views
  <2>2. w = [v EXCEPT !.row = n] BY <1>1 DEF Searched
  <2> HIDE DEF v
  <2>3. IsList(home_rows(loaded, opened, v)) BY <2>1, HomeRows
  <2>4. n \in Nat /\ (n \in 1..Len(home_rows(loaded, opened, v)) \/ n = 1) BY <2>3, FoundAgain
  <2> HIDE DEF n
  <2>5. n = 1 \/ n <= Len(home_rows(loaded, opened, v)) BY <2>3, <2>4 DEF IsList
  <2>6. v \in Views BY <2>1
  <2>7. n \in Nat BY <2>4
  <2>8. RowFits(loaded, opened, w) BY <2>2, <2>5, <2>6, <2>7, MarkedView, Zenon
  <2>9. w \in Views /\ w.home = v.home BY <2>2, <2>6, <2>7 DEF Views
  <2>10. QED BY <2>1, <2>8, <2>9
<1>2. CASE ~view.home
  <2> DEFINE v == [view EXCEPT !.filter[view.page] = query]
  <2>1. v \in Views /\ v.home = view.home /\ view.page \in Pages \cup {"WebDav"}
    BY <1>0, <1>2 DEF Views
  <2>2. w = Restored(loaded, v, view.page, key) BY <1>2 DEF Searched
  <2> HIDE DEF v
  <2>3. Alike(v, w) BY <1>0, <2>1, <2>2, RestoredView
  <2>4. w \in Views /\ w.home = v.home BY <2>1, <2>3 DEF Alike, Views
  <2>5. QED BY <1>2, <2>1, <2>4
<1>3. QED BY <1>1, <1>2

LEMMA FilterKeys ==
    ASSUME ScreensInv, BeginFilter \/ ClearFilter \/ TypeFilter \/ LeaveFilter
    PROVE  ScreensInv'
<1>0. Press /\ UNCHANGED <<loaded, opened, shared, job>>
  BY DEF BeginFilter, ClearFilter, TypeFilter, LeaveFilter, Reading, world
<1>1. presses' \in Nat BY <1>0, Pressed
<1>2. /\ view \in Views /\ IsConfig(loaded) /\ (view.home => RowFits(loaded, opened, view))
      /\ ModeOk(mode, view)
  BY DEF ScreensInv, ViewOk
<1>3. CASE BeginFilter
  <2> DEFINE id == IF view.home THEN SelectedRow ELSE selection_key(loaded, view, view.page)
             m == [NoForm EXCEPT !.is = "filter", !.kind = Current, !.target.id = id]
  <2>1. Current \in Queries /\ (view.home => Current # "active")
    BY <1>2, <1>3 DEF BeginFilter, Current, Views
  <2>2. view' = view /\ mode' = m BY <1>3 DEF BeginFilter
  <2>3. IsMode(m) /\ m.is = "filter" /\ m.kind = Current
    <3> DEFINE t == [NoTarget EXCEPT !.id = id]
               now == Current
    <3> HIDE DEF id, now
    <3>1. m = [NoForm EXCEPT !.is = "filter", !.kind = now, !.target = t] BY DEF NoForm, now
    <3> HIDE DEF t
    <3> DEFINE a == [NoForm EXCEPT !.is = "filter"]
               b == [a EXCEPT !.kind = now]
    <3>2. NoForm \in [is : {"normal"}, kind : {"none"}, target : {NoTarget}, shown : {NoForm.shown}, left : {FALSE}]
      BY DEF NoForm
    <3>3. a \in [is : {"filter"}, kind : {"none"}, target : {NoTarget}, shown : {NoForm.shown}, left : {FALSE}]
      BY <3>2
    <3>4. [a EXCEPT !.kind = now, !.target = t] = m BY <3>1, <3>2
    <3> HIDE DEF a
    <3>5. b \in [is : {"filter"}, kind : {now}, target : {NoTarget}, shown : {NoForm.shown}, left : {FALSE}]
      BY <3>3
    <3>6. [b EXCEPT !.target = t] = m BY <3>3, <3>4
    <3> HIDE DEF b, m
    <3>7. m \in [is : {"filter"}, kind : {now}, target : {t}, shown : {NoForm.shown}, left : {FALSE}]
      BY <3>5, <3>6
    <3>8. QED BY <3>7 DEF IsMode, now
  <2> HIDE DEF m
  <2>4. ModeOk(m, view) BY <2>1, <2>3 DEF ModeOk
  <2>5. mode'.is # "form" BY <2>2, <2>3
  <2>6. QED BY <1>0, <1>1, <1>2, <2>2, <2>4, <2>5, KeyStep
<1>4. view.row \in Nat /\ 1 \in Nat BY <1>2 DEF Views
<1>5. ASSUME NEW query \in Queries, view.home => query # "active", view' = Filtered(query)
      PROVE  view' \in Views /\ view'.home = view.home /\ (view'.home => RowFits(loaded, opened, view'))
  <2> DEFINE key == IF view.home THEN SelectedRow ELSE selection_key(loaded, view, view.page)
  <2>1. view' = Searched(query, key, view.row) BY <1>2, <1>5 DEF Filtered, Searched, Views
  <2> HIDE DEF key
  <2>2. QED BY <1>4, <1>5, <2>1, SearchedView
<1>6. CASE ClearFilter
  <2>1. mode.is = "normal" /\ mode' = mode BY <1>6 DEF ClearFilter
  <2>2. CASE view.home
    <3> DEFINE v == [view EXCEPT !.query = ""]
    <3>1. v \in Views BY <1>2 DEF Views, Queries
    <3>2. view' = [v EXCEPT !.row = 1] BY <1>2, <1>6, <2>2 DEF ClearFilter, Views
    <3> HIDE DEF v
    <3>3. view' \in Views /\ RowFits(loaded, opened, view') BY <3>1, <3>2, MarkedView
    <3>4. QED BY <1>0, <1>1, <2>1, <3>3, ViewChanges
  <2>3. CASE ~view.home
    <3>1. view' = Filtered("") BY <1>6, <2>3 DEF ClearFilter
    <3>2. "" \in Queries BY DEF Queries
    <3>3. QED BY <1>0, <1>1, <1>5, <2>1, <2>3, <3>1, <3>2, ViewChanges
  <2>4. QED BY <2>2, <2>3
<1>7. CASE TypeFilter
  <2>1. PICK query \in Queries : (view.home => query # "active") /\ view' = Filtered(query)
    BY <1>7 DEF TypeFilter
  <2>2. mode.is = "filter" /\ mode' \in {mode, NoForm} BY <1>7 DEF TypeFilter
  <2>3. view' \in Views /\ view'.home = view.home /\ (view'.home => RowFits(loaded, opened, view'))
    BY <1>5, <2>1
  <2>4. ModeOk(mode, view') BY <1>2, <2>2, <2>3 DEF ModeOk
  <2>5. ModeOk(mode', view') /\ mode'.is # "form" BY <2>2, <2>4, NoFormIsOk
  <2>6. QED BY <1>0, <1>1, <2>3, <2>5, KeyStep
<1>8. CASE LeaveFilter
  <2>1. mode.is = "filter" /\ mode' = NoForm BY <1>8 DEF LeaveFilter
  <2> DEFINE query == mode.kind
             key == mode.target.id
  <2>2. query \in Queries /\ (view.home => query # "active") BY <1>2, <2>1 DEF ModeOk
  <2>3. view' = Searched(query, key, 1) BY <1>8 DEF LeaveFilter, Searched
  <2> HIDE DEF query, key
  <2>4. QED BY <1>0, <1>1, <1>4, <2>1, <2>2, <2>3, SearchedView, ViewChanges
<1>9. QED BY <1>3, <1>6, <1>7, <1>8

LEMMA DrawnStep ==
    ASSUME NEW c, NEW l, NEW v \in Views, NEW w, w = Drawn(c, l, v)
    PROVE  /\ w \in Views /\ w.home = v.home /\ w.category = v.category
           /\ w.home => RowFits(c, l, w)
<1>1. w \in Views /\ w = [v EXCEPT !.row = w.row] /\ (v.home => RowFits(c, l, w)) BY DrawnView
<1>2. w.home = v.home /\ w.category = v.category BY <1>1 DEF Views
<1>3. QED BY <1>1, <1>2

LEMMA SubmitStep == ASSUME ScreensInv, SubmitForm PROVE ScreensInv'
<1>0. /\ view \in Views /\ (view.home => RowFits(loaded, opened, view))
      /\ ModeOk(mode, view) /\ JobOk /\ IsConfig(loaded) /\ IsConfig(shared)
  BY DEF ScreensInv, ViewOk
<1>1. presses' \in Nat /\ mode.is = "form" /\ UNCHANGED <<loaded, shared>>
  BY Pressed DEF SubmitForm, world
<1>2. FormOk(mode, view) BY <1>0, <1>1 DEF ModeOk
<1>3. CASE ~(~Refused /\ Quiet)
  <2>1. UNCHANGED <<job, opened, view>> /\ mode' \in {mode, NoForm} BY <1>3 DEF SubmitForm
  <2>2. ModeOk(mode', view) BY <1>0, <2>1, NoFormIsOk
  <2>3. job.kind \in LibraryJobs /\ mode'.is = "form" /\ view.home => mode'.shown.category = "hidden"
    BY <1>0, <2>1, NoFormIsOk DEF JobOk
  <2>4. QED BY <1>0, <1>1, <2>1, <2>2, <2>3, KeyStep
<1>4. CASE ~Refused /\ Quiet
  <2> DEFINE kind == mode.kind
             shut == drops_library(kind) /\ kind # "inspect"
  <2>1. mode' = NoForm /\ Begun(kind, TargetOf, CategoryOf) BY <1>4 DEF SubmitForm
  <2>2. /\ IsJob(job') /\ job'.kind = kind /\ job'.target = mode.target /\ job'.category = CategoryOf
        /\ job'.shown = mode.shown /\ job'.left = mode.left /\ job'.brings = "none"
    BY <2>1 DEF Begun, IsJob, TargetOf
  <2>3. IF shut THEN opened' = NoLibrary /\ view' = Drawn(loaded, NoLibrary, view)
        ELSE UNCHANGED <<opened, view>>
    BY <2>1 DEF Begun
  <2>4. kind \in LibraryJobs => shut BY DEF LibraryJobs, drops_library
  <2> HIDE DEF shut, kind
  <2>5. view' \in Views /\ (view'.home => RowFits(loaded, opened', view'))
    <3>1. CASE shut BY <1>0, <2>3, <3>1, DrawnStep
    <3>2. CASE ~shut BY <1>0, <2>3, <3>2
    <3>3. QED BY <3>1, <3>2
  <2>6. ViewOk' BY <1>1, <2>5 DEF ViewOk
  <2>7. ModeOk(mode, view)' /\ mode'.is # "form" BY <2>1, NoFormIsOk
  <2>8. JobOk'
    <3>1. job'.kind \in LibraryJobs => ~opened'.open BY <2>2, <2>3, <2>4 DEF NoLibrary
    <3>2. QED BY <2>2, <2>7, <3>1 DEF JobOk
  <2>9. ActedOnWhatWasShown'
    <3>1. job'.target = job'.shown.row BY <1>2, <2>2 DEF FormOk
    <3>2. ASSUME kind \in {"connect", "key"}
          PROVE  \/ CategoryOf = mode.shown.category
                 \/ mode.left /\ CategoryOf = "none"
                 \/ mode.shown.category = "hidden"
      <4>1. CategoryOf = IF view.home THEN view.category ELSE "none" BY <3>2 DEF CategoryOf, kind
      <4>2. QED BY <1>2, <4>1 DEF FormOk
    <3>3. QED BY <2>2, <3>1, <3>2 DEF ActedOnWhatWasShown
  <2>10. QED BY <1>0, <1>1, <2>6, <2>7, <2>8, <2>9 DEF ScreensInv
<1>5. QED BY <1>3, <1>4

(* The view is drawn again, of what was read before or is read now.           *)
LEMMA RedrawnStep ==
    ASSUME ScreensInv, NEW v \in Views, v.home = view.home, v.category = view.category,
           view' = Drawn(loaded', opened', v), IsConfig(loaded'), opened' \in {opened, NoLibrary},
           UNCHANGED <<shared, mode, job, presses>>
    PROVE  ScreensInv'
<1>1. /\ view' \in Views /\ view'.home = v.home /\ view'.category = v.category
      /\ view'.home => RowFits(loaded', opened', view')
  BY DrawnStep
<1>2. ViewOk' BY <1>1 DEF ViewOk
<1>3. ModeOk(mode, view)' BY <1>1 DEF ScreensInv, ModeOk, FormOk
<1>4. opened'.open => opened.open BY DEF NoLibrary
<1>5. JobOk' BY <1>1, <1>4 DEF ScreensInv, JobOk
<1>6. ActedOnWhatWasShown' BY DEF ScreensInv, ActedOnWhatWasShown
<1>7. QED BY <1>2, <1>3, <1>5, <1>6 DEF ScreensInv

LEMMA ReadAgainSteps == ASSUME ScreensInv, Reload \/ LibraryExpires PROVE ScreensInv'
<1>0. view \in Views /\ IsConfig(loaded) /\ IsConfig(shared) BY DEF ScreensInv, ViewOk
<1>1. CASE Reload
  <2> DEFINE v == Reloaded(view)
  <2>1. Alike(view, v) BY <1>0, ReloadedView
  <2>2. v \in Views /\ v.home = view.home /\ v.category = view.category BY <1>0, <2>1 DEF Alike, Views
  <2>3. view' = Drawn(loaded', opened', v) /\ IsConfig(loaded')
    BY <1>0, <1>1, RereadConfig DEF Reload
  <2>4. UNCHANGED <<opened, shared, mode, job, presses>> BY <1>1 DEF Reload, world
  <2> HIDE DEF v
  <2>5. QED BY <2>2, <2>3, <2>4, RedrawnStep
<1>2. CASE LibraryExpires
  <2>1. /\ view' = Drawn(loaded', opened', view) /\ loaded' = loaded /\ opened' = NoLibrary
        /\ UNCHANGED <<shared, mode, job, presses>>
    BY <1>2 DEF LibraryExpires, world
  <2>2. QED BY <1>0, <2>1, RedrawnStep
<1>3. QED BY <1>1, <1>2

(* What the task and the rest of the world do touches neither view nor mode.  *)
LEMMA WorldChanges ==
    ASSUME ScreensInv, UNCHANGED <<loaded, opened, view, mode, presses>>, IsConfig(shared'),
           \/ job' = job
           \/ /\ job # NoJob /\ IsJob(job') /\ job'.kind = job.kind
              /\ job'.target = job.target /\ job'.category = job.category
              /\ job'.shown = job.shown /\ job'.left = job.left
              /\ job'.brings = "library" => job.kind \in LibraryJobs
    PROVE  ScreensInv'
<1>1. ViewOk' BY DEF ScreensInv, ViewOk
<1>2. ModeOk(mode, view)' BY DEF ScreensInv
<1>3. JobOk' BY DEF ScreensInv, JobOk
<1>4. ActedOnWhatWasShown' BY DEF ScreensInv, ActedOnWhatWasShown
<1>5. QED BY <1>1, <1>2, <1>3, <1>4 DEF ScreensInv

JobGoesOn ==
    /\ IsJob(job') /\ job'.kind = job.kind
    /\ job'.target = job.target /\ job'.category = job.category
    /\ job'.shown = job.shown /\ job'.left = job.left

LEMMA JobMoved ==
    ASSUME IsJob(job)
    PROVE  /\ \A word : Done(word) => JobGoesOn /\ job'.brings = word
           /\ \A g : Made(g) => JobGoesOn /\ job'.brings = "grant"
<1>1. job \in [kind : {job.kind}, target : {job.target}, category : {job.category}, shown : {job.shown},
               left : {job.left}, brings : {job.brings}, made : {job.made}]
  BY DEF IsJob
<1>2. ASSUME NEW word, Done(word) PROVE JobGoesOn /\ job'.brings = word
  <2>1. job' \in [kind : {job.kind}, target : {job.target}, category : {job.category}, shown : {job.shown},
                  left : {job.left}, brings : {word}, made : {job.made}]
    BY <1>1, <1>2 DEF Done
  <2>2. QED BY <2>1 DEF JobGoesOn, IsJob
<1>3. ASSUME NEW g, Made(g) PROVE JobGoesOn /\ job'.brings = "grant"
  <2> DEFINE j == [job EXCEPT !.brings = "grant"]
  <2>1. j \in [kind : {job.kind}, target : {job.target}, category : {job.category}, shown : {job.shown},
               left : {job.left}, brings : {"grant"}, made : {job.made}]
    BY <1>1
  <2>2. job' = [j EXCEPT !.made = g] BY <1>1, <1>3 DEF Made
  <2> HIDE DEF j
  <2>3. job' \in [kind : {job.kind}, target : {job.target}, category : {job.category}, shown : {job.shown},
                  left : {job.left}, brings : {"grant"}, made : {g}]
    BY <2>1, <2>2
  <2>4. QED BY <2>3 DEF JobGoesOn, IsJob
<1>4. QED BY <1>2, <1>3

LEMMA JobSteps == ASSUME ScreensInv, JobRuns PROVE ScreensInv'
<1>0. IsJob(job) /\ IsConfig(shared) /\ job # NoJob
  BY DEF ScreensInv, JobOk, JobRuns, NoJob
<1>1. UNCHANGED <<loaded, opened, view, mode, presses>> BY DEF JobRuns
<1>2. /\ \A word : Done(word) => JobGoesOn /\ job'.brings = word
      /\ \A g : Made(g) => JobGoesOn /\ job'.brings = "grant"
  BY <1>0, JobMoved
<1>3. JobGoesOn /\ (job'.brings = "library" => job.kind \in LibraryJobs)
  <2>1. \/ Done("error")
        \/ Done("library") /\ job.kind \in LibraryJobs
        \/ \E g : Made(g)
        \/ Done("message")
        \/ Done(IF job.kind \in {"login", "probe"} THEN job.kind ELSE "message")
    BY DEF JobRuns, LibraryJobs
  <2>2. QED BY <1>2, <2>1
<1>4. Amended(shared, shared')
  <2>1. \/ shared' = shared
        \/ shared' = WithoutGrants(shared, job.target.id)
        \/ \E n : shared' = [shared EXCEPT !.conns = @ \cup {n}]
        \/ \E g : shared' = [shared EXCEPT !.grants = Append(@, g)]
        \/ \E g : shared' = [is |-> TRUE, conns |-> shared.conns \cup {GrantOn[g]},
                           grants |-> Append(shared.grants, g)]
        \/ shared' = [shared EXCEPT !.grants = Remove(@, job.target.id)]
    BY DEF JobRuns
  <2>2. QED BY <2>1 DEF Amended
<1>5. IsConfig(shared') BY <1>0, <1>4, AmendedConfig
<1>6. QED BY <1>0, <1>1, <1>3, <1>5, WorldChanges DEF JobGoesOn

LEMMA OtherSteps == ASSUME ScreensInv, GrantExpires \/ OtherProcess PROVE ScreensInv'
<1>0. IsConfig(shared) /\ UNCHANGED <<loaded, opened, view, mode, presses, job>>
  BY DEF ScreensInv, GrantExpires, OtherProcess
<1>1. \/ shared' = shared
      \/ \E n : shared' = WithoutGrants(shared, n)
      \/ \E n : shared' = [shared EXCEPT !.conns = @ \cup {n}]
      \/ \E g : shared' = [shared EXCEPT !.grants = Remove(@, g)]
      \/ shared' = [shared EXCEPT !.is = ~@]
  BY DEF GrantExpires, OtherProcess
<1>2. Amended(shared, shared') BY <1>1 DEF Amended
<1>3. IsConfig(shared') BY <1>0, <1>2, AmendedConfig
<1>4. QED BY <1>0, <1>3, WorldChanges

LEMMA CheckStep == ASSUME ScreensInv, Check PROVE ScreensInv'
<1>0. UNCHANGED <<loaded, opened, shared, view, mode>> /\ presses' \in Nat
  BY Pressed DEF Check, AtCommand, Reading, world
<1> DEFINE target == [what |-> "grant", id |-> selected_grant]
           inView == [NoForm.shown EXCEPT !.row = target]
           j == [NoJob EXCEPT !.kind = "probe"]
           k == [j EXCEPT !.target = target]
<1>1. job' = [NoJob EXCEPT !.kind = "probe", !.target = target, !.shown = inView]
  BY DEF Check, NoJob
<1>2. inView.row = target BY DEF NoForm
<1> HIDE DEF target, inView
<1>3. NoJob \in [kind : {"none"}, target : {NoTarget}, category : {"none"}, shown : {NoForm.shown},
                 left : {FALSE}, brings : {"none"}, made : {"none"}]
  BY DEF NoJob
<1>4. j \in [kind : {"probe"}, target : {NoTarget}, category : {"none"}, shown : {NoForm.shown},
             left : {FALSE}, brings : {"none"}, made : {"none"}]
  BY <1>3
<1>5. job' = [[j EXCEPT !.target = target] EXCEPT !.shown = inView] BY <1>1, <1>3
<1> HIDE DEF j
<1>6. k \in [kind : {"probe"}, target : {target}, category : {"none"}, shown : {NoForm.shown},
             left : {FALSE}, brings : {"none"}, made : {"none"}]
  BY <1>4
<1>7. job' = [k EXCEPT !.shown = inView] BY <1>5
<1> HIDE DEF k
<1>8. job' \in [kind : {"probe"}, target : {target}, category : {"none"}, shown : {inView},
                left : {FALSE}, brings : {"none"}, made : {"none"}]
  BY <1>6, <1>7
<1>9. IsJob(job') /\ job'.kind = "probe" /\ job'.brings = "none" /\ job'.target = job'.shown.row
  BY <1>2, <1>8 DEF IsJob
<1>10. JobOk' BY <1>9 DEF JobOk, LibraryJobs
<1>11. ActedOnWhatWasShown' BY <1>9 DEF ActedOnWhatWasShown
<1>12. ViewOk' BY <1>0 DEF ScreensInv, ViewOk
<1>13. ModeOk(mode, view)' BY <1>0 DEF ScreensInv
<1>14. QED BY <1>0, <1>10, <1>11, <1>12, <1>13 DEF ScreensInv

(* A task's result is shown: no task is left.                                 *)
LEMMA ResultShown ==
    ASSUME ScreensInv, IsConfig(loaded'), view' \in Views,
           view'.home => RowFits(loaded', opened', view'), ModeOk(mode', view'),
           job' = NoJob, UNCHANGED <<presses, shared>>
    PROVE  ScreensInv'
<1>1. JobOk' BY DEF JobOk, NoJob, IsJob, LibraryJobs
<1>2. ActedOnWhatWasShown' BY DEF ActedOnWhatWasShown
<1>3. ViewOk' BY DEF ViewOk
<1>4. ModeOk(mode, view)' OBVIOUS
<1>5. QED BY <1>1, <1>2, <1>3, <1>4 DEF ScreensInv

LEMMA PopupIsOk == ASSUME NEW v PROVE ModeOk([NoForm EXCEPT !.is = "popup"], v)
<1> DEFINE m == [NoForm EXCEPT !.is = "popup"]
<1>1. m \in [is : {"popup"}, kind : {"none"}, target : {NoTarget}, shown : {NoForm.shown}, left : {FALSE}]
  BY DEF NoForm
<1> HIDE DEF m
<1>2. ModeOk(m, v) BY <1>1 DEF ModeOk, IsMode
<1>3. QED BY <1>2 DEF m

LEMMA TurnedIsOk ==
    ASSUME ModeOk(mode, view), NEW v, ~v.home
    PROVE  ModeOk(Turned, v)
<1>1. CASE mode.is = "filter" BY <1>1, NoFormIsOk DEF Turned
<1>2. CASE mode.is = "form"
  <2>1. mode \in [is : {mode.is}, kind : {mode.kind}, target : {mode.target}, shown : {mode.shown},
                  left : {mode.left}]
    BY DEF ModeOk, IsMode
  <2>2. Turned = [mode EXCEPT !.left = TRUE] BY <1>2 DEF Turned
  <2>3. Turned \in [is : {mode.is}, kind : {mode.kind}, target : {mode.target}, shown : {mode.shown},
                    left : {TRUE}]
    BY <2>1, <2>2
  <2>4. mode.target = mode.shown.row BY <1>2 DEF ModeOk, FormOk
  <2>5. QED BY <1>2, <2>3, <2>4 DEF ModeOk, IsMode, FormOk
<1>3. CASE mode.is \notin {"filter", "form"} BY <1>3 DEF Turned, ModeOk
<1>4. QED BY <1>1, <1>2, <1>3

LEMMA ApplyStep == ASSUME ScreensInv, ApplyResult PROVE ScreensInv'
<1> DEFINE v == Reloaded(view)
           c == Reread
<1>0. /\ view \in Views /\ (view.home => RowFits(loaded, opened, view))
      /\ ModeOk(mode, view) /\ JobOk /\ IsConfig(loaded) /\ IsConfig(shared)
  BY DEF ScreensInv, ViewOk
<1>1. /\ v \in Views /\ v.home = view.home /\ v.category = view.category /\ IsConfig(c)
  <2>1. Alike(view, v) BY <1>0, ReloadedView
  <2> HIDE DEF v
  <2>2. QED BY <1>0, <2>1, RereadConfig DEF Alike, Views
<1>2. loaded' = c /\ job' = NoJob /\ UNCHANGED <<presses, shared>> BY DEF ApplyResult, world
<1>3. CASE job.brings = "library"
  <2>1. view' = HomeRestored(v) /\ opened' = ReadVault /\ mode' = mode BY <1>3 DEF ApplyResult
  <2>2. ~opened.open /\ (mode.is = "form" /\ view.home => mode.shown.category = "hidden")
    BY <1>0, <1>3 DEF JobOk
  <2>3. /\ view' \in Views /\ view' = [v EXCEPT !.category = view'.category, !.row = view'.row]
        /\ RowFits(loaded', opened', view')
    BY <1>1, <1>2, <2>1, HomeRestoredView
  <2> HIDE DEF v
  <2>4. view'.home = view.home BY <1>1, <2>3 DEF Views
  <2>5. ModeOk(mode, view') BY <1>0, <2>2, <2>4 DEF ModeOk, FormOk
  <2>6. QED BY <1>1, <1>2, <2>1, <2>3, <2>5, ResultShown
<1>4. CASE job.brings = "grant"
  <2> DEFINE w == set_page(v, "Grants")
             x == [w EXCEPT !.filter["Grants"] = ""]
             y == Restored(c, x, "Grants", job.made)
             z == clamp_selection(c, y)
  <2>1. w \in Views /\ ~w.home BY <1>1, TurnedView DEF Pages
  <2>2. view' = z /\ mode' \in {Turned, [NoForm EXCEPT !.is = "popup"]} BY <1>4 DEF ApplyResult
  <2> HIDE DEF w
  <2>3. x \in Views /\ ~x.home BY <2>1 DEF Views, Pages, Queries
  <2> HIDE DEF x
  <2>4. "Grants" \in Pages BY DEF Pages
  <2>5. Alike(x, y) BY <1>1, <2>3, <2>4, RestoredView
  <2> HIDE DEF y
  <2>6. y \in Views /\ ~y.home BY <2>3, <2>5 DEF Alike, Views
  <2>7. Alike(y, z) BY <1>1, <2>6, ClampedView
  <2> HIDE DEF z
  <2>8. z \in Views /\ ~z.home BY <2>6, <2>7 DEF Alike, Views
  <2>9. ModeOk(mode', z) BY <1>0, <2>2, <2>8, TurnedIsOk, PopupIsOk
  <2>10. QED BY <1>1, <1>2, <2>2, <2>8, <2>9, ResultShown
<1>5. CASE job.brings = "login"
  <2> DEFINE w == set_page(v, "WebDav")
             z == clamp_selection(c, w)
  <2>1. w \in Views /\ ~w.home BY <1>1, TurnedView
  <2>2. view' = z /\ mode' = Turned BY <1>5 DEF ApplyResult
  <2> HIDE DEF w
  <2>3. Alike(w, z) BY <1>1, <2>1, ClampedView
  <2> HIDE DEF z
  <2>4. z \in Views /\ ~z.home BY <2>1, <2>3 DEF Alike, Views
  <2>5. ModeOk(mode', z) BY <1>0, <2>2, <2>4, TurnedIsOk
  <2>6. QED BY <1>1, <1>2, <2>2, <2>4, <2>5, ResultShown
<1>6. CASE job.brings \notin {"library", "grant", "login"}
  <2>1. view' = Drawn(c, opened, v) /\ opened' = opened
        /\ mode' \in {mode, [NoForm EXCEPT !.is = "popup"]}
    BY <1>6 DEF ApplyResult
  <2>2. /\ view' \in Views /\ view'.home = view.home /\ view'.category = view.category
        /\ view'.home => RowFits(loaded', opened', view')
    <3> HIDE DEF v, c
    <3>1. QED BY <1>1, <1>2, <2>1, DrawnStep
  <2>3. ModeOk(mode, view') BY <1>0, <2>2 DEF ModeOk, FormOk
  <2>4. ModeOk(mode', view') BY <2>1, <2>3, PopupIsOk
  <2>5. QED BY <1>1, <1>2, <2>2, <2>4, ResultShown
<1>7. QED BY <1>3, <1>4, <1>5, <1>6

LEMMA ScreensStep == ASSUME ScreensInv, [ScreensNext]_svars PROVE ScreensInv'
<1>1. CASE UNCHANGED svars
  <2>1. UNCHANGED <<shared, loaded, opened, view, mode, job, presses>> BY <1>1 DEF svars
  <2>2. ViewOk' BY <2>1 DEF ScreensInv, ViewOk
  <2>3. ModeOk(mode, view)' BY <2>1 DEF ScreensInv
  <2>4. JobOk' BY <2>1 DEF ScreensInv, JobOk
  <2>5. ActedOnWhatWasShown' BY <2>1 DEF ScreensInv, ActedOnWhatWasShown
  <2>6. QED BY <2>1, <2>2, <2>3, <2>4, <2>5 DEF ScreensInv
<1>2. CASE ScreensNext
  BY <1>2, HomeKeys, PageKeys, CheckStep, FilterKeys, SubmitStep, JobSteps, ReadAgainSteps, ApplyStep,
     OtherSteps
  DEF ScreensNext
<1>3. QED BY <1>1, <1>2

(* What a submitted form does is what the person was shown when it was opened *)
(* (tui/form.rs, tui/mod.rs), for any number of keys, changes of other        *)
(* processes, connections, authorisations and entries.                        *)
THEOREM FormsActOnWhatWasShown == ScreensSpec => []ActedOnWhatWasShown
<1>1. ScreensInv => ActedOnWhatWasShown BY DEF ScreensInv
<1>2. QED BY <1>1, ScreensInitInv, ScreensStep, PTL DEF ScreensSpec

(* The two parts of SelectionIsKept.                                          *)
PageKept(p) ==
    LET was == selection_key(loaded, view, p) IN
    \/ was \notin ToSet(visible_rows(loaded, view, p)')
    \/ selection_key(loaded, view, p)' = was
    \/ p = "Grants" /\ (job.brings = "grant" \/ view.filter[p] = "active")
HomeKept ==
    opened.open /\ opened' = opened /\ loaded.is /\ loaded'.is
        => selected_home_row(loaded, opened, view)' = selected_home_row(loaded, opened, view)

(* Rows depend on time only through the authorisations that ran out.          *)
LEMMA RowsInTime ==
    ASSUME expired' = expired, NEW p
    PROVE  /\ visible_rows(loaded, view, p)' = visible_rows(loaded', view', p)
           /\ selection_key(loaded, view, p)' = Nth(visible_rows(loaded', view', p), view'.selected[p])
<1>1. visible_rows(loaded, view, p)' = visible_rows(loaded', view', p) BY DEF visible_rows
<1>2. selection_key(loaded, view, p)' = Nth(visible_rows(loaded, view, p)', view'.selected[p])
  BY DEF selection_key
<1>3. QED BY <1>1, <1>2

LEMMA SameSelection ==
    ASSUME expired' = expired, loaded' = loaded, NEW p, view'.filter[p] = view.filter[p],
           view'.selected[p] = view.selected[p]
    PROVE  PageKept(p)
<1>1. visible_rows(loaded', view', p) = visible_rows(loaded, view, p) BY SameRows
<1>2. selection_key(loaded, view, p)' = selection_key(loaded, view, p)
  BY <1>1, RowsInTime DEF selection_key
<1>3. QED BY <1>2 DEF PageKept

(* A selection that was looked for in what is listed now.                     *)
LEMMA SelectionFound ==
    ASSUME expired' = expired, IsConfig(loaded'), view' \in Views, NEW p \in Pages,
           NEW v, v.filter[p] = view'.filter[p], NEW was, NEW n,
           n = Position(visible_rows(loaded', v, p), selection_key(loaded, view, p), was),
           view'.selected[p] \in {n, Clamped(n, visible_rows(loaded', view', p))}
    PROVE  PageKept(p)
<1> DEFINE rows == visible_rows(loaded', view', p)
           key == selection_key(loaded, view, p)
           at == view'.selected[p]
<1>1. IsList(rows) BY PageRows
<1>2. visible_rows(loaded', v, p) = rows BY SameRows
<1>3. visible_rows(loaded, view, p)' = rows /\ selection_key(loaded, view, p)' = Nth(rows, at)
  BY RowsInTime
<1>4. n = Position(rows, key, was) BY <1>2
<1>5. at \in {n, Clamped(n, rows)} OBVIOUS
<1> HIDE DEF rows, key, at
<1>6. ASSUME key \in ToSet(rows) PROVE Nth(rows, at) = key
  <2>1. n \in 1..Len(rows) /\ rows[n] = key BY <1>1, <1>4, <1>6, FoundAgain
  <2>2. n \in Nat /\ Len(rows) \in Nat BY <1>1, <2>1 DEF IsList
  <2>3. Clamped(n, rows) = n BY <1>1, <2>1, <2>2, ClampedRow
  <2>4. at = n BY <1>5, <2>3
  <2>5. QED BY <2>1, <2>4 DEF Nth
<1>7. QED BY <1>3, <1>6 DEF PageKept, key

LEMMA SameHomeRow ==
    ASSUME view'.query = view.query, view'.category = view.category, view'.row = view.row
    PROVE  HomeKept
<1> SUFFICES ASSUME opened.open, opened' = opened, loaded.is, loaded'.is
             PROVE  selected_home_row(loaded, opened, view)' = selected_home_row(loaded, opened, view)
  BY DEF HomeKept
<1>1. home_rows(loaded', opened, view') = home_rows(loaded, opened, view) BY SameHomeRows
<1>2. selected_home_row(loaded, opened, view)' = Nth(home_rows(loaded', opened', view'), view'.row)
  BY DEF selected_home_row
<1>3. QED BY <1>1, <1>2 DEF selected_home_row

LEMMA DrawnHomeRow ==
    ASSUME ScreensInv, NEW v \in Views, v.home = view.home, v.query = view.query,
           v.category = view.category, v.row = view.row,
           view' = Drawn(loaded', opened', v)
    PROVE  HomeKept
<1> SUFFICES ASSUME opened.open, opened' = opened, loaded.is, loaded'.is
             PROVE  selected_home_row(loaded, opened, view)' = selected_home_row(loaded, opened, view)
  BY DEF HomeKept
<1>1. home_rows(loaded', opened', v) = home_rows(loaded, opened, view) BY SameHomeRows
<1>2. /\ view' \in Views /\ view' = [v EXCEPT !.row = view'.row]
      /\ v.home /\ RowFits(loaded', opened', v)
            => Nth(home_rows(loaded', opened', v), view'.row) = Nth(home_rows(loaded', opened', v), v.row)
      /\ ~v.home => view' = v
  BY DrawnView
<1>3. view'.query = v.query /\ view'.category = v.category BY <1>2 DEF Views
<1>4. home_rows(loaded', opened', view') = home_rows(loaded', opened', v) BY <1>3, SameHomeRows
<1>5. view.home => RowFits(loaded', opened', v) BY <1>1 DEF ScreensInv, ViewOk, RowFits
<1>6. v.home \in BOOLEAN BY DEF Views
<1>7. Nth(home_rows(loaded', opened', v), view'.row) = Nth(home_rows(loaded', opened', v), v.row)
  BY <1>2, <1>5, <1>6
<1>8. selected_home_row(loaded, opened, view)' = Nth(home_rows(loaded', opened', view'), view'.row)
  BY DEF selected_home_row
<1>9. QED BY <1>1, <1>4, <1>7, <1>8 DEF selected_home_row

LEMMA PressesCounted ==
    ASSUME ScreensInv, ScreensNext, presses' = presses
    PROVE  JobRuns \/ Reload \/ ApplyResult \/ LibraryExpires \/ GrantExpires \/ OtherProcess
<1>1. ~Press BY Pressed
<1>2. /\ HomeMove \/ HomeEnter \/ HomeBack \/ HomeForm \/ HomeNew => Press
      /\ PageMove \/ CommandForm \/ Check \/ Turn => Press
      /\ BeginFilter \/ TypeFilter \/ LeaveFilter \/ ClearFilter => Press
      /\ Cancel \/ SubmitForm => Press
  BY DEF HomeMove, HomeEnter, HomeBack, HomeForm, HomeNew, AtHome, PageMove, CommandForm, Check, Turn,
         OnPages, AtCommand, BeginFilter, TypeFilter, LeaveFilter, ClearFilter, Cancel, SubmitForm
<1>3. QED BY <1>1, <1>2 DEF ScreensNext

LEMMA NothingShownChanges ==
    ASSUME ScreensInv, UNCHANGED <<loaded, opened, view>>,
           expired' = expired \/ GrantExpires
    PROVE  (\A p \in Pages : PageKept(p)) /\ HomeKept
<1>1. HomeKept BY SameHomeRow
<1>2. ASSUME NEW p \in Pages PROVE PageKept(p)
  <2>1. CASE expired' = expired BY <2>1, SameSelection
  <2>2. CASE p = "Grants" /\ view.filter[p] = "active" BY <2>2 DEF PageKept
  <2>3. CASE ~(p = "Grants" /\ view.filter[p] = "active")
    <3>1. visible_rows(loaded, view, p)' = visible_rows(loaded, view, p) BY <2>3 DEF visible_rows
    <3>2. selection_key(loaded, view, p)' = selection_key(loaded, view, p) BY <3>1 DEF selection_key
    <3>3. QED BY <3>2 DEF PageKept
  <2>4. QED BY <2>1, <2>2, <2>3
<1>3. QED BY <1>1, <1>2

(* What the rows of a page are looked up with after a reading.                *)
LEMMA Looked ==
    ASSUME ScreensInv
    PROVE  LET v == Reloaded(view) IN
           /\ v \in Views /\ v.home = view.home /\ v.page = view.page /\ v.filter = view.filter
           /\ v.category = view.category /\ v.row = view.row /\ v.query = view.query
           /\ \A p \in Pages : v.selected[p] =
                 Position(visible_rows(Reread, view, p), selection_key(loaded, view, p), view.selected[p])
           /\ IsConfig(Reread)
<1> DEFINE v == Reloaded(view)
<1>1. view \in Views /\ IsConfig(shared) BY DEF ScreensInv, ViewOk
<1>2. Alike(view, v) BY <1>1, ReloadedView
<1>3. \A p \in Pages : v.selected[p] =
        Position(visible_rows(Reread, view, p), selection_key(loaded, view, p), view.selected[p])
  BY <1>1, ReloadedView
<1>4. IsConfig(Reread) BY <1>1, RereadConfig
<1> HIDE DEF v
<1>5. /\ v \in Views /\ v.home = view.home /\ v.page = view.page /\ v.filter = view.filter
      /\ v.category = view.category /\ v.row = view.row /\ v.query = view.query
  BY <1>1, <1>2 DEF Alike, Views
<1>6. QED BY <1>3, <1>4, <1>5 DEF v

LEMMA ReadAgainKeeps ==
    ASSUME ScreensInv, loaded' = Reread, expired' = expired, NEW p \in Pages, view' \in Views,
           view'.filter[p] = view.filter[p],
           view'.selected[p] \in {Reloaded(view).selected[p],
                                  Clamped(Reloaded(view).selected[p], visible_rows(loaded', view', p))}
    PROVE  PageKept(p)
<1> DEFINE n == Reloaded(view).selected[p]
<1>1. n = Position(visible_rows(loaded', view, p), selection_key(loaded, view, p), view.selected[p])
  BY Looked
<1>2. IsConfig(loaded') BY Looked
<1>3. view'.selected[p] \in {n, Clamped(n, visible_rows(loaded', view', p))} OBVIOUS
<1> HIDE DEF n
<1>4. QED BY <1>1, <1>2, <1>3, SelectionFound

LEMMA RedrawnKeeps ==
    ASSUME ScreensInv, loaded' = Reread, expired' = expired,
           view' = Drawn(loaded', opened', Reloaded(view))
    PROVE  (\A p \in Pages : PageKept(p)) /\ HomeKept
<1> DEFINE v == Reloaded(view)
<1>1. /\ v \in Views /\ v.home = view.home /\ v.filter = view.filter
      /\ v.category = view.category /\ v.row = view.row /\ v.query = view.query
  BY Looked
<1>2. view' = Drawn(loaded', opened', v) OBVIOUS
<1>3. HomeKept
  <2> HIDE DEF v
  <2>1. QED BY <1>1, <1>2, DrawnHomeRow
<1>4. view' \in Views /\ view'.filter = v.filter /\ view'.selected = v.selected
  <2> HIDE DEF v
  <2>1. view' \in Views /\ view' = [v EXCEPT !.row = view'.row] BY <1>1, <1>2, DrawnView
  <2>2. QED BY <1>1, <2>1 DEF Views
<1>5. ASSUME NEW p \in Pages PROVE PageKept(p)
  <2>1. view'.filter[p] = view.filter[p] /\ view'.selected[p] = v.selected[p] BY <1>1, <1>4
  <2>2. QED BY <1>4, <2>1, ReadAgainKeeps
<1>6. QED BY <1>3, <1>5

LEMMA LibraryExpiresKeeps ==
    ASSUME ScreensInv, LibraryExpires
    PROVE  (\A p \in Pages : PageKept(p)) /\ HomeKept
<1>1. /\ opened.open /\ opened' = NoLibrary /\ view' = Drawn(loaded, NoLibrary, view)
      /\ UNCHANGED <<loaded, expired>>
  BY DEF LibraryExpires, world
<1>2. HomeKept BY <1>1 DEF HomeKept, NoLibrary
<1>3. view \in Views BY DEF ScreensInv, ViewOk
<1>4. view' \in Views /\ view' = [view EXCEPT !.row = view'.row] BY <1>1, <1>3, DrawnView
<1>5. view'.filter = view.filter /\ view'.selected = view.selected BY <1>3, <1>4 DEF Views
<1>6. QED BY <1>1, <1>2, <1>5, SameSelection

(* A page is shown in place of the one there was.                             *)
LEMMA TurnedKeeps ==
    ASSUME ScreensInv, loaded' = Reread, expired' = expired,
           NEW page \in Pages \cup {"WebDav"}, NEW x \in Views,
           x.category = view.category, x.row = view.row, x.query = view.query,
           view' = clamp_selection(loaded', x), NEW S \in SUBSET Pages,
           \A p \in S : x.filter[p] = view.filter[p] /\ x.selected[p] = Reloaded(view).selected[p]
    PROVE  (\A p \in S : PageKept(p)) /\ HomeKept
<1>1. IsConfig(loaded') BY Looked
<1>2. /\ Alike(x, view')
      /\ \A p \in Pages : view'.selected[p] = Clamped(x.selected[p], visible_rows(loaded', x, p))
  BY <1>1, ClampedView
<1>3. /\ view' \in Views /\ view'.filter = x.filter /\ view'.category = x.category
      /\ view'.row = x.row /\ view'.query = x.query
  BY <1>2 DEF Alike, Views
<1>4. HomeKept BY <1>3, SameHomeRow
<1>5. ASSUME NEW p \in S PROVE PageKept(p)
  <2>1. view'.filter[p] = view.filter[p] /\ view'.filter[p] = x.filter[p] BY <1>3
  <2>2. visible_rows(loaded', x, p) = visible_rows(loaded', view', p) BY <2>1, SameRows
  <2>3. view'.selected[p] = Clamped(Reloaded(view).selected[p], visible_rows(loaded', view', p))
    BY <1>2, <2>2
  <2>4. QED BY <1>3, <2>1, <2>3, ReadAgainKeeps
<1>6. QED BY <1>4, <1>5

LEMMA ApplyKeeps ==
    ASSUME ScreensInv, ApplyResult
    PROVE  (\A p \in Pages : PageKept(p)) /\ HomeKept
<1> DEFINE v == Reloaded(view)
           c == Reread
<1>1. loaded' = c /\ expired' = expired BY DEF ApplyResult, world
<1>2. /\ v \in Views /\ v.home = view.home /\ v.page = view.page /\ v.filter = view.filter
      /\ v.category = view.category /\ v.row = view.row /\ v.query = view.query /\ IsConfig(c)
  BY Looked
<1>3. CASE job.brings = "library"
  <2>1. view' = HomeRestored(v) BY <1>3 DEF ApplyResult
  <2>2. ~opened.open BY <1>3 DEF ScreensInv, JobOk
  <2>3. HomeKept BY <2>2 DEF HomeKept
  <2>4. view' \in Views /\ view' = [v EXCEPT !.category = view'.category, !.row = view'.row]
    BY <1>2, <2>1, HomeRestoredView
  <2>5. view'.filter = view.filter /\ view'.selected = v.selected
    <3> HIDE DEF v
    <3>1. QED BY <1>2, <2>4 DEF Views
  <2>6. ASSUME NEW p \in Pages PROVE PageKept(p)
    <3>1. view'.filter[p] = view.filter[p] /\ view'.selected[p] = Reloaded(view).selected[p] BY <2>5
    <3>2. QED BY <1>1, <2>4, <3>1, ReadAgainKeeps
  <2>7. QED BY <2>3, <2>6
<1>4. CASE job.brings = "grant"
  <2> DEFINE w == set_page(v, "Grants")
             x == [w EXCEPT !.filter["Grants"] = ""]
             y == Restored(c, x, "Grants", job.made)
             S == {"Connections"}
  <2>0. "Grants" \in Pages /\ Pages \ {"Grants"} = S /\ S \in SUBSET Pages BY DEF Pages
  <2>1. w \in Views /\ w = [v EXCEPT !.home = FALSE, !.page = "Grants"] BY <1>2, <2>0, TurnedView
  <2>2. view' = clamp_selection(c, y) BY <1>4 DEF ApplyResult
  <2> HIDE DEF w, v
  <2>3. /\ w.selected = v.selected /\ w.filter = v.filter /\ w.category = v.category
        /\ w.row = v.row /\ w.query = v.query
    BY <1>2, <2>1 DEF Views
  <2>4. /\ x \in Views /\ x.selected = w.selected /\ x.category = w.category
        /\ x.row = w.row /\ x.query = w.query /\ x.filter["Connections"] = w.filter["Connections"]
    BY <2>1, <2>0 DEF Views, Pages, Queries
  <2> HIDE DEF x
  <2>5. Alike(x, y) /\ \A q \in Pages \ {"Grants"} : y.selected[q] = x.selected[q]
    BY <1>2, <2>0, <2>4, RestoredView
  <2> HIDE DEF y
  <2>6. /\ y \in Views /\ y.filter = x.filter /\ y.category = x.category /\ y.row = x.row
        /\ y.query = x.query
    BY <2>4, <2>5 DEF Alike, Views
  <2>7. \A p \in S : y.filter[p] = view.filter[p] /\ y.selected[p] = Reloaded(view).selected[p]
    BY <1>2, <2>0, <2>3, <2>4, <2>5, <2>6 DEF v
  <2>8. y.category = view.category /\ y.row = view.row /\ y.query = view.query
    BY <1>2, <2>3, <2>4, <2>6
  <2> HIDE DEF S
  <2>9. (\A p \in S : PageKept(p)) /\ HomeKept
    BY <1>1, <2>0, <2>2, <2>6, <2>7, <2>8, TurnedKeeps
  <2>10. PageKept("Grants") BY <1>4 DEF PageKept
  <2>11. QED BY <2>0, <2>9, <2>10
<1>5. CASE job.brings = "login"
  <2> DEFINE w == set_page(v, "WebDav")
             S == Pages
  <2>1. w \in Views /\ w = [v EXCEPT !.home = FALSE, !.page = "WebDav"] BY <1>2, TurnedView
  <2>2. view' = clamp_selection(c, w) BY <1>5 DEF ApplyResult
  <2> HIDE DEF w, v
  <2>3. /\ w.selected = v.selected /\ w.filter = v.filter /\ w.category = v.category
        /\ w.row = v.row /\ w.query = v.query
    BY <1>2, <2>1 DEF Views
  <2>4. \A p \in S : w.filter[p] = view.filter[p] /\ w.selected[p] = Reloaded(view).selected[p]
    BY <1>2, <2>3 DEF v
  <2>5. S \in SUBSET Pages /\ "WebDav" \in Pages \cup {"WebDav"} OBVIOUS
  <2>6. (\A p \in S : PageKept(p)) /\ HomeKept
    BY <1>1, <1>2, <2>1, <2>2, <2>3, <2>4, <2>5, TurnedKeeps
  <2>7. QED BY <2>6
<1>6. CASE job.brings \notin {"library", "grant", "login"}
  <2>1. view' = Drawn(c, opened, v) /\ opened' = opened BY <1>6 DEF ApplyResult
  <2>2. view' = Drawn(loaded', opened', Reloaded(view)) BY <1>1, <2>1
  <2>3. QED BY <1>1, <2>2, RedrawnKeeps
<1>7. QED BY <1>3, <1>4, <1>5, <1>6

(* Only the person moves a selection (tui/mod.rs reload and apply,            *)
(* tui/browser.rs restore_selection), however many rows there are and however *)
(* many changes are read.                                                     *)
THEOREM OnlyKeysMoveASelection == ScreensSpec => SelectionIsKept
<1> DEFINE SelectionsStay == presses' = presses => (\A p \in Pages : PageKept(p)) /\ HomeKept
<1>1. ASSUME ScreensInv, ScreensNext, presses' = presses
      PROVE  (\A p \in Pages : PageKept(p)) /\ HomeKept
  <2>1. CASE JobRuns \/ OtherProcess \/ GrantExpires
    <3>1. UNCHANGED <<loaded, opened, view>> /\ (expired' = expired \/ GrantExpires)
      BY <2>1 DEF JobRuns, OtherProcess, GrantExpires
    <3>2. QED BY <1>1, <3>1, NothingShownChanges
  <2>2. CASE Reload
    <3>1. loaded' = Reread /\ expired' = expired /\ view' = Drawn(loaded', opened', Reloaded(view))
      BY <2>2 DEF Reload, world
    <3>2. QED BY <1>1, <3>1, RedrawnKeeps
  <2>3. CASE ApplyResult BY <1>1, <2>3, ApplyKeeps
  <2>4. CASE LibraryExpires BY <1>1, <2>4, LibraryExpiresKeeps
  <2>5. QED BY <1>1, <2>1, <2>2, <2>3, <2>4, PressesCounted
<1>2. ScreensInv /\ [ScreensNext]_svars => [SelectionsStay]_svars BY <1>1
<1>3. [SelectionsStay]_svars =>
        [presses' = presses =>
            /\ \A p \in Pages :
                LET was == selection_key(loaded, view, p) IN
                \/ was \notin ToSet(visible_rows(loaded, view, p)')
                \/ selection_key(loaded, view, p)' = was
                \/ p = "Grants" /\ (job.brings = "grant" \/ view.filter[p] = "active")
            /\ opened.open /\ opened' = opened /\ loaded.is /\ loaded'.is
                => selected_home_row(loaded, opened, view)' = selected_home_row(loaded, opened, view)]_svars
  BY DEF PageKept, HomeKept
<1>4. ScreensSpec => [][ScreensInv /\ [ScreensNext]_svars]_svars
  BY ScreensInitInv, ScreensStep, PTL DEF ScreensSpec
<1>5. QED BY <1>2, <1>3, <1>4, PTL DEF SelectionIsKept

-----------------------------------------------------------------------------
(* The library.                                                               *)

(* Every parent that is named is there: nothing but an imported cycle keeps a *)
(* category from the top.                                                     *)
NothingDangles(t) == \A c \in Live(t) : t[c].parent \in Live(t) \cup {NoCategory}

(* A set that is closed in t, holds the parent of c and does not hold c shows *)
(* that c is on no cycle; on none is whatever has no such set missing.        *)
Escapes(t, c, above) ==
    above \subseteq Live(t) /\ Closed(t, above) /\ (t[c].parent \in Live(t) => t[c].parent \in above) /\ c \notin above

LEMMA EscapesCycle ==
    ASSUME NEW t, NEW c \in Live(t)
    PROVE  c \notin OnCycle(t) <=> \E above \in SUBSET Live(t) : Escapes(t, c, above)
BY DEF OnCycle, Above, Climb, Escapes

(* A category that is new has nothing below it, so no cycle goes through it.  *)
AddsTo(t, c, p, u) ==
    /\ t \in Trees /\ u \in Trees /\ NothingDangles(t)
    /\ c \in Categories /\ c \notin Live(t) /\ (p \in Live(t) \/ p = NoCategory)
    /\ u = [t EXCEPT ![c] = [live |-> TRUE, parent |-> p]]

LEMMA AddedTree ==
    ASSUME NEW t, NEW u, NEW c, NEW p, AddsTo(t, c, p, u)
    PROVE  /\ Live(u) = Live(t) \cup {c}
           /\ NothingDangles(u)
           /\ OnCycle(u) \subseteq OnCycle(t)
<1>0. NoCategory \notin Categories BY LibraryAssumption
<1> USE DEF AddsTo
<1>1. u[c].live /\ u[c].parent = p /\ \A d \in Categories : d # c => u[d] = t[d]
  BY DEF Trees
<1>2. Live(u) = Live(t) \cup {c} BY <1>1 DEF Live
<1>3. NothingDangles(u) BY <1>1, <1>2 DEF NothingDangles, Live
<1>4. ASSUME NEW k \in OnCycle(u) PROVE k \in OnCycle(t)
  <2>1. k \in Live(u) /\ \A above \in SUBSET Live(u) : ~Escapes(u, k, above)
    BY <1>4, EscapesCycle DEF OnCycle
  <2>2. CASE k = c
    <3>1. Closed(u, Live(t)) BY <1>0, <1>1, <1>2 DEF Closed, Orphan, NothingDangles, Live
    <3>2. Escapes(u, c, Live(t)) BY <1>0, <1>1, <1>2, <3>1 DEF Escapes, Live
    <3>3. QED BY <1>2, <2>1, <2>2, <3>2
  <2>3. CASE k # c
    <3>1. k \in Live(t) /\ u[k] = t[k] BY <1>1, <1>2, <2>1, <2>3 DEF Live
    <3>2. ASSUME k \notin OnCycle(t) PROVE FALSE
      <4>1. PICK above \in SUBSET Live(t) : Escapes(t, k, above) BY <3>1, <3>2, EscapesCycle
      <4>2. Closed(u, above)
        BY <1>0, <1>1, <1>2, <4>1 DEF Closed, Orphan, NothingDangles, Escapes, Live
      <4>3. Escapes(u, k, above)
        BY <1>0, <1>1, <1>2, <3>1, <4>1, <4>2 DEF Escapes, NothingDangles, Live
      <4>4. QED BY <1>2, <2>1, <4>3
    <3>3. QED BY <3>2
  <2>4. QED BY <2>2, <2>3
<1>5. QED BY <1>2, <1>3, <1>4

(* What has no children is on no way up.                                      *)
TakesFrom(t, c, u) ==
    /\ t \in Trees /\ u \in Trees /\ NothingDangles(t)
    /\ c \in Live(t) /\ Children(t, c) = {}
    /\ u = [t EXCEPT ![c].live = FALSE]

LEMMA DeletedTree ==
    ASSUME NEW t, NEW u, NEW c, TakesFrom(t, c, u)
    PROVE  /\ Live(u) = Live(t) \ {c}
           /\ NothingDangles(u)
           /\ OnCycle(u) \subseteq OnCycle(t)
<1> USE DEF TakesFrom
<1>0. c \in Categories /\ ~u[c].live /\ \A d \in Categories : d # c => u[d] = t[d]
  BY DEF Trees, Live
<1>1. Live(u) = Live(t) \ {c} BY <1>0 DEF Live
<1>2. \A d \in Live(t) : t[d].parent # c BY DEF Children
<1>3. NothingDangles(u) BY <1>0, <1>1, <1>2 DEF NothingDangles, Live
<1>4. ASSUME NEW k \in OnCycle(u), k \notin OnCycle(t) PROVE FALSE
  <2>1. k \in Live(u) /\ \A above \in SUBSET Live(u) : ~Escapes(u, k, above)
    BY <1>4, EscapesCycle DEF OnCycle
  <2>2. k \in Live(t) /\ k # c /\ u[k] = t[k] BY <1>0, <1>1, <2>1 DEF Live
  <2>3. PICK above \in SUBSET Live(t) : Escapes(t, k, above) BY <1>4, <2>2, EscapesCycle
  <2>4. Closed(u, above \ {c})
    BY <1>0, <1>1, <1>2, <2>3 DEF Closed, Orphan, Escapes, Live
  <2>5. Escapes(u, k, above \ {c}) BY <1>1, <1>2, <2>2, <2>3, <2>4 DEF Escapes
  <2>6. QED BY <1>1, <2>1, <2>3, <2>5
<1>5. QED BY <1>1, <1>3, <1>4

(* Going up from the target does not meet the category that moves, and what   *)
(* goes up through it goes on from there.                                     *)
MovesIn(t, c, target, u) ==
    /\ t \in Trees /\ u \in Trees /\ NothingDangles(t)
    /\ c \in Live(t) /\ target \in Live(t)
    /\ u = [t EXCEPT ![c].parent = target]

LEMMA MovedTree ==
    ASSUME NEW t, NEW u, NEW c, NEW target, MovesIn(t, c, target, u)
    PROVE  /\ Live(u) = Live(t)
           /\ NothingDangles(u)
           /\ c \notin Climb(t, target) => OnCycle(u) \subseteq OnCycle(t)
<1> USE DEF MovesIn
<1>0. /\ c \in Categories /\ u[c].live = t[c].live /\ u[c].parent = target
      /\ \A d \in Categories : d # c => u[d] = t[d]
  BY DEF Trees, Live
<1>1. Live(u) = Live(t) BY <1>0 DEF Live
<1>2. NothingDangles(u) BY <1>0, <1>1 DEF NothingDangles, Live
<1>3. ASSUME c \notin Climb(t, target), NEW k \in OnCycle(u), k \notin OnCycle(t) PROVE FALSE
  <2>1. k \in Live(t) /\ \A above \in SUBSET Live(t) : ~Escapes(u, k, above)
    BY <1>1, <1>3, EscapesCycle DEF OnCycle
  <2>2. PICK way \in SUBSET Live(t) : Closed(t, way) /\ target \in way /\ c \notin way
    BY <1>3 DEF Climb
  <2>3. Closed(u, way) BY <1>0, <1>1, <2>2 DEF Closed, Orphan, Live
  <2>4. CASE k = c
    <3>1. Escapes(u, k, way) BY <1>0, <1>1, <2>2, <2>3, <2>4 DEF Escapes
    <3>2. QED BY <2>1, <3>1
  <2>5. CASE k # c
    <3>1. u[k] = t[k] BY <1>0, <2>1, <2>5 DEF Live
    <3>2. PICK above \in SUBSET Live(t) : Escapes(t, k, above) BY <1>3, <2>1, EscapesCycle
    <3>3. CASE c \notin above
      <4>1. Closed(u, above) BY <1>0, <1>1, <3>2, <3>3 DEF Closed, Orphan, Escapes, Live
      <4>2. Escapes(u, k, above) BY <1>1, <3>1, <3>2, <4>1 DEF Escapes
      <4>3. QED BY <2>1, <4>2
    <3>4. CASE c \in above /\ k \notin way
      <4>1. Closed(u, above \cup way)
        BY <1>0, <1>1, <2>2, <3>2 DEF Closed, Orphan, Escapes, Live
      <4>2. Escapes(u, k, above \cup way) BY <1>1, <3>1, <3>2, <3>4, <4>1 DEF Escapes
      <4>3. QED BY <2>1, <4>2
    <3>5. CASE c \in above /\ k \in way
      <4>1. Closed(u, above \cap way)
        BY <1>0, <1>1, <2>2, <3>2 DEF Closed, Orphan, Escapes, Live
      <4>2. t[k].parent \in Live(t) => t[k].parent \in way
        BY <2>2, <3>5 DEF Closed, Orphan
      <4>3. Escapes(u, k, above \cap way) BY <1>1, <3>1, <3>2, <4>1, <4>2 DEF Escapes
      <4>4. QED BY <2>1, <4>3
    <3>6. QED BY <3>3, <3>4, <3>5
  <2>6. QED BY <2>4, <2>5
<1>4. QED BY <1>1, <1>2, <1>3

(* What a command may do to the tree, and what it leaves a later one.         *)
TreeKept(t, u) ==
    /\ u \in Trees /\ NothingDangles(u) /\ u[Root].live
    /\ OnCycle(u) \subseteq OnCycle(t)
    /\ \A c \in Live(t) \ Live(u) : Within(c) = {} /\ \A k \in Live(u) : u[k].parent # c
    /\ t[Root].live => u[Root] = t[Root]

LEMMA OpenedTree ==
    ASSUME categories \in Trees, NothingDangles(categories)
    PROVE  /\ TreeKept(categories, Opened)
           /\ Live(categories) \subseteq Live(Opened)
           /\ Root \in Live(Opened)
<1>0. Root \in Categories BY LibraryAssumption
<1>1. CASE categories[Root].live
  BY <1>0, <1>1 DEF Opened, ensure_android_root, TreeKept, Live
<1>2. CASE ~categories[Root].live
  <2>1. Opened = [categories EXCEPT ![Root] = [live |-> TRUE, parent |-> NoCategory]]
    BY <1>2 DEF Opened, ensure_android_root
  <2>2. Opened \in Trees BY <1>0, <2>1 DEF Trees
  <2>3. Root \notin Live(categories) BY <1>0, <1>2 DEF Live
  <2>4. /\ Live(Opened) = Live(categories) \cup {Root}
        /\ NothingDangles(Opened)
        /\ OnCycle(Opened) \subseteq OnCycle(categories)
    <3>1. AddsTo(categories, Root, NoCategory, Opened) BY <1>0, <2>1, <2>2, <2>3 DEF AddsTo
    <3>2. QED BY <3>1, AddedTree
  <2>5. QED BY <1>2, <2>2, <2>4 DEF TreeKept, Live
<1>3. QED BY <1>1, <1>2

(* The three commands that change the tree, each from the vault as it opened. *)
LEMMA CreateTree ==
    ASSUME categories \in Trees, NothingDangles(categories),
           NEW c \in Categories, NEW p \in Categories \cup {NoCategory}, create_category(c, p)
    PROVE  TreeKept(categories, categories')
<1> DEFINE t == Opened
<1>1. TreeKept(categories, t) /\ Live(categories) \subseteq Live(t) BY OpenedTree
<1>2. /\ c # Root /\ ~categories[c].live /\ (p \in Live(t) \/ p = NoCategory)
      /\ categories' = [t EXCEPT ![c] = [live |-> TRUE, parent |-> p]]
  BY DEF create_category
<1>3. t[c] = categories[c] BY <1>2 DEF Opened, ensure_android_root, Trees
<1> HIDE DEF t
<1>4. t \in Trees /\ NothingDangles(t) BY <1>1 DEF TreeKept
<1>5. categories' \in Trees BY <1>2, <1>4 DEF Trees, Live
<1>6. c \notin Live(t) BY <1>2, <1>3 DEF Live
<1>7. /\ Live(categories') = Live(t) \cup {c}
      /\ NothingDangles(categories')
      /\ OnCycle(categories') \subseteq OnCycle(t)
  <2>1. AddsTo(t, c, p, categories') BY <1>2, <1>4, <1>5, <1>6 DEF AddsTo
  <2>2. QED BY <2>1, AddedTree
<1>8. categories'[Root] = t[Root] BY <1>2, <1>4, LibraryAssumption DEF Trees
<1>9. QED BY <1>1, <1>5, <1>7, <1>8 DEF TreeKept

LEMMA MoveTree ==
    ASSUME categories \in Trees, NothingDangles(categories),
           NEW c \in Categories, NEW target \in Categories, move_category(c, target)
    PROVE  TreeKept(categories, categories')
<1> DEFINE t == Opened
<1>1. TreeKept(categories, t) /\ Live(categories) \subseteq Live(t) BY OpenedTree
<1>2. /\ c # Root /\ c \in Live(t) /\ target \in Live(t) /\ c \notin Climb(t, target)
      /\ categories' = [t EXCEPT ![c].parent = target]
  BY DEF move_category
<1> HIDE DEF t
<1>3. t \in Trees /\ NothingDangles(t) BY <1>1 DEF TreeKept
<1>4. categories' \in Trees BY <1>2, <1>3 DEF Trees
<1>5. /\ Live(categories') = Live(t)
      /\ NothingDangles(categories')
      /\ OnCycle(categories') \subseteq OnCycle(t)
  <2>1. MovesIn(t, c, target, categories') BY <1>2, <1>3, <1>4 DEF MovesIn
  <2>2. QED BY <1>2, <2>1, MovedTree
<1>6. categories'[Root] = t[Root] BY <1>2, <1>3, LibraryAssumption DEF Trees
<1>7. QED BY <1>1, <1>4, <1>5, <1>6 DEF TreeKept

LEMMA DeleteTree ==
    ASSUME categories \in Trees, NothingDangles(categories),
           NEW c \in Categories, delete_category(c)
    PROVE  TreeKept(categories, categories')
<1> DEFINE t == Opened
<1>1. TreeKept(categories, t) /\ Live(categories) \subseteq Live(t) BY OpenedTree
<1>2. /\ c # Root /\ c \in Live(t) /\ Within(c) = {} /\ Children(t, c) = {}
      /\ categories' = [t EXCEPT ![c].live = FALSE]
  BY DEF delete_category
<1> HIDE DEF t
<1>3. t \in Trees /\ NothingDangles(t) BY <1>1 DEF TreeKept
<1>4. categories' \in Trees BY <1>2, <1>3 DEF Trees
<1>5. /\ Live(categories') = Live(t) \ {c}
      /\ NothingDangles(categories')
      /\ OnCycle(categories') \subseteq OnCycle(t)
  <2>1. TakesFrom(t, c, categories') BY <1>2, <1>3, <1>4 DEF TakesFrom
  <2>2. QED BY <2>1, DeletedTree
<1>6. \A d \in Categories : d # c => categories'[d] = t[d] BY <1>2, <1>3 DEF Trees
<1>7. \A k \in Live(t) : t[k].parent # c BY <1>2 DEF Children
<1>8. \A k \in Live(categories') : categories'[k].parent # c BY <1>5, <1>6, <1>7 DEF Live
<1>9. \A d \in Live(categories) \ Live(categories') : d = c BY <1>1, <1>5
<1>10. QED BY <1>1, <1>2, <1>4, <1>5, <1>6, <1>8, <1>9, LibraryAssumption DEF TreeKept

(* What the other devices do to the tree keeps only that nothing dangles.     *)
LEMMA MergedTree ==
    ASSUME categories \in Trees, NothingDangles(categories), NEW c \in Categories,
           RemoteDelete(c) \/ \E p \in Categories : RemoteMove(c, p)
    PROVE  /\ categories' \in Trees /\ NothingDangles(categories')
           /\ \A d \in Live(categories) \ Live(categories') : Within(d) = {}
<1>1. CASE RemoteDelete(c)
  <2>1. /\ c \in Live(categories) /\ Within(c) = {} /\ Children(categories, c) = {}
        /\ categories' = [categories EXCEPT ![c].live = FALSE]
    BY <1>1 DEF RemoteDelete
  <2>2. categories' \in Trees BY <2>1 DEF Trees
  <2>3. Live(categories') = Live(categories) \ {c} /\ NothingDangles(categories')
    <3>1. TakesFrom(categories, c, categories') BY <2>1, <2>2 DEF TakesFrom
    <3>2. QED BY <3>1, DeletedTree
  <2>4. QED BY <2>1, <2>2, <2>3
<1>2. CASE \E p \in Categories : RemoteMove(c, p)
  <2>1. PICK p \in Categories : RemoteMove(c, p) BY <1>2
  <2>2. /\ c \in Live(categories) /\ p \in Live(categories)
        /\ categories' = [categories EXCEPT ![c].parent = p]
    BY <2>1 DEF RemoteMove
  <2>3. categories' \in Trees BY <2>2 DEF Trees
  <2>4. Live(categories') = Live(categories) /\ NothingDangles(categories')
    <3>1. MovesIn(categories, c, p, categories') BY <2>2, <2>3 DEF MovesIn
    <3>2. QED BY <3>1, MovedTree
  <2>5. QED BY <2>3, <2>4
<1>3. QED BY <1>1, <1>2

-----------------------------------------------------------------------------
(* What is known of entry e.  It is in a category that is there; a password   *)
(* says of its folder what the vault says; one that has no receipt was never  *)
(* written; and whoever was shown its present head was shown its text.        *)
EntryOk(e) ==
    /\ entries[e].live => entries[e].category \in Live(categories)
    /\ e \in Passwords =>
        /\ entries[e].live => entries[e].folder = FolderOf(entries[e].category)
        /\ receipts[e] = NoCategory => entries[e] = NoEntry
        /\ summary.entry = e => /\ summary.head <= entries[e].head
                                /\ summary.head = entries[e].head => summary.text = entries[e].text

LibraryInv == LibraryTypeOK /\ NothingDangles(categories) /\ \A e \in Items : EntryOk(e)

(* The categories that are still there hold the entries they held.            *)
Sheltered == \A c \in Live(categories) \ Live(categories') : Within(c) = {}

LEMMA InitLibraryInv == LibraryInit => LibraryInv
<1> SUFFICES ASSUME LibraryInit PROVE LibraryInv
  OBVIOUS
<1>1. NoEntry \in Versions /\ ~NoEntry.live /\ NoEntry.head = 0 /\ NoEntry.text = 0
  BY DEF NoEntry, Versions
<1>2. LibraryTypeOK BY <1>1 DEF LibraryInit, LibraryTypeOK, Trees
<1>3. NothingDangles(categories) BY DEF LibraryInit, NothingDangles, Live
<1>4. ASSUME NEW e \in Items PROVE EntryOk(e)
  <2>1. entries[e] = NoEntry /\ summary.head = 0 /\ summary.text = 0 BY DEF LibraryInit
  <2>2. QED BY <1>1, <2>1 DEF EntryOk
<1>5. QED BY <1>2, <1>3, <1>4 DEF LibraryInv

(* An entry that nobody writes stays as it was known.                         *)
LEMMA KeptEntry ==
    ASSUME LibraryInv, Sheltered, NEW e \in Items, entries'[e] = entries[e],
           e \in Passwords => receipts'[e] = receipts[e], summary' = summary
    PROVE  EntryOk(e)'
<1>1. EntryOk(e) BY DEF LibraryInv
<1>2. entries[e].live => entries[e].category \in Live(categories')
  BY <1>1 DEF EntryOk, Sheltered, Within
<1>3. QED BY <1>1, <1>2 DEF EntryOk

LEMMA WrittenEntries ==
    ASSUME entries \in [Items -> Versions], NEW e \in Items, NEW r \in Versions, Written(e, r)
    PROVE  /\ entries' \in [Items -> Versions]
           /\ entries'[e].head = r.head + 1 /\ entries'[e].text = r.text /\ entries'[e].live = r.live
           /\ entries'[e].category = r.category /\ entries'[e].folder = r.folder
           /\ \A d \in Items : d # e => entries'[d] = entries[d]
<1> DEFINE w == [r EXCEPT !.head = @ + 1]
<1>1. entries' = [entries EXCEPT ![e] = w] BY DEF Written
<1>2. /\ w \in Versions /\ w.head = r.head + 1 /\ w.text = r.text /\ w.live = r.live
      /\ w.category = r.category /\ w.folder = r.folder
  BY DEF Versions
<1> HIDE DEF w
<1>3. entries'[e] = w BY <1>1
<1>4. QED BY <1>1, <1>2, <1>3

(* An entry that is written gets a head nobody has been shown.                *)
LEMMA WrittenKnown ==
    ASSUME LibraryInv, Sheltered, NEW e \in Items, NEW r \in Versions, Written(e, r),
           r.head = entries[e].head,
           r.live => r.category \in Live(categories'),
           e \in Passwords => /\ r.live => r.folder = FolderOf(r.category)
                              /\ receipts'[e] # NoCategory,
           \A d \in Passwords : d # e => receipts'[d] = receipts[d],
           summary' = summary
    PROVE  \A d \in Items : EntryOk(d)'
<1>1. entries \in [Items -> Versions] /\ summary.head \in Nat /\ EntryOk(e)
  BY DEF LibraryInv, LibraryTypeOK
<1>2. /\ entries'[e].head = r.head + 1 /\ entries'[e].text = r.text /\ entries'[e].live = r.live
      /\ entries'[e].category = r.category /\ entries'[e].folder = r.folder
      /\ \A d \in Items : d # e => entries'[d] = entries[d]
  BY <1>1, WrittenEntries
<1>3. \A d \in Items : d # e => EntryOk(d)' BY <1>2, KeptEntry
<1>4. entries[e].head \in Nat BY <1>1 DEF Versions
<1>5. summary.entry = e /\ e \in Passwords => summary.head < entries'[e].head
  BY <1>1, <1>2, <1>4 DEF EntryOk
<1>6. EntryOk(e)' BY <1>1, <1>2, <1>4, <1>5 DEF EntryOk
<1>7. QED BY <1>3, <1>6

(* A command that finds the vault opened and writes one entry, or none.       *)
LEMMA CommandTree ==
    ASSUME LibraryInv, categories' = Opened
    PROVE  TreeKept(categories, categories') /\ Sheltered /\ Live(Opened) = Live(categories')
<1>1. TreeKept(categories, Opened) BY OpenedTree DEF LibraryInv, LibraryTypeOK
<1>2. QED BY <1>1 DEF TreeKept, Sheltered

LEMMA CategoryCommands ==
    ASSUME LibraryInv, NEW c \in Categories,
           \/ \E p \in Categories \cup {NoCategory} : create_category(c, p)
           \/ \E target \in Categories : move_category(c, target)
           \/ delete_category(c)
    PROVE  LibraryInv' /\ TreeKept(categories, categories') /\ entries' = entries
<1>0. categories \in Trees /\ NothingDangles(categories) BY DEF LibraryInv, LibraryTypeOK
<1>1. TreeKept(categories, categories') BY <1>0, CreateTree, MoveTree, DeleteTree
<1>2. UNCHANGED <<entries, receipts, summary, remote>>
  BY DEF create_category, move_category, delete_category
<1>3. Sheltered BY <1>1 DEF TreeKept, Sheltered
<1>4. \A e \in Items : EntryOk(e)' BY <1>2, <1>3, KeptEntry
<1>5. LibraryTypeOK' /\ NothingDangles(categories)'
  BY <1>1, <1>2 DEF TreeKept, LibraryInv, LibraryTypeOK
<1>6. QED BY <1>1, <1>2, <1>4, <1>5 DEF LibraryInv

(* A text changes under the eyes of who was shown it, and an entry comes to   *)
(* life once.                                                                 *)
TextKept ==
    \A e \in Passwords :
        /\ entries'[e].text # entries[e].text =>
                entries[e] = NoEntry \/ (summary.entry = e /\ summary.text = entries[e].text)
        /\ entries'[e].live /\ ~entries[e].live => entries[e] = NoEntry

LEMMA EditedEntry ==
    ASSUME LibraryInv, Sheltered, categories' \in Trees, NothingDangles(categories)', remote' \in Nat,
           UNCHANGED <<receipts, summary>>,
           NEW e \in Items, Editable(e), NEW r \in Versions, Written(e, r),
           r.head = entries[e].head,
           r.live => r.category \in Live(categories'),
           e \in Passwords => (r.live => r.folder = FolderOf(r.category))
    PROVE  /\ LibraryInv'
           /\ r.text = entries[e].text \/ (summary.entry = e /\ summary.text = entries[e].text) => TextKept
<1>1. entries \in [Items -> Versions] /\ EntryOk(e) BY DEF LibraryInv, LibraryTypeOK
<1>2. /\ entries' \in [Items -> Versions] /\ entries'[e].text = r.text
      /\ \A d \in Items : d # e => entries'[d] = entries[d]
  BY <1>1, WrittenEntries
<1>3. entries[e].live /\ entries[e] # NoEntry BY DEF Editable, NoEntry
<1>4. e \in Passwords => receipts'[e] # NoCategory BY <1>1, <1>3 DEF EntryOk
<1>5. \A d \in Items : EntryOk(d)' BY <1>4, WrittenKnown
<1>6. LibraryTypeOK' BY <1>2 DEF LibraryInv, LibraryTypeOK
<1>7. r.text = entries[e].text \/ (summary.entry = e /\ summary.text = entries[e].text) => TextKept
  BY <1>2, <1>3 DEF TextKept, Passwords
<1>8. QED BY <1>5, <1>6, <1>7 DEF LibraryInv

(* The commands that edit an entry which is there.                            *)
LEMMA EditCommands ==
    ASSUME LibraryInv, NEW e \in Items, NEW c \in Categories,
           move_password(e, c) \/ move_key(e, c) \/ edit_password(e) \/ edit_key(e) \/ delete_entry(e)
    PROVE  LibraryInv' /\ TreeKept(categories, categories') /\ TextKept
<1>0. UNCHANGED <<receipts, summary, remote>> /\ categories' = Opened /\ Editable(e)
  BY DEF move_password, move_key, edit_password, edit_key, delete_entry
<1>1. TreeKept(categories, categories') /\ Sheltered /\ Live(Opened) = Live(categories')
  BY <1>0, CommandTree
<1>2. categories' \in Trees /\ NothingDangles(categories)' /\ remote' \in Nat
  BY <1>0, <1>1 DEF TreeKept, LibraryInv, LibraryTypeOK
<1>3. entries[e] \in Versions /\ EntryOk(e) /\ entries[e].live
  BY <1>0 DEF LibraryInv, LibraryTypeOK, Editable
<1>4. entries[e].category \in Live(categories')
  BY <1>1, <1>3 DEF EntryOk, Sheltered, Within
<1>5. e \in Passwords => entries[e].folder = FolderOf(entries[e].category) BY <1>3 DEF EntryOk
<1>6. CASE move_password(e, c)
  <2> DEFINE r == [entries[e] EXCEPT !.category = c, !.folder = FolderOf(c)]
  <2>1. c \in Live(categories') /\ Written(e, r) BY <1>1, <1>6 DEF move_password
  <2>2. FolderOf(c) \in Categories \cup {NoCategory} BY DEF FolderOf
  <2>3. /\ r \in Versions /\ r.head = entries[e].head /\ r.text = entries[e].text
        /\ r.category = c /\ r.folder = FolderOf(c)
    BY <1>3, <2>2 DEF Versions
  <2> HIDE DEF r
  <2>4. QED BY <1>0, <1>1, <1>2, <2>1, <2>3, EditedEntry
<1>7. CASE move_key(e, c)
  <2> DEFINE r == [entries[e] EXCEPT !.category = c]
  <2>1. c \in Live(categories') /\ Written(e, r) /\ e \notin Passwords BY <1>1, <1>7 DEF move_key
  <2>2. r \in Versions /\ r.head = entries[e].head /\ r.text = entries[e].text /\ r.category = c
    BY <1>3 DEF Versions
  <2> HIDE DEF r
  <2>3. QED BY <1>0, <1>1, <1>2, <2>1, <2>2, EditedEntry
<1>8. CASE edit_password(e)
  <2> DEFINE r == [entries[e] EXCEPT !.text = entries[e].head + 1]
  <2>1. e = summary.entry /\ entries[e].head = summary.head /\ Written(e, r) BY <1>8 DEF edit_password
  <2>2. /\ r \in Versions /\ r.head = entries[e].head
        /\ r.category = entries[e].category /\ r.folder = entries[e].folder
    BY <1>3 DEF Versions
  <2>3. e \in Passwords => summary.text = entries[e].text BY <1>3, <2>1 DEF EntryOk
  <2> HIDE DEF r
  <2>4. LibraryInv' BY <1>0, <1>1, <1>2, <1>4, <1>5, <2>1, <2>2, EditedEntry
  <2>5. CASE e \in Passwords
    BY <1>0, <1>1, <1>2, <1>4, <1>5, <2>1, <2>2, <2>3, <2>5, EditedEntry
  <2>6. CASE e \notin Passwords
    <3>1. \A d \in Items : d # e => entries'[d] = entries[d]
      BY <2>1, <2>2, WrittenEntries DEF LibraryInv, LibraryTypeOK
    <3>2. TextKept BY <2>6, <3>1 DEF TextKept, Passwords
    <3>3. QED BY <1>1, <2>4, <3>2
  <2>7. QED BY <2>5, <2>6
<1>9. CASE edit_key(e)
  <2>1. Written(e, entries[e]) BY <1>9 DEF edit_key
  <2>2. QED BY <1>0, <1>1, <1>2, <1>3, <1>4, <1>5, <2>1, EditedEntry
<1>10. CASE delete_entry(e)
  <2> DEFINE r == [entries[e] EXCEPT !.live = FALSE]
  <2>1. Written(e, r) BY <1>10 DEF delete_entry
  <2>2. r \in Versions /\ r.head = entries[e].head /\ r.text = entries[e].text /\ ~r.live
    BY <1>3 DEF Versions
  <2> HIDE DEF r
  <2>3. QED BY <1>0, <1>1, <1>2, <2>1, <2>2, EditedEntry
<1>11. QED BY <1>6, <1>7, <1>8, <1>9, <1>10

(* The commands that make an entry.                                           *)
LEMMA CreateCommands ==
    ASSUME LibraryInv, NEW e \in Items, NEW c \in Categories,
           create_password(e, c) \/ add_key_entry(e, c)
    PROVE  LibraryInv' /\ TreeKept(categories, categories') /\ TextKept
<1>0. UNCHANGED <<summary, remote>> /\ categories' = Opened /\ c \in Live(Opened)
  BY DEF create_password, add_key_entry
<1>1. TreeKept(categories, categories') /\ Sheltered /\ Live(Opened) = Live(categories')
  BY <1>0, CommandTree
<1>2. categories' \in Trees /\ NothingDangles(categories)' /\ remote' \in Nat /\ summary'.head \in Nat
  BY <1>0, <1>1 DEF TreeKept, LibraryInv, LibraryTypeOK
<1>3. entries \in [Items -> Versions] /\ receipts \in [Passwords -> Categories \cup {NoCategory}]
  BY DEF LibraryInv, LibraryTypeOK
<1>4. NoEntry \in Versions /\ NoEntry.head = 0 /\ ~NoEntry.live BY DEF NoEntry, Versions
<1>5. CASE create_password(e, c) /\ receipts[e] = c
  <2>1. UNCHANGED <<receipts, entries>>
    BY <1>5, LibraryAssumption DEF create_password
  <2>2. \A d \in Items : EntryOk(d)' BY <1>0, <1>1, <2>1, KeptEntry
  <2>3. TextKept BY <2>1 DEF TextKept
  <2>4. QED BY <1>1, <1>2, <1>3, <2>1, <2>2, <2>3 DEF LibraryInv, LibraryTypeOK
<1>6. CASE create_password(e, c) /\ receipts[e] # c
  <2> DEFINE r == [NoEntry EXCEPT !.live = TRUE, !.category = c, !.folder = FolderOf(c), !.text = 1]
  <2>1. /\ e \in Passwords /\ receipts[e] = NoCategory /\ Written(e, r)
        /\ receipts' = [receipts EXCEPT ![e] = c]
    BY <1>6 DEF create_password
  <2>2. entries[e] = NoEntry BY <2>1 DEF LibraryInv, EntryOk
  <2>3. r \in Versions /\ r.head = 0 /\ r.category = c /\ r.folder = FolderOf(c)
    BY DEF NoEntry, Versions, FolderOf
  <2> HIDE DEF r
  <2>4. /\ receipts' \in [Passwords -> Categories \cup {NoCategory}] /\ receipts'[e] # NoCategory
        /\ \A d \in Passwords : d # e => receipts'[d] = receipts[d]
    BY <1>3, <2>1, LibraryAssumption
  <2>5. \A d \in Items : EntryOk(d)'
    BY <1>0, <1>1, <1>4, <2>1, <2>2, <2>3, <2>4, WrittenKnown
  <2>6. entries' \in [Items -> Versions] /\ \A d \in Items : d # e => entries'[d] = entries[d]
    BY <1>3, <2>1, <2>3, WrittenEntries
  <2>7. TextKept BY <2>2, <2>6 DEF TextKept, Passwords
  <2>8. QED BY <1>1, <1>2, <2>4, <2>5, <2>6, <2>7 DEF LibraryInv, LibraryTypeOK
<1>7. CASE add_key_entry(e, c)
  <2> DEFINE r == [NoEntry EXCEPT !.live = TRUE, !.category = c]
  <2>1. e \notin Passwords /\ entries[e] = NoEntry /\ Written(e, r) /\ receipts' = receipts
    BY <1>7 DEF add_key_entry
  <2>2. r \in Versions /\ r.head = 0 /\ r.category = c BY DEF NoEntry, Versions
  <2> HIDE DEF r
  <2>3. \A d \in Items : EntryOk(d)'
    BY <1>0, <1>1, <1>4, <2>1, <2>2, WrittenKnown
  <2>4. entries' \in [Items -> Versions] /\ \A d \in Items : d # e => entries'[d] = entries[d]
    BY <1>3, <2>1, <2>2, WrittenEntries
  <2>5. TextKept BY <2>1, <2>4 DEF TextKept, Passwords
  <2>6. QED BY <1>1, <1>2, <1>3, <2>1, <2>3, <2>4, <2>5 DEF LibraryInv, LibraryTypeOK
<1>8. QED BY <1>5, <1>6, <1>7

LEMMA SummaryCommand ==
    ASSUME LibraryInv, NEW e \in Items, password_summary(e)
    PROVE  LibraryInv' /\ TreeKept(categories, categories') /\ TextKept
<1>1. /\ UNCHANGED <<entries, receipts, remote>> /\ categories' = Opened
      /\ summary' = [entry |-> e, head |-> entries[e].head, text |-> entries[e].text]
  BY DEF password_summary
<1>2. TreeKept(categories, categories') /\ Sheltered BY <1>1, CommandTree
<1>3. entries[e].head \in Nat BY DEF LibraryInv, LibraryTypeOK, Versions
<1>4. ASSUME NEW d \in Items PROVE EntryOk(d)'
  <2>1. EntryOk(d) BY DEF LibraryInv
  <2>2. entries[d].live => entries[d].category \in Live(categories')
    BY <1>2, <2>1 DEF EntryOk, Sheltered, Within
  <2>3. QED BY <1>1, <1>3, <2>1, <2>2 DEF EntryOk
<1>5. LibraryTypeOK' /\ NothingDangles(categories)'
  BY <1>1, <1>2, <1>3 DEF TreeKept, LibraryInv, LibraryTypeOK
<1>6. TextKept BY <1>1 DEF TextKept
<1>7. QED BY <1>2, <1>4, <1>5, <1>6 DEF LibraryInv

LEMMA MergedCategories ==
    ASSUME LibraryInv, NEW c \in Categories,
           RemoteDelete(c) \/ \E p \in Categories : RemoteMove(c, p)
    PROVE  LibraryInv' /\ remote' # remote
<1>0. categories \in Trees /\ NothingDangles(categories) /\ remote \in Nat
  BY DEF LibraryInv, LibraryTypeOK
<1>1. UNCHANGED <<entries, receipts, summary>> /\ remote' = remote + 1
  BY DEF RemoteDelete, RemoteMove, FromElsewhere
<1>2. categories' \in Trees /\ NothingDangles(categories') /\ Sheltered
  BY <1>0, MergedTree DEF Sheltered
<1>3. \A e \in Items : EntryOk(e)' BY <1>1, <1>2, KeptEntry
<1>4. QED BY <1>0, <1>1, <1>2, <1>3 DEF LibraryInv, LibraryTypeOK

LEMMA MergedEntry ==
    ASSUME LibraryInv, NEW e \in Items, RemoteEdit(e)
    PROVE  LibraryInv' /\ remote' # remote
<1>0. remote' = remote + 1 /\ remote \in Nat /\ UNCHANGED <<categories, receipts, summary>> /\ Editable(e)
  BY DEF RemoteEdit, FromElsewhere, LibraryInv, LibraryTypeOK
<1>1. Sheltered /\ categories' \in Trees /\ NothingDangles(categories)' /\ remote' \in Nat
  BY <1>0 DEF Sheltered, LibraryInv, LibraryTypeOK
<1>2. entries[e] \in Versions /\ EntryOk(e) /\ entries[e].live
  BY <1>0 DEF LibraryInv, LibraryTypeOK, Editable
<1>3. /\ entries[e].category \in Live(categories')
      /\ e \in Passwords => entries[e].folder = FolderOf(entries[e].category)
  BY <1>0, <1>2 DEF EntryOk
<1>4. CASE Written(e, [entries[e] EXCEPT !.text = entries[e].head + 1])
  <2> DEFINE r == [entries[e] EXCEPT !.text = entries[e].head + 1]
  <2>1. /\ r \in Versions /\ r.head = entries[e].head
        /\ r.category = entries[e].category /\ r.folder = entries[e].folder
    BY <1>2 DEF Versions
  <2>2. Written(e, r) BY <1>4
  <2> HIDE DEF r
  <2>3. QED BY <1>0, <1>1, <1>3, <2>1, <2>2, EditedEntry
<1>5. CASE Written(e, [entries[e] EXCEPT !.attached = ~@])
  <2> DEFINE r == [entries[e] EXCEPT !.attached = ~@]
  <2>1. /\ r \in Versions /\ r.head = entries[e].head
        /\ r.category = entries[e].category /\ r.folder = entries[e].folder
    BY <1>2 DEF Versions
  <2>2. Written(e, r) BY <1>5
  <2> HIDE DEF r
  <2>3. QED BY <1>0, <1>1, <1>3, <2>1, <2>2, EditedEntry
<1>6. ASSUME NEW c \in Live(categories),
             Written(e, [entries[e] EXCEPT !.category = c, !.folder = FolderOf(c)])
      PROVE  LibraryInv'
  <2> DEFINE r == [entries[e] EXCEPT !.category = c, !.folder = FolderOf(c)]
  <2>1. c \in Categories /\ FolderOf(c) \in Categories \cup {NoCategory} BY DEF Live, FolderOf
  <2>2. r \in Versions /\ r.head = entries[e].head /\ r.category = c /\ r.folder = FolderOf(c)
    BY <1>2, <2>1 DEF Versions
  <2>3. Written(e, r) BY <1>6
  <2> HIDE DEF r
  <2>4. QED BY <1>0, <1>1, <2>2, <2>3, EditedEntry
<1>7. CASE Written(e, [entries[e] EXCEPT !.live = FALSE])
  <2> DEFINE r == [entries[e] EXCEPT !.live = FALSE]
  <2>1. r \in Versions /\ r.head = entries[e].head /\ ~r.live BY <1>2 DEF Versions
  <2>2. Written(e, r) BY <1>7
  <2> HIDE DEF r
  <2>3. QED BY <1>0, <1>1, <2>1, <2>2, EditedEntry
<1>8. LibraryInv' BY <1>4, <1>5, <1>6, <1>7, Zenon DEF RemoteEdit
<1>9. QED BY <1>0, <1>8

LEMMA CommandStep ==
    ASSUME LibraryInv, Command
    PROVE  LibraryInv' /\ TreeKept(categories, categories') /\ TextKept
<1>1. CASE \E c \in Categories :
              \/ \E p \in Categories \cup {NoCategory} : create_category(c, p)
              \/ \E target \in Categories : move_category(c, target)
              \/ delete_category(c)
  <2>1. LibraryInv' /\ TreeKept(categories, categories') /\ entries' = entries
    BY <1>1, CategoryCommands
  <2>2. QED BY <2>1 DEF TextKept
<1>2. CASE \E e \in Items, c \in Categories : create_password(e, c) \/ add_key_entry(e, c)
  BY <1>2, CreateCommands
<1>3. CASE \E e \in Items, c \in Categories : move_password(e, c) \/ move_key(e, c)
  BY <1>3, EditCommands
<1>4. CASE \E e \in Items : edit_password(e) \/ edit_key(e) \/ delete_entry(e)
  BY <1>4, EditCommands, LibraryAssumption
<1>5. CASE \E e \in Items : password_summary(e) BY <1>5, SummaryCommand
<1>6. QED BY <1>1, <1>2, <1>3, <1>4, <1>5 DEF Command

LEMMA LibraryStep ==
    ASSUME LibraryInv, [LibraryNext]_lvars
    PROVE  /\ LibraryInv'
           /\ \/ remote' # remote
              \/ UNCHANGED lvars
              \/ TreeKept(categories, categories') /\ TextKept
<1>1. CASE Command BY <1>1, CommandStep
<1>2. CASE \E c \in Categories : RemoteDelete(c) \/ \E p \in Categories : RemoteMove(c, p)
  BY <1>2, MergedCategories
<1>3. CASE \E e \in Items : RemoteEdit(e) BY <1>3, MergedEntry
<1>4. CASE UNCHANGED lvars
  BY <1>4 DEF lvars, LibraryInv, LibraryTypeOK, NothingDangles, EntryOk, Live
<1>5. QED BY <1>1, <1>2, <1>3, <1>4 DEF LibraryNext

LEMMA LibraryAlways == LibrarySpec => []LibraryInv
<1>1. LibraryInit => LibraryInv BY InitLibraryInv
<1>2. LibraryInv /\ [LibraryNext]_lvars => LibraryInv' BY LibraryStep
<1>3. QED BY <1>1, <1>2, PTL DEF LibrarySpec

(* Whatever trees the merges have left, with cycles of any length or none, no *)
(* command adds to what is on one, leaves something behind in what it deletes *)
(* or touches the category of Monica for Android.                             *)
THEOREM TheTreeIsKept == LibrarySpec => CommandsKeepTheTree
<1>1. ASSUME LibraryInv, LibraryInv', LibraryNext, ~(UNCHANGED lvars)
      PROVE  KeepsTheTree
  <2> SUFFICES ASSUME remote' = remote PROVE KeepsTheTree
    BY DEF KeepsTheTree
  <2>1. TreeKept(categories, categories') BY <1>1, LibraryStep
  <2>2. \A e \in Items : entries'[e].live => entries'[e].category \in Live(categories')
    BY <1>1 DEF LibraryInv, EntryOk
  <2>3. QED BY <2>1, <2>2 DEF KeepsTheTree, TreeKept
<1>2. LibraryInv /\ LibraryInv' /\ [LibraryNext]_lvars => [KeepsTheTree]_lvars BY <1>1
<1>3. QED BY <1>2, LibraryAlways, PTL DEF LibrarySpec, CommandsKeepTheTree

(* Whatever has been merged since, an edit by way of a summary replaces what  *)
(* the summary showed; what was deleted is not created again; and the two     *)
(* records of where a password is agree.                                      *)
THEOREM TextsAreNotOverwritten == LibrarySpec => PasswordsAreKept
<1>1. ASSUME LibraryInv, LibraryInv', LibraryNext, ~(UNCHANGED lvars)
      PROVE  KeepsPasswords
  <2>1. \A e \in Passwords : entries'[e].live => entries'[e].folder = FolderOf(entries'[e].category)
    BY <1>1 DEF LibraryInv, EntryOk, Passwords
  <2>2. remote' = remote => TextKept BY <1>1, LibraryStep
  <2>3. QED BY <2>1, <2>2 DEF KeepsPasswords, TextKept
<1>2. LibraryInv /\ LibraryInv' /\ [LibraryNext]_lvars => [KeepsPasswords]_lvars BY <1>1
<1>3. QED BY <1>2, LibraryAlways, PTL DEF LibrarySpec, PasswordsAreKept

-----------------------------------------------------------------------------
(* The listing of the library.                                                *)

RowsOf(set, depths) == [id : set, depth : depths]
Rows == RowsOf(Live(tree), Nat)

(* Whatever waits with a depth has its parent above, and nothing since has    *)
(* come back to the left of it.                                               *)
Hangs(row) ==
    \E m \in 1..Len(listed) :
        /\ listed[m].id = tree[row.id].parent
        /\ row.depth = listed[m].depth + 1
        /\ \A k \in (m + 1)..Len(listed) : listed[k].depth >= row.depth

Waits(row) == IF row.depth = 0 THEN Orphan(tree, row.id) ELSE Hangs(row)

(* What has nowhere to hang, or hangs from something listed, is listed or on  *)
(* its way.                                                                   *)
Awaited(c) == \E j \in 1..Len(stack) : stack[j].id = c
NoneForgotten ==
    \A c \in Left : Orphan(tree, c) \/ tree[c].parent \in Visited => Awaited(c)

Hung(n) ==
    IF listed[n].depth = 0
      THEN Orphan(tree, listed[n].id) \/ ~Ends(tree, listed[n].id)
      ELSE \E m \in 1..(n - 1) :
            /\ listed[m].id = tree[listed[n].id].parent
            /\ listed[m].depth = listed[n].depth - 1
            /\ \A k \in (m + 1)..(n - 1) : listed[k].depth >= listed[n].depth

ListingInv ==
    /\ tree \in Trees /\ through \in BOOLEAN
    /\ listed \in Seq(Rows) /\ stack \in Seq(Rows)
    /\ \A n, m \in 1..Len(listed) : listed[n].id = listed[m].id => n = m
    /\ \A n \in 1..Len(listed) : Hung(n)
    /\ \A i, j \in 1..Len(stack) : i <= j => stack[i].depth <= stack[j].depth
    /\ \A j \in 1..Len(stack) : Waits(stack[j])
    /\ NoneForgotten
    /\ through => Left = {}

(* What comes of pushing the categories of a set.                             *)
Pushed(q, set, depth) ==
    /\ q \in Seq(RowsOf(set, {depth}))
    /\ \A c \in set : \E n \in 1..Len(q) : q[n].id = c
    /\ \A n, m \in 1..Len(q) : n < m => Rank[q[n].id] > Rank[q[m].id]

LEMMA FunctionIsSeq ==
    ASSUME NEW S, NEW n \in Nat, NEW f \in [1..n -> S]
    PROVE  f \in Seq(S) /\ Len(f) = n
OBVIOUS

LEMMA PushedRows ==
    ASSUME NEW set \in SUBSET Categories, NEW s \in Reversed(set), NEW depth \in Nat
    PROVE  Pushed(AtDepth(s, depth), set, depth)
<1>1. IsFiniteSet(set) BY TitlesAssumption, FS_Subset
<1>2. Cardinality(set) \in Nat BY <1>1, FS_CardinalityType
<1> DEFINE N == Cardinality(set)
<1>3. /\ s \in [1..N -> set]
      /\ \A c \in set : \E n \in 1..N : s[n] = c
      /\ \A n, m \in 1..N : n < m => Rank[s[n]] > Rank[s[m]]
  BY DEF Reversed
<1> HIDE DEF N
<1>4. N \in Nat BY <1>2 DEF N
<1>5. Len(s) = N BY <1>3, <1>4, FunctionIsSeq
<1> DEFINE q == [n \in 1..N |-> [id |-> s[n], depth |-> depth]]
<1>6. AtDepth(s, depth) = q BY <1>5 DEF AtDepth
<1>7. q \in [1..N -> RowsOf(set, {depth})] BY <1>3 DEF RowsOf
<1>9. \A n \in 1..N : q[n].id = s[n] OBVIOUS
<1> HIDE DEF q
<1>8. q \in Seq(RowsOf(set, {depth})) /\ Len(q) = N BY <1>4, <1>7, FunctionIsSeq
<1>10. QED BY <1>3, <1>6, <1>8, <1>9 DEF Pushed

LEMMA AtIsIn == ASSUME NEW S, NEW q \in Seq(S), NEW n \in 1..Len(q) PROVE q[n] \in S
OBVIOUS

LEMMA WiderSeq == ASSUME NEW S, NEW T, S \subseteq T, NEW q \in Seq(S) PROVE q \in Seq(T)
<1>1. \A n \in 1..Len(q) : q[n] \in T BY AtIsIn
<1>2. q \in [1..Len(q) -> S] /\ Len(q) \in Nat OBVIOUS
<1>3. q \in [1..Len(q) -> T] BY <1>1, <1>2
<1>4. QED BY <1>2, <1>3

LEMMA RowAt ==
    ASSUME NEW set, NEW depths, NEW q \in Seq(RowsOf(set, depths)), NEW n \in 1..Len(q)
    PROVE  q[n].id \in set /\ q[n].depth \in depths
<1>1. q[n] \in RowsOf(set, depths) BY AtIsIn
<1>2. QED BY <1>1 DEF RowsOf

(* The order of the titles: on the stack it is turned round, and what is      *)
(* listed comes before its siblings that wait, and before all that is left    *)
(* when a cycle was started with it.                                          *)
LastFirst(q) ==
    \A i, j \in 1..Len(q) : i < j /\ q[i].depth = q[j].depth => Rank[q[i].id] > Rank[q[j].id]
BeforeIts(row) == \A n \in 1..Len(listed) : Siblings(listed[n], row) => Rank[listed[n].id] < Rank[row.id]
First(row) == row.depth = 0 /\ ~Orphan(tree, row.id) => \A c \in Left : Rank[row.id] < Rank[c]

TitlesInv ==
    /\ LastFirst(stack)
    /\ \A j \in 1..Len(stack) : BeforeIts(stack[j])
    /\ \A n \in 1..Len(listed) : First(listed[n])
    /\ \A n, m \in 1..Len(listed) :
        n < m /\ Siblings(listed[n], listed[m]) => Rank[listed[n].id] < Rank[listed[m].id]

LEMMA OnTheEnd ==
    ASSUME NEW S, NEW q \in Seq(S), NEW r \in Seq(S)
    PROVE  /\ q \o r \in Seq(S) /\ Len(q \o r) = Len(q) + Len(r)
           /\ Len(q) \in Nat /\ Len(r) \in Nat
           /\ \A j \in 1..Len(q) : (q \o r)[j] = q[j]
           /\ \A j \in 1..Len(r) : (q \o r)[Len(q) + j] = r[j]
OBVIOUS

LEMMA InitListing == TreeInit => ListingInv /\ TitlesInv
<1> SUFFICES ASSUME TreeInit PROVE ListingInv /\ TitlesInv
  OBVIOUS
<1> DEFINE top == {c \in Live(tree) : Orphan(tree, c)}
<1>1. PICK s \in Reversed(top) : stack = AtDepth(s, 0) BY DEF TreeInit
<1>2. tree \in Trees /\ listed = <<>> /\ through = FALSE
  <2>1. PICK t \in Trees : tree = ensure_android_root(t) BY DEF TreeInit
  <2>2. CASE t[Root].live BY <2>1, <2>2 DEF TreeInit, ensure_android_root
  <2>3. CASE ~t[Root].live
    <3>1. tree = [t EXCEPT ![Root] = [live |-> TRUE, parent |-> NoCategory]]
      BY <2>1, <2>3 DEF ensure_android_root
    <3>2. QED BY <3>1 DEF TreeInit, Trees
  <2>4. QED BY <2>2, <2>3
<1>3. top \in SUBSET Categories BY DEF Live
<1>4. top \subseteq Live(tree) /\ \A c \in top : Orphan(tree, c) OBVIOUS
<1>5. \A c \in Live(tree) : Orphan(tree, c) => c \in top OBVIOUS
<1> HIDE DEF top
<1>6. Pushed(stack, top, 0) BY <1>1, <1>3, PushedRows
<1>7. \A n \in 1..Len(stack) : stack[n].id \in top /\ stack[n].depth = 0
  BY <1>6, RowAt DEF Pushed
<1>8. RowsOf(top, {0}) \subseteq Rows BY <1>4 DEF Rows, RowsOf
<1>9. stack \in Seq(Rows)
  BY <1>6, <1>8, WiderSeq DEF Pushed
<1>10. listed \in Seq(Rows) /\ Len(listed) = 0 BY <1>2
<1>11. \A j \in 1..Len(stack) : Waits(stack[j]) BY <1>4, <1>7 DEF Waits
<1>12. Visited = {} BY <1>10 DEF Visited
<1>13. NoneForgotten
  BY <1>5, <1>6, <1>12 DEF NoneForgotten, Awaited, Left, Pushed
<1>14. \A i, j \in 1..Len(stack) : i <= j => stack[i].depth <= stack[j].depth BY <1>7
<1>15. \A n \in 1..Len(listed) : FALSE BY <1>10
<1>16. ListingInv BY <1>2, <1>9, <1>10, <1>11, <1>13, <1>14, <1>15 DEF ListingInv
<1>17. LastFirst(stack) BY <1>6 DEF Pushed, LastFirst
<1>18. QED BY <1>15, <1>16, <1>17 DEF TitlesInv, BeforeIts

(* At the left margin is started only what hangs on a cycle: what is left     *)
(* then is closed going up, and nothing in it has no parent.                  *)
LEMMA LeftIsOnCycles ==
    ASSUME ListingInv, stack = <<>>, NEW c \in Left
    PROVE  ~Ends(tree, c)
<1>1. \A d \in Left : ~Orphan(tree, d) /\ tree[d].parent \notin Visited
  BY DEF ListingInv, NoneForgotten, Awaited
<1>2. Left \in SUBSET Live(tree) /\ c \in Live(tree) BY DEF Left
<1>3. Closed(tree, Left) BY <1>1 DEF Closed, Orphan, Left
<1>4. Climb(tree, c) \subseteq Left BY <1>2, <1>3 DEF Climb
<1>5. QED BY <1>1, <1>4 DEF Ends

LEMMA OneMoreLine ==
    ASSUME NEW row, listed \in Seq(Rows), listed' = Append(listed, row), tree' = tree
    PROVE  /\ Len(listed) \in Nat /\ Len(listed') = Len(listed) + 1
           /\ listed'[Len(listed) + 1] = row
           /\ \A n \in 1..Len(listed) : listed'[n] = listed[n]
           /\ Visited' = Visited \cup {row.id} /\ Left' = Left \ {row.id}
<1> DEFINE N == Len(listed)
<1>1. N \in Nat /\ Len(listed') = N + 1 /\ listed'[N + 1] = row /\ \A n \in 1..N : listed'[n] = listed[n]
  OBVIOUS
<1>2. Visited = {listed[n].id : n \in 1..N} BY DEF Visited
<1>3. Visited' = {listed'[n].id : n \in 1..(N + 1)} BY <1>1 DEF Visited
<1> HIDE DEF N
<1>4. 1..(N + 1) = 1..N \cup {N + 1} BY <1>1
<1>5. Visited' = Visited \cup {row.id} BY <1>1, <1>2, <1>3, <1>4
<1>6. Left' = Left \ {row.id} BY <1>5 DEF Left
<1>7. QED BY <1>1, <1>5, <1>6 DEF N

(* A line is added with what hangs from it; what waited below still waits.    *)
LEMMA ListedStep ==
    ASSUME ListingInv, NEW row \in Rows, NEW rest \in Seq(Rows),
           Listed(row, rest), row.id \notin Visited,
           IF row.depth = 0 THEN Orphan(tree, row.id) \/ ~Ends(tree, row.id) ELSE Hangs(row),
           ~through,
           \A j \in 1..Len(rest) : Waits(rest[j]) /\ rest[j].depth <= row.depth,
           \A i, j \in 1..Len(rest) : i <= j => rest[i].depth <= rest[j].depth,
           \A c \in Left : Orphan(tree, c) \/ tree[c].parent \in Visited =>
                c = row.id \/ \E j \in 1..Len(rest) : rest[j].id = c
    PROVE  ListingInv' /\ Left' = Left \ {row.id} /\ row.id \in Left
<1> DEFINE set == Children(tree, row.id)
           N == Len(listed)
<1>0. tree \in Trees /\ listed \in Seq(Rows) /\ row.id \in Live(tree) /\ row.depth \in Nat /\ N \in Nat
  BY DEF ListingInv, Rows, RowsOf
<1>1. listed' = Append(listed, row) /\ UNCHANGED <<tree, through>> BY DEF Listed
<1>2. PICK s \in Reversed(set) : stack' = rest \o AtDepth(s, row.depth + 1) BY DEF Listed, Onto
<1>3. set \in SUBSET Categories BY DEF Children, Live
<1> DEFINE new == AtDepth(s, row.depth + 1)
<1> HIDE DEF set
<1>a. row.depth + 1 \in Nat BY <1>0
<1>b. Pushed(new, set, row.depth + 1) BY <1>2, <1>3, <1>a, PushedRows
<1>5. \A c \in set : c \in Live(tree) /\ tree[c].parent = row.id BY DEF set, Children
<1>6. stack' = rest \o new BY <1>2
<1> HIDE DEF new
<1>4. \A n \in 1..Len(new) : new[n].id \in set /\ new[n].depth = row.depth + 1
  BY <1>b, RowAt DEF Pushed
<1>7. Rows' = Rows BY <1>1 DEF Rows
<1>c. RowsOf(set, {row.depth + 1}) \subseteq Rows BY <1>5, <1>a DEF Rows, RowsOf
<1>8. new \in Seq(Rows) BY <1>b, <1>c, WiderSeq DEF Pushed
<1>d. \A n \in 1..N : listed[n].id \in Live(tree) /\ listed[n].depth \in Nat
  BY <1>0, RowAt DEF Rows
<1>e. \A j \in 1..Len(rest) : rest[j].id \in Live(tree) /\ rest[j].depth \in Nat
  BY RowAt DEF Rows
<1>9. /\ listed' \in Seq(Rows) /\ Len(listed') = N + 1
      /\ listed'[N + 1] = row /\ \A n \in 1..N : listed'[n] = listed[n]
  <2>1. Append(listed, row) \in Seq(Rows) BY <1>0
  <2>2. QED BY <1>0, <1>1, <1>7, <2>1, OneMoreLine
<1>10. /\ stack' \in Seq(Rows) /\ Len(stack') = Len(rest) + Len(new)
       /\ Len(rest) \in Nat /\ Len(new) \in Nat
       /\ \A j \in 1..Len(rest) : stack'[j] = rest[j]
       /\ \A j \in 1..Len(new) : stack'[Len(rest) + j] = new[j]
  BY <1>6, <1>8, OnTheEnd
<1> HIDE DEF N
<1>11. Visited' = Visited \cup {row.id} BY <1>0, <1>1, OneMoreLine
<1>12. Left' = Left \ {row.id} /\ row.id \in Left BY <1>0, <1>1, OneMoreLine DEF Left
<1>13. \A n, m \in 1..Len(listed') : listed'[n].id = listed'[m].id => n = m
  <2>1. \A n \in 1..N : listed[n].id # row.id BY DEF Visited, N
  <2>2. \A n, m \in 1..N : listed[n].id = listed[m].id => n = m BY DEF ListingInv, N
  <2>3. \A n \in 1..(N + 1) : n \in 1..N \/ n = N + 1 BY <1>0
  <2>4. QED BY <1>9, <2>1, <2>2, <2>3
<1>14. ASSUME NEW n \in 1..Len(listed') PROVE Hung(n)'
  <2>1. CASE n \in 1..N
    <3>1. Hung(n) BY <2>1 DEF ListingInv, N
    <3>2. \A k \in 1..n : listed'[k] = listed[k] BY <1>0, <1>9, <2>1
    <3>3. n \in 1..n /\ n \in Nat BY <2>1
    <3>4. CASE listed[n].depth = 0 BY <1>1, <3>1, <3>2, <3>3, <3>4 DEF Hung
    <3>5. CASE listed[n].depth # 0
      <4>1. PICK m \in 1..(n - 1) :
              /\ listed[m].id = tree[listed[n].id].parent
              /\ listed[m].depth = listed[n].depth - 1
              /\ \A k \in (m + 1)..(n - 1) : listed[k].depth >= listed[n].depth
        BY <3>1, <3>5 DEF Hung
      <4>2. m \in 1..n /\ \A k \in (m + 1)..(n - 1) : k \in 1..n BY <3>3, <4>1
      <4>3. listed'[n] = listed[n] /\ listed'[m] = listed[m] BY <3>2, <3>3, <4>2
      <4>4. \A k \in (m + 1)..(n - 1) : listed'[k].depth >= listed'[n].depth
        BY <3>2, <4>1, <4>2, <4>3
      <4>5. QED BY <1>1, <3>5, <4>1, <4>3, <4>4 DEF Hung
    <3>6. QED BY <3>4, <3>5
  <2>2. CASE n = N + 1 /\ row.depth = 0
    BY <1>1, <1>9, <2>2 DEF Hung
  <2>3. CASE n = N + 1 /\ row.depth # 0
    <3>1. PICK m \in 1..N :
            /\ listed[m].id = tree[row.id].parent /\ row.depth = listed[m].depth + 1
            /\ \A k \in (m + 1)..N : listed[k].depth >= row.depth
      BY <2>3 DEF Hangs, N
    <3>2. listed[m].depth \in Nat BY <1>d
    <3>3. m \in 1..(n - 1) /\ listed'[n] = row BY <1>0, <1>9, <2>3, <3>1
    <3>4. listed'[m].depth = row.depth - 1 /\ listed'[m].id = tree[row.id].parent
      BY <1>9, <3>1, <3>2
    <3>5. \A k \in (m + 1)..(n - 1) : listed'[k].depth >= row.depth
      <4>1. \A k \in (m + 1)..(n - 1) : k \in (m + 1)..N /\ k \in 1..N BY <1>0, <2>3, <3>1
      <4>2. QED BY <1>9, <3>1, <4>1
    <3>6. QED BY <1>1, <2>3, <3>3, <3>4, <3>5 DEF Hung
  <2>4. QED BY <1>0, <1>9, <2>1, <2>2, <2>3
<1>15. \A j \in 1..Len(stack') : \/ j \in 1..Len(rest) /\ stack'[j] = rest[j]
                                 \/ \E n \in 1..Len(new) : j = Len(rest) + n /\ stack'[j] = new[n]
  <2> SUFFICES ASSUME NEW j \in 1..Len(stack')
               PROVE  \/ j \in 1..Len(rest) /\ stack'[j] = rest[j]
                      \/ \E n \in 1..Len(new) : j = Len(rest) + n /\ stack'[j] = new[n]
    OBVIOUS
  <2>1. CASE j <= Len(rest) BY <1>10, <2>1
  <2>2. CASE j > Len(rest)
    <3>1. j - Len(rest) \in 1..Len(new) /\ j = Len(rest) + (j - Len(rest)) BY <1>10, <2>2
    <3>2. QED BY <1>10, <3>1
  <2>3. QED BY <1>10, <2>1, <2>2
<1>16. \A i, j \in 1..Len(stack') : i <= j => stack'[i].depth <= stack'[j].depth
  <2> SUFFICES ASSUME NEW i \in 1..Len(stack'), NEW j \in 1..Len(stack'), i <= j
               PROVE  stack'[i].depth <= stack'[j].depth
    OBVIOUS
  <2>1. \A k \in 1..Len(rest) : rest[k].depth \in Nat BY <1>e
  <2>2. CASE j \in 1..Len(rest)
    <3>1. i \in 1..Len(rest) BY <2>2
    <3>2. QED BY <1>10, <2>2, <3>1
  <2>3. CASE j \notin 1..Len(rest)
    <3>1. stack'[j].depth = row.depth + 1
      <4>1. PICK n \in 1..Len(new) : stack'[j] = new[n] BY <1>15, <2>3
      <4>2. QED BY <1>4, <4>1
    <3>2. stack'[i].depth \in {row.depth + 1} \/ (i \in 1..Len(rest) /\ stack'[i] = rest[i])
      BY <1>4, <1>15
    <3>3. QED BY <1>0, <2>1, <3>1, <3>2
  <2>4. QED BY <2>2, <2>3
<1>17. ASSUME NEW j \in 1..Len(stack') PROVE Waits(stack[j])'
  <2>1. CASE j \in 1..Len(rest) /\ stack'[j] = rest[j]
    <3>1. Waits(rest[j]) /\ rest[j].depth <= row.depth /\ rest[j] \in Rows BY <2>1
    <3>2. CASE rest[j].depth = 0 BY <1>1, <2>1, <3>1, <3>2 DEF Waits
    <3>3. CASE rest[j].depth # 0
      <4>1. PICK m \in 1..N :
              /\ listed[m].id = tree[rest[j].id].parent /\ rest[j].depth = listed[m].depth + 1
              /\ \A k \in (m + 1)..N : listed[k].depth >= rest[j].depth
        BY <3>1, <3>3 DEF Waits, Hangs, N
      <4>2. m \in 1..(N + 1) /\ listed'[m] = listed[m] BY <1>0, <1>9, <4>1
      <4>3. rest[j].depth \in Nat BY <1>e, <2>1
      <4>4. \A k \in (m + 1)..(N + 1) : listed'[k].depth >= rest[j].depth
        <5>1. m \in Nat /\ N \in Nat /\ m >= 1 BY <1>0, <4>1
        <5>3. \A k \in (m + 1)..(N + 1) : k = N + 1 \/ (k \in (m + 1)..N /\ k \in 1..N)
          BY <5>1
        <5>2. QED BY <1>9, <3>1, <4>1, <4>3, <5>3
      <4>5. tree' = tree /\ Len(listed') = N + 1 /\ stack'[j] = rest[j] BY <1>1, <1>9, <2>1
      <4>6. Hangs(stack[j])' BY <4>1, <4>2, <4>4, <4>5 DEF Hangs
      <4>7. QED BY <2>1, <3>3, <4>6 DEF Waits
    <3>4. QED BY <3>2, <3>3
  <2>2. ASSUME NEW n \in 1..Len(new), stack'[j] = new[n] PROVE Waits(stack[j])'
    <3>1. stack'[j].depth = row.depth + 1 /\ tree[stack'[j].id].parent = row.id
      BY <1>4, <1>5, <2>2
    <3>2. N + 1 \in 1..Len(listed') /\ listed'[N + 1] = row BY <1>0, <1>9
    <3>3. \A k \in (N + 2)..Len(listed') : FALSE BY <1>0, <1>9
    <3>4. row.depth + 1 # 0 BY <1>0
    <3>5. QED BY <1>0, <1>1, <1>9, <3>1, <3>2, <3>3, <3>4 DEF Waits, Hangs
  <2>3. QED BY <1>15, <2>1, <2>2
<1>18. NoneForgotten'
  <2> SUFFICES ASSUME NEW c \in Left', Orphan(tree, c) \/ tree[c].parent \in Visited'
               PROVE  Awaited(c)'
    BY <1>1 DEF NoneForgotten, Orphan, Live
  <2>1. c \in Left /\ c # row.id BY <1>12
  <2>2. CASE Orphan(tree, c) \/ tree[c].parent \in Visited
    <3>1. PICK j \in 1..Len(rest) : rest[j].id = c BY <2>1, <2>2
    <3>2. QED BY <1>10, <3>1 DEF Awaited
  <2>3. CASE tree[c].parent = row.id
    <3>1. c \in set BY <2>1, <2>3 DEF set, Children, Left
    <3>2. PICK n \in 1..Len(new) : new[n].id = c BY <1>b, <3>1 DEF Pushed
    <3>3. QED BY <1>10, <3>2 DEF Awaited
  <2>4. QED BY <1>11, <2>2, <2>3
<1>19. QED
  BY <1>0, <1>1, <1>7, <1>9, <1>10, <1>12, <1>13, <1>14, <1>16, <1>17, <1>18 DEF ListingInv

(* A line comes after its siblings that are listed, and before those that     *)
(* wait; what it pushes has none listed yet.                                  *)
LEMMA ListedInOrder ==
    ASSUME ListingInv, ListingInv', TitlesInv, NEW row \in Rows, NEW rest \in Seq(Rows),
           Listed(row, rest), row.id \notin Visited,
           Left' = Left \ {row.id}, row.id \in Left,
           \A j \in 1..Len(rest) : BeforeIts(rest[j]) /\ rest[j].depth <= row.depth,
           LastFirst(rest),
           \A j \in 1..Len(rest) : rest[j].depth = row.depth => Rank[row.id] < Rank[rest[j].id],
           BeforeIts(row),
           row.depth = 0 /\ ~Orphan(tree, row.id) => \A c \in Left : Rank[row.id] <= Rank[c]
    PROVE  TitlesInv'
<1> DEFINE set == Children(tree, row.id)
           N == Len(listed)
<1>0. listed \in Seq(Rows) /\ row.id \in Live(tree) /\ row.depth \in Nat /\ N \in Nat
  BY DEF ListingInv, Rows, RowsOf
<1>1. listed' = Append(listed, row) /\ UNCHANGED <<tree, through>> BY DEF Listed
<1>2. PICK s \in Reversed(set) : stack' = rest \o AtDepth(s, row.depth + 1) BY DEF Listed, Onto
<1>3. set \in SUBSET Categories /\ set \subseteq Live(tree) BY DEF Children, Live
<1> DEFINE new == AtDepth(s, row.depth + 1)
<1>4. \A c \in set : tree[c].parent = row.id BY DEF Children
<1> HIDE DEF set
<1>5. row.depth + 1 \in Nat BY <1>0
<1>6. Pushed(new, set, row.depth + 1) BY <1>2, <1>3, <1>5, PushedRows
<1>7. stack' = rest \o new BY <1>2
<1> HIDE DEF new
<1>8. \A n \in 1..Len(new) : new[n].id \in set /\ new[n].depth = row.depth + 1
  BY <1>6, RowAt DEF Pushed
<1>9. RowsOf(set, {row.depth + 1}) \subseteq Rows BY <1>3, <1>5 DEF Rows, RowsOf
<1>10. new \in Seq(Rows) BY <1>6, <1>9, WiderSeq DEF Pushed
<1>11. /\ Len(listed') = N + 1 /\ listed'[N + 1] = row
       /\ \A n \in 1..N : listed'[n] = listed[n]
  BY <1>0, <1>1, OneMoreLine
<1>12. /\ Len(stack') = Len(rest) + Len(new)
       /\ Len(rest) \in Nat /\ Len(new) \in Nat
       /\ \A j \in 1..Len(rest) : stack'[j] = rest[j]
       /\ \A j \in 1..Len(new) : stack'[Len(rest) + j] = new[j]
  BY <1>7, <1>10, OnTheEnd
<1> HIDE DEF N
<1>13. \A n \in 1..Len(listed') : (n \in 1..N /\ listed'[n] = listed[n]) \/ (n = N + 1 /\ listed'[n] = row)
  <2>1. \A n \in 1..(N + 1) : n \in 1..N \/ n = N + 1 BY <1>0
  <2>2. QED BY <1>11, <2>1
<1>14. ASSUME NEW j \in 1..Len(stack')
       PROVE  \/ j \in 1..Len(rest) /\ stack'[j] = rest[j]
              \/ \E n \in 1..Len(new) : j = Len(rest) + n /\ stack'[j] = new[n]
  <2>1. CASE j <= Len(rest) BY <1>12, <2>1
  <2>2. CASE j > Len(rest)
    <3>1. j - Len(rest) \in 1..Len(new) /\ j = Len(rest) + (j - Len(rest)) BY <1>12, <2>2
    <3>2. QED BY <1>12, <3>1
  <2>3. QED BY <1>12, <2>1, <2>2
<1>15. \A j \in 1..Len(rest) : rest[j].depth \in Nat BY RowAt DEF Rows
<1>16. \A n \in 1..N : listed[n].id \in Live(tree) /\ listed[n].depth \in Nat
  BY <1>0, RowAt DEF Rows, N
<1>17. \A c \in Categories : Rank[c] \in Nat BY TitlesAssumption
<1>18. Left \subseteq Categories /\ row.id \in Categories /\ set \subseteq Categories
  BY <1>0, <1>3 DEF Left, Live
<1>19. \A c \in set : \A n \in 1..N : listed[n].depth = row.depth + 1 => tree[listed[n].id].parent # row.id
  <2> SUFFICES ASSUME NEW n \in 1..N, listed[n].depth = row.depth + 1, tree[listed[n].id].parent = row.id
               PROVE  FALSE
    OBVIOUS
  <2>1. Hung(n) BY DEF ListingInv, N
  <2>2. listed[n].depth # 0 BY <1>0
  <2>3. PICK m \in 1..(n - 1) : listed[m].id = row.id BY <2>1, <2>2 DEF Hung
  <2>4. m \in 1..N BY <1>0, <2>3
  <2>5. QED BY <2>3, <2>4 DEF Visited, N
<1>20. LastFirst(stack')
  <2> SUFFICES ASSUME NEW i \in 1..Len(stack'), NEW j \in 1..Len(stack'), i < j,
                      stack'[i].depth = stack'[j].depth
               PROVE  Rank[stack'[i].id] > Rank[stack'[j].id]
    BY DEF LastFirst
  <2>1. CASE j \in 1..Len(rest)
    <3>1. i \in 1..Len(rest) BY <2>1
    <3>2. QED BY <1>12, <2>1, <3>1 DEF LastFirst
  <2>2. CASE j \notin 1..Len(rest)
    <3>1. PICK m \in 1..Len(new) : j = Len(rest) + m /\ stack'[j] = new[m] BY <1>14, <2>2
    <3>2. stack'[i].depth = row.depth + 1 BY <1>8, <3>1
    <3>3. i \notin 1..Len(rest)
      <4> SUFFICES ASSUME i \in 1..Len(rest) PROVE FALSE
        OBVIOUS
      <4>1. rest[i].depth = row.depth + 1 /\ rest[i].depth <= row.depth BY <1>12, <3>2
      <4>2. QED BY <1>0, <4>1
    <3>4. PICK n \in 1..Len(new) : i = Len(rest) + n /\ stack'[i] = new[n] BY <1>14, <3>3
    <3>5. n < m BY <1>12, <3>1, <3>4
    <3>6. QED BY <1>6, <3>1, <3>4, <3>5 DEF Pushed
  <2>3. QED BY <2>1, <2>2
<1>21. ASSUME NEW j \in 1..Len(stack'), NEW n \in 1..Len(listed'), Siblings(listed'[n], stack'[j])
       PROVE  Rank[listed'[n].id] < Rank[stack'[j].id]
  <2>1. CASE j \in 1..Len(rest) /\ stack'[j] = rest[j]
    <3>1. CASE n \in 1..N /\ listed'[n] = listed[n] BY <1>21, <2>1, <3>1 DEF BeforeIts, N
    <3>2. CASE listed'[n] = row BY <1>21, <2>1, <3>2 DEF Siblings
    <3>3. QED BY <1>13, <3>1, <3>2
  <2>2. ASSUME NEW m \in 1..Len(new), stack'[j] = new[m] PROVE FALSE
    <3>1. stack'[j].depth = row.depth + 1 /\ stack'[j].id \in set /\ tree[stack'[j].id].parent = row.id
      BY <1>4, <1>8, <2>2
    <3>2. listed'[n].depth = row.depth + 1 /\ listed'[n].depth # 0 BY <1>0, <1>21, <3>1 DEF Siblings
    <3>3. tree[listed'[n].id].parent = row.id BY <1>21, <3>1, <3>2 DEF Siblings
    <3>4. listed'[n] # row BY <1>0, <3>2
    <3>5. n \in 1..N /\ listed'[n] = listed[n] BY <1>13, <3>4
    <3>6. QED BY <1>19, <3>1, <3>2, <3>3, <3>5
  <2>3. QED BY <1>14, <2>1, <2>2
<1>22. ASSUME NEW n \in 1..Len(listed') PROVE First(listed[n])'
  <2> SUFFICES ASSUME listed'[n].depth = 0, ~Orphan(tree, listed'[n].id), NEW c \in Left'
               PROVE  Rank[listed'[n].id] < Rank[c]
    BY <1>1 DEF First
  <2>1. c \in Left /\ c # row.id BY <1>1
  <2>2. CASE n \in 1..N /\ listed'[n] = listed[n]
    <3>1. First(listed[n]) BY <2>2 DEF TitlesInv, N
    <3>2. QED BY <2>1, <2>2, <3>1 DEF First
  <2>3. CASE listed'[n] = row
    <3>1. Rank[row.id] <= Rank[c] BY <2>1, <2>3
    <3>2. Rank[row.id] # Rank[c] BY <1>18, <2>1, TitlesAssumption
    <3>3. QED BY <1>17, <1>18, <2>1, <2>3, <3>1, <3>2
  <2>4. QED BY <1>13, <2>2, <2>3
<1>23. ASSUME NEW n \in 1..Len(listed'), NEW m \in 1..Len(listed'), n < m, Siblings(listed'[n], listed'[m])
       PROVE  Rank[listed'[n].id] < Rank[listed'[m].id]
  <2>1. n \in 1..N /\ listed'[n] = listed[n]
    <3>1. n # N + 1 BY <1>0, <1>11, <1>23
    <3>2. QED BY <1>13, <3>1
  <2>2. CASE m \in 1..N /\ listed'[m] = listed[m] BY <1>23, <2>1, <2>2 DEF TitlesInv, N
  <2>3. CASE listed'[m] = row BY <1>23, <2>1, <2>3 DEF BeforeIts, N
  <2>4. QED BY <1>13, <2>2, <2>3
<1>24. (\A j \in 1..Len(stack) : BeforeIts(stack[j]))' BY <1>1, <1>21 DEF BeforeIts, Siblings
<1>25. (\A n, m \in 1..Len(listed) :
          n < m /\ Siblings(listed[n], listed[m]) => Rank[listed[n].id] < Rank[listed[m].id])'
  BY <1>1, <1>23 DEF Siblings
<1>26. QED BY <1>20, <1>22, <1>24, <1>25 DEF TitlesInv, LastFirst

LEMMA TopAndRest ==
    ASSUME NEW S, NEW q \in Seq(S), q # <<>>
    PROVE  /\ Len(q) \in 1..Len(q) /\ q[Len(q)] \in S
           /\ SubSeq(q, 1, Len(q) - 1) \in Seq(S)
           /\ Len(SubSeq(q, 1, Len(q) - 1)) = Len(q) - 1
           /\ \A j \in 1..(Len(q) - 1) : SubSeq(q, 1, Len(q) - 1)[j] = q[j]
<1>1. Len(q) \in Nat /\ Len(q) # 0 OBVIOUS
<1>2. Len(q) \in 1..Len(q) /\ Len(q) - 1 \in Nat BY <1>1
<1>3. \A j \in 1..(Len(q) - 1) : j \in 1..Len(q) BY <1>1
<1>4. \A j \in 1..Len(q) : q[j] \in S BY AtIsIn
<1>5. SubSeq(q, 1, Len(q) - 1) = [j \in 1..(Len(q) - 1) |-> q[j]] BY <1>1
<1> DEFINE r == [j \in 1..(Len(q) - 1) |-> q[j]]
<1>6. r \in [1..(Len(q) - 1) -> S] BY <1>3, <1>4
<1>7. r \in Seq(S) BY <1>2, <1>6
<1>8. Len(r) = Len(q) - 1 BY <1>2
<1>9. QED BY <1>2, <1>4, <1>5, <1>7, <1>8

(* What is below the row on top.                                              *)
LEMMA OnTop ==
    ASSUME ListingInv, stack # <<>>
    PROVE  /\ Top \in Rows /\ Rest \in Seq(Rows)
           /\ Len(stack) \in 1..Len(stack) /\ Len(Rest) = Len(stack) - 1
           /\ \A j \in 1..Len(Rest) : j \in 1..Len(stack) /\ Rest[j] = stack[j]
           /\ \A j \in 1..Len(stack) : j \in 1..Len(Rest) \/ stack[j] = Top
           /\ Waits(Top)
           /\ \A j \in 1..Len(Rest) : Waits(Rest[j]) /\ Rest[j].depth <= Top.depth
           /\ \A i, j \in 1..Len(Rest) : i <= j => Rest[i].depth <= Rest[j].depth
<1>1. stack \in Seq(Rows) BY DEF ListingInv
<1>2. /\ Top \in Rows /\ Rest \in Seq(Rows)
      /\ Len(stack) \in 1..Len(stack) /\ Len(Rest) = Len(stack) - 1
      /\ \A j \in 1..(Len(stack) - 1) : Rest[j] = stack[j]
  BY <1>1, TopAndRest DEF Top, Rest
<1>3. \A j \in 1..Len(Rest) : j \in 1..Len(stack) /\ j <= Len(stack) /\ Rest[j] = stack[j]
  BY <1>2
<1>4. \A j \in 1..Len(stack) : j \in 1..Len(Rest) \/ stack[j] = Top BY <1>2 DEF Top
<1>5. \A j \in 1..Len(stack) : Waits(stack[j]) BY DEF ListingInv
<1>6. \A i, j \in 1..Len(stack) : i <= j => stack[i].depth <= stack[j].depth BY DEF ListingInv
<1>7. Top = stack[Len(stack)] BY DEF Top
<1>8. Waits(Top) BY <1>2, <1>5, <1>7
<1>9. \A j \in 1..Len(Rest) : Waits(Rest[j]) /\ Rest[j].depth <= Top.depth
  BY <1>2, <1>3, <1>5, <1>6, <1>7
<1>10. \A i, j \in 1..Len(Rest) : i <= j => Rest[i].depth <= Rest[j].depth
  BY <1>3, <1>6
<1>11. QED BY <1>2, <1>3, <1>4, <1>8, <1>9, <1>10

(* What one turn of the loop does: it lists a category of what is left for    *)
(* good, or drops a row that is listed already, or ends.                      *)
Headway ==
    \/ \E c \in Left : Left' = Left \ {c} /\ UNCHANGED through
    \/ Left' = Left /\ Len(stack') = Len(stack) - 1 /\ stack # <<>> /\ UNCHANGED through
    \/ Left' = Left /\ Left = {} /\ stack = <<>> /\ ~through /\ through'

LEMMA PopStep == ListingInv /\ Pop => ListingInv' /\ Headway
<1> SUFFICES ASSUME ListingInv, Pop PROVE ListingInv' /\ Headway
  OBVIOUS
<1>1. ~through /\ stack # <<>> /\ Top.id \notin Visited /\ Listed(Top, Rest) BY DEF Pop
<1>2. /\ Top \in Rows /\ Rest \in Seq(Rows) /\ Waits(Top)
      /\ \A j \in 1..Len(Rest) : j \in 1..Len(stack) /\ Rest[j] = stack[j]
      /\ \A j \in 1..Len(stack) : j \in 1..Len(Rest) \/ stack[j] = Top
      /\ \A j \in 1..Len(Rest) : Waits(Rest[j]) /\ Rest[j].depth <= Top.depth
      /\ \A i, j \in 1..Len(Rest) : i <= j => Rest[i].depth <= Rest[j].depth
  BY <1>1, OnTop
<1>3. IF Top.depth = 0 THEN Orphan(tree, Top.id) \/ ~Ends(tree, Top.id) ELSE Hangs(Top)
  BY <1>2 DEF Waits
<1>4. ASSUME NEW c \in Left, Orphan(tree, c) \/ tree[c].parent \in Visited
      PROVE  c = Top.id \/ \E j \in 1..Len(Rest) : Rest[j].id = c
  <2>1. PICK j \in 1..Len(stack) : stack[j].id = c
    BY <1>4 DEF ListingInv, NoneForgotten, Awaited
  <2>2. QED BY <1>2, <2>1
<1>5. ListingInv' /\ Left' = Left \ {Top.id} /\ Top.id \in Left
  BY <1>1, <1>2, <1>3, <1>4, ListedStep
<1>6. UNCHANGED through BY <1>1 DEF Listed
<1>7. QED BY <1>5, <1>6 DEF Headway

LEMMA SkipStep == ListingInv /\ Skip => ListingInv' /\ Headway
<1> SUFFICES ASSUME ListingInv, Skip PROVE ListingInv' /\ Headway
  OBVIOUS
<1>1. stack # <<>> /\ Top.id \in Visited /\ stack' = Rest /\ UNCHANGED <<tree, listed, through>>
  BY DEF Skip
<1>2. /\ Rest \in Seq(Rows) /\ Len(Rest) = Len(stack) - 1
      /\ \A j \in 1..Len(stack) : j \in 1..Len(Rest) \/ stack[j] = Top
      /\ \A j \in 1..Len(Rest) : j \in 1..Len(stack) /\ Rest[j] = stack[j]
      /\ \A j \in 1..Len(Rest) : Waits(Rest[j])
      /\ \A i, j \in 1..Len(Rest) : i <= j => Rest[i].depth <= Rest[j].depth
  BY <1>1, OnTop
<1>3. Left' = Left /\ Visited' = Visited /\ Rows' = Rows BY <1>1 DEF Left, Visited, Rows
<1>4. \A j \in 1..Len(stack') : Waits(stack[j])'
  <2> SUFFICES ASSUME NEW j \in 1..Len(stack') PROVE Waits(stack[j])'
    OBVIOUS
  <2>1. Waits(stack'[j]) BY <1>1, <1>2
  <2>2. QED BY <1>1, <2>1 DEF Waits, Hangs
<1>5. NoneForgotten'
  <2> SUFFICES ASSUME NEW c \in Left, Orphan(tree, c) \/ tree[c].parent \in Visited
               PROVE  \E j \in 1..Len(Rest) : Rest[j].id = c
    BY <1>1, <1>3 DEF NoneForgotten, Awaited
  <2>1. PICK j \in 1..Len(stack) : stack[j].id = c BY DEF ListingInv, NoneForgotten, Awaited
  <2>2. stack[j] # Top BY <1>1, <2>1 DEF Left
  <2>3. QED BY <1>2, <2>1, <2>2
<1>6. \A n \in 1..Len(listed') : Hung(n)' BY <1>1 DEF ListingInv, Hung
<1>7. /\ tree' \in Trees /\ through' \in BOOLEAN /\ listed' \in Seq(Rows') /\ stack' \in Seq(Rows')
      /\ \A n, m \in 1..Len(listed') : listed'[n].id = listed'[m].id => n = m
      /\ through' => Left' = {}
  BY <1>1, <1>2, <1>3 DEF ListingInv
<1>8. ListingInv' BY <1>1, <1>2, <1>4, <1>5, <1>6, <1>7 DEF ListingInv
<1>9. QED BY <1>1, <1>2, <1>3, <1>8 DEF Headway

LEMMA StartCycleStep == ListingInv /\ StartCycle => ListingInv' /\ Headway
<1> SUFFICES ASSUME ListingInv, StartCycle PROVE ListingInv' /\ Headway
  OBVIOUS
<1>1. ~through /\ stack = <<>> BY DEF StartCycle
<1>2. PICK c \in Left : Listed([id |-> c, depth |-> 0], <<>>) BY DEF StartCycle
<1> DEFINE row == [id |-> c, depth |-> 0]
<1>3. ~Ends(tree, c) BY <1>1, LeftIsOnCycles
<1>4. c \in Live(tree) /\ c \notin Visited BY DEF Left
<1>5. row.id = c /\ row.depth = 0 /\ row \in Rows BY <1>4 DEF Rows, RowsOf
<1>6. Listed(row, <<>>) BY <1>2
<1> HIDE DEF row
<1>7. \A d \in Left : ~(Orphan(tree, d) \/ tree[d].parent \in Visited)
  BY <1>1 DEF ListingInv, NoneForgotten, Awaited
<1> DEFINE rest == <<>>
<1>8. rest \in Seq(Rows) /\ Len(rest) = 0 /\ Listed(row, rest) BY <1>6
<1> HIDE DEF rest
<1>9. /\ \A j \in 1..Len(rest) : Waits(rest[j]) /\ rest[j].depth <= row.depth
      /\ \A i, j \in 1..Len(rest) : i <= j => rest[i].depth <= rest[j].depth
  BY <1>8
<1>10. ListingInv' /\ Left' = Left \ {row.id} /\ row.id \in Left
  BY <1>1, <1>3, <1>4, <1>5, <1>7, <1>8, <1>9, ListedStep
<1>11. UNCHANGED through BY <1>6 DEF Listed
<1>12. QED BY <1>10, <1>11 DEF Headway

LEMMA ThroughStep == ListingInv /\ Through => ListingInv' /\ Headway
<1> SUFFICES ASSUME ListingInv, Through PROVE ListingInv' /\ Headway
  OBVIOUS
<1>1. ~through /\ stack = <<>> /\ Left = {} /\ through' = TRUE /\ UNCHANGED <<tree, stack, listed>>
  BY DEF Through
<1>2. Left' = Left /\ Visited' = Visited /\ Rows' = Rows BY <1>1 DEF Left, Visited, Rows
<1>3. NoneForgotten' BY <1>1, <1>2 DEF NoneForgotten
<1>4. \A n \in 1..Len(listed') : Hung(n)' BY <1>1 DEF ListingInv, Hung
<1>5. \A j \in 1..Len(stack') : FALSE BY <1>1
<1>6. ListingInv' BY <1>1, <1>2, <1>3, <1>4, <1>5 DEF ListingInv
<1>7. QED BY <1>1, <1>2, <1>6 DEF Headway

LEMMA PopInOrder ==
    ASSUME ListingInv, ListingInv', TitlesInv, Pop
    PROVE  TitlesInv'
<1>1. ~through /\ stack # <<>> /\ Top.id \notin Visited /\ Listed(Top, Rest) BY DEF Pop
<1>2. /\ Top \in Rows /\ Rest \in Seq(Rows) /\ Waits(Top)
      /\ Len(stack) \in 1..Len(stack) /\ Len(Rest) = Len(stack) - 1
      /\ \A j \in 1..Len(Rest) : j \in 1..Len(stack) /\ Rest[j] = stack[j]
      /\ \A j \in 1..Len(Rest) : Rest[j].depth <= Top.depth
  BY <1>1, OnTop
<1>3. Top.id \in Live(tree) /\ Top.id \in Left
  <2>1. Top.id \in Live(tree) BY <1>2 DEF Rows, RowsOf
  <2>2. QED BY <1>1, <2>1 DEF Left
<1>4. Left' = Left \ {Top.id}
  <2>1. listed' = Append(listed, Top) /\ tree' = tree BY <1>1 DEF Listed
  <2>2. listed \in Seq(Rows) BY DEF ListingInv
  <2>3. QED BY <2>1, <2>2, OneMoreLine
<1>5. \A j \in 1..Len(Rest) : BeforeIts(Rest[j]) BY <1>2 DEF TitlesInv
<1>6. BeforeIts(Top) BY <1>2 DEF TitlesInv, Top
<1>7. LastFirst(Rest) BY <1>2 DEF TitlesInv, LastFirst
<1>8. \A j \in 1..Len(Rest) : Rest[j].depth = Top.depth => Rank[Top.id] < Rank[Rest[j].id]
  <2> SUFFICES ASSUME NEW j \in 1..Len(Rest), Rest[j].depth = Top.depth
               PROVE  Rank[Top.id] < Rank[Rest[j].id]
    OBVIOUS
  <2>1. j \in 1..Len(stack) /\ j < Len(stack) /\ Rest[j] = stack[j] /\ Top = stack[Len(stack)]
    BY <1>2 DEF Top
  <2>2. Rank[Rest[j].id] > Rank[Top.id] BY <1>2, <2>1 DEF TitlesInv, LastFirst
  <2>3. Rest[j].id \in Live(tree) BY <1>2, RowAt DEF Rows
  <2>4. Rank[Rest[j].id] \in Nat /\ Rank[Top.id] \in Nat BY <1>3, <2>3, TitlesAssumption DEF Live
  <2>5. QED BY <2>2, <2>4
<1>9. ~(Top.depth = 0 /\ ~Orphan(tree, Top.id)) BY <1>2 DEF Waits
<1>10. QED
  BY <1>1, <1>2, <1>3, <1>4, <1>5, <1>6, <1>7, <1>8, <1>9, ListedInOrder

LEMMA StartCycleInOrder ==
    ASSUME ListingInv, ListingInv', TitlesInv, StartCycle
    PROVE  TitlesInv'
<1>1. stack = <<>> BY DEF StartCycle
<1>2. PICK c \in Left : /\ \A d \in Left : Rank[c] <= Rank[d]
                        /\ Listed([id |-> c, depth |-> 0], <<>>)
  BY DEF StartCycle
<1> DEFINE row == [id |-> c, depth |-> 0]
<1>3. c \in Live(tree) /\ c \notin Visited BY DEF Left
<1>4. row.id = c /\ row.depth = 0 /\ row \in Rows BY <1>3 DEF Rows, RowsOf
<1>5. Listed(row, <<>>) BY <1>2
<1> HIDE DEF row
<1> DEFINE rest == <<>>
<1>6. rest \in Seq(Rows) /\ Len(rest) = 0 /\ Listed(row, rest) BY <1>5
<1> HIDE DEF rest
<1>7. Left' = Left \ {row.id}
  <2>1. listed' = Append(listed, row) /\ tree' = tree BY <1>5 DEF Listed
  <2>2. listed \in Seq(Rows) BY DEF ListingInv
  <2>3. QED BY <2>1, <2>2, OneMoreLine
<1>8. ~Orphan(tree, c) BY <1>1 DEF ListingInv, NoneForgotten, Awaited
<1>9. BeforeIts(row)
  <2> SUFFICES ASSUME NEW n \in 1..Len(listed), Siblings(listed[n], row)
               PROVE  Rank[listed[n].id] < Rank[row.id]
    BY DEF BeforeIts
  <2>1. listed[n].depth = 0 /\ ~Orphan(tree, listed[n].id) BY <1>4, <1>8 DEF Siblings
  <2>2. QED BY <1>4, <2>1 DEF TitlesInv, First
<1>10. /\ \A j \in 1..Len(rest) : BeforeIts(rest[j]) /\ rest[j].depth <= row.depth
       /\ \A j \in 1..Len(rest) : rest[j].depth = row.depth => Rank[row.id] < Rank[rest[j].id]
       /\ LastFirst(rest)
  BY <1>6 DEF LastFirst
<1>11. \A d \in Left : Rank[row.id] <= Rank[d] BY <1>2, <1>4
<1>12. QED BY <1>3, <1>4, <1>6, <1>7, <1>9, <1>10, <1>11, ListedInOrder

LEMMA SkipInOrder ==
    ASSUME ListingInv, TitlesInv, Skip
    PROVE  TitlesInv'
<1>1. stack # <<>> /\ stack' = Rest /\ UNCHANGED <<tree, listed, through>> BY DEF Skip
<1>2. \A j \in 1..Len(Rest) : j \in 1..Len(stack) /\ Rest[j] = stack[j] BY <1>1, OnTop
<1>3. LastFirst(stack') BY <1>1, <1>2 DEF TitlesInv, LastFirst
<1>4. \A j \in 1..Len(stack') : BeforeIts(stack'[j]) BY <1>1, <1>2 DEF TitlesInv
<1>5. (\A j \in 1..Len(stack) : BeforeIts(stack[j]))' BY <1>1, <1>4 DEF BeforeIts, Siblings
<1>6. (\A n \in 1..Len(listed) : First(listed[n]))' BY <1>1 DEF TitlesInv, First, Left, Visited
<1>7. (\A n, m \in 1..Len(listed) :
         n < m /\ Siblings(listed[n], listed[m]) => Rank[listed[n].id] < Rank[listed[m].id])'
  BY <1>1 DEF TitlesInv, Siblings
<1>8. QED BY <1>3, <1>5, <1>6, <1>7 DEF TitlesInv, LastFirst

LEMMA TitlesStay ==
    ASSUME TitlesInv, UNCHANGED <<tree, stack, listed>>
    PROVE  TitlesInv'
<1>1. LastFirst(stack)' BY DEF TitlesInv, LastFirst
<1>2. (\A j \in 1..Len(stack) : BeforeIts(stack[j]))' BY DEF TitlesInv, BeforeIts, Siblings
<1>3. (\A n \in 1..Len(listed) : First(listed[n]))' BY DEF TitlesInv, First, Left, Visited
<1>4. (\A n, m \in 1..Len(listed) :
         n < m /\ Siblings(listed[n], listed[m]) => Rank[listed[n].id] < Rank[listed[m].id])'
  BY DEF TitlesInv, Siblings
<1>5. QED BY <1>1, <1>2, <1>3, <1>4 DEF TitlesInv

LEMMA TreeStep == ListingInv /\ TreeNext => ListingInv' /\ Headway
BY PopStep, SkipStep, StartCycleStep, ThroughStep DEF TreeNext

LEMMA TitlesStep == ListingInv /\ TitlesInv /\ TreeNext => TitlesInv'
<1> SUFFICES ASSUME ListingInv, TitlesInv, TreeNext PROVE TitlesInv'
  OBVIOUS
<1>1. ListingInv' BY TreeStep
<1>2. Through => UNCHANGED <<tree, stack, listed>> BY DEF Through
<1>3. QED
  BY <1>1, <1>2, PopInOrder, StartCycleInOrder, SkipInOrder, TitlesStay DEF TreeNext

LEMMA TreeStutter == ListingInv /\ UNCHANGED cvars => ListingInv'
<1> SUFFICES ASSUME ListingInv, UNCHANGED cvars PROVE ListingInv'
  OBVIOUS
<1>1. UNCHANGED <<tree, stack, listed, through>> BY DEF cvars
<1>2. Left' = Left /\ Visited' = Visited /\ Rows' = Rows BY <1>1 DEF Left, Visited, Rows
<1>3. NoneForgotten' BY <1>1, <1>2 DEF ListingInv, NoneForgotten, Awaited
<1>4. \A n \in 1..Len(listed') : Hung(n)' BY <1>1 DEF ListingInv, Hung
<1>5. \A j \in 1..Len(stack') : Waits(stack[j])' BY <1>1 DEF ListingInv, Waits, Hangs
<1>6. QED BY <1>1, <1>2, <1>3, <1>4, <1>5 DEF ListingInv

LEMMA ListingAlways == TreeSpec => [](ListingInv /\ TitlesInv)
<1>1. TreeInit => ListingInv /\ TitlesInv BY InitListing
<1>2. UNCHANGED cvars => UNCHANGED <<tree, stack, listed>> BY DEF cvars
<1>3. ListingInv /\ TitlesInv /\ [TreeNext]_cvars => (ListingInv /\ TitlesInv)'
  BY <1>2, TreeStep, TitlesStep, TreeStutter, TitlesStay
<1>4. QED BY <1>1, <1>3, PTL DEF TreeSpec

(* The listing of the library names every category once, whatever parents a   *)
(* merge has left, under its parent or at the margin for a reason, siblings   *)
(* by title (Library::category_tree).                                         *)
THEOREM EveryCategoryOnce == TreeSpec => []EveryCategoryIsListed
<1>1. ListingInv /\ TitlesInv => EveryCategoryIsListed
  <2> SUFFICES ASSUME ListingInv, TitlesInv PROVE EveryCategoryIsListed
    OBVIOUS
  <2>1. \A n \in 1..Len(listed) : listed[n].id \in Live(tree)
    BY RowAt DEF ListingInv, Rows
  <2>2. Visited \subseteq Live(tree) BY <2>1 DEF Visited
  <2>3. through => Visited = Live(tree) BY <2>2 DEF ListingInv, Left
  <2>4. \A n, m \in 1..Len(listed) : listed[n].id = listed[m].id => n = m BY DEF ListingInv
  <2>5. \A n \in 1..Len(listed) : Hung(n) BY DEF ListingInv
  <2>6. \A n, m \in 1..Len(listed) :
          n < m /\ Siblings(listed[n], listed[m]) => Rank[listed[n].id] < Rank[listed[m].id]
    BY DEF TitlesInv
  <2>7. QED BY <2>2, <2>3, <2>4, <2>5, <2>6 DEF EveryCategoryIsListed, Hung
<1>2. QED BY <1>1, ListingAlways, PTL

(* The loop is bounded even for the cycles of an import, as its comment says: *)
(* each turn takes a category out of what is left for good, or drops a row of *)
(* the stack, or is the last.  A category that is left never comes back, so   *)
(* no infinite run of turns exists.                                           *)
THEOREM ListingMakesHeadway == TreeSpec => [][Headway]_cvars
<1>1. ListingInv /\ [TreeNext]_cvars => [Headway]_cvars BY TreeStep
<1>2. QED BY <1>1, ListingAlways, PTL DEF TreeSpec
=============================================================================
