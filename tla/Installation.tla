---------------------------- MODULE Installation ----------------------------
(* Writing into a file that belongs to another program: the entry of a grant  *)
(* among the servers of an MCP client (install.rs), and the settings of a     *)
(* client that is to hold the upstream key itself (direct_config.rs).  The    *)
(* client and its owner write the same file whenever they like.               *)
(*                                                                            *)
(* A content is the set of the settings in it: merging adds one's own and     *)
(* keeps the rest.  Every setting is written once, so one that is in no file  *)
(* any more has been lost.                                                    *)
EXTENDS Naturals, FiniteSets

CONSTANTS
    Installer,  \* runs of `grant install`, one after the other
    Direct,     \* runs of the direct configuration, beside it
    Attempts,   \* names back_up tries in one second (16)
    MaxEdits,   \* bound on what the owner writes
    MaxBackups  \* bound on the backups taken before the last run starts

VARIABLES
    file,       \* the content of the file, or Absent
    backups,    \* the files kept beside it, by name
    run,        \* per run: where it is and what it has read
    edits,      \* settings the owner has written
    looked      \* history: per run, what it met in the file when it last looked

ivars == <<file, backups, run, edits, looked>>

Absent == {0}
Exists == file # Absent
Settings(content) == content \ Absent
Runs == {Installer, Direct}
Idle == [pc |-> "idle", base |-> Absent, name |-> <<>>]

InstallTypeOK ==
    /\ file = Absent \/ file \subseteq 1..MaxEdits \cup Runs
    /\ \A n \in DOMAIN backups : backups[n] \subseteq 1..MaxEdits \cup Runs
    /\ \A r \in Runs : run[r].pc \in {"idle", "compare", "backup", "try", "copy", "write"}
    /\ edits \in 0..MaxEdits

InstallInit ==
    /\ file = Absent
    /\ backups = <<>>
    /\ run = [r \in Runs |-> Idle]
    /\ edits = 0
    /\ looked = [r \in Runs |-> {}]

Go(r, to) == run' = [run EXCEPT ![r].pc = to]
Stops(r) == run' = [run EXCEPT ![r] = Idle] /\ looked' = [looked EXCEPT ![r] = {}]
Kept(name, content) ==
    backups' = [n \in DOMAIN backups \cup {name} |-> IF n = name THEN content ELSE backups[n]]
Look(r) == looked' = [looked EXCEPT ![r] = Settings(file)]

(* What a run writes: what it read, with its own setting.                     *)
Merged(r) == Settings(run[r].base) \cup {r}

(* merge_json, merge_toml, write: the file is read; a file this program may   *)
(* not rewrite stops the run.  An entry that is there already changes         *)
(* nothing.  Direct also stops at a file that exists unless it is forced,     *)
(* which is what is modelled.                                                 *)
Read(r) ==
    /\ run[r].pc = "idle"
    /\ r \notin file
    /\ Cardinality(DOMAIN backups) < MaxBackups
    /\ run' = [run EXCEPT ![r].base = file,
                          ![r].pc = IF r = Installer THEN "backup" ELSE "compare"]
    /\ Look(r)
    /\ UNCHANGED <<file, backups, edits>>

(* back_up: the first name of this second that is free.  All runs here fall   *)
(* into one second: the names of another one would be free.                   *)
ChooseName ==
    /\ run[Installer].pc = "backup"
    /\ IF Exists
         THEN run' = [run EXCEPT ![Installer].pc = "try", ![Installer].name = <<"at", 0>>]
         ELSE Go(Installer, "write")
    /\ UNCHANGED <<file, backups, edits, looked>>

(* A mutant of IsTaken: always the first name of the second.                  *)
NeverTaken(name) == FALSE

IsTaken(name) == name \in DOMAIN backups

TryName ==
    /\ run[Installer].pc = "try"
    /\ LET name == run[Installer].name IN
       \/ ~IsTaken(name) /\ Go(Installer, "copy") /\ UNCHANGED looked
       \/ /\ IsTaken(name) /\ name[2] + 1 < Attempts
          /\ run' = [run EXCEPT ![Installer].name = <<"at", name[2] + 1>>]
          /\ UNCHANGED looked
       \/ IsTaken(name) /\ name[2] + 1 >= Attempts /\ Stops(Installer)
    /\ UNCHANGED <<file, backups, edits>>

(* ... takes a copy of the file as it is by now.                              *)
Copy ==
    /\ run[Installer].pc = "copy"
    /\ IF Exists
         THEN Kept(run[Installer].name, file) /\ Look(Installer) /\ Go(Installer, "write")
         ELSE Stops(Installer) /\ UNCHANGED backups
    /\ UNCHANGED <<file, edits>>

(* The direct configuration reads the file once more and gives up if it has   *)
(* changed, then keeps what it read under a name nobody has.                  *)
Compare ==
    /\ run[Direct].pc = "compare"
    /\ IF file # run[Direct].base THEN Stops(Direct) ELSE Go(Direct, "backup") /\ Look(Direct)
    /\ UNCHANGED <<file, backups, edits>>

KeepOriginal ==
    /\ run[Direct].pc = "backup"
    /\ IF run[Direct].base = Absent THEN UNCHANGED backups
       ELSE Kept(<<"uuid", Cardinality(DOMAIN backups)>>, run[Direct].base)
    /\ Go(Direct, "write")
    /\ UNCHANGED <<file, edits, looked>>

(* The merged content replaces the file by a rename.  Where there was none    *)
(* the direct configuration insists that there still is none.                 *)
Write(r) ==
    /\ run[r].pc = "write"
    /\ file' = IF r = Direct /\ run[r].base = Absent /\ Exists THEN file ELSE Merged(r)
    /\ Stops(r)
    /\ UNCHANGED <<backups, edits>>

(* Any step may fail, and the command may be killed at any point.             *)
Fails(r) ==
    /\ run[r].pc # "idle"
    /\ Stops(r)
    /\ UNCHANGED <<file, backups, edits>>

(* The owner adds a setting, takes this program's out, or removes the file.   *)
OwnerWrites ==
    /\ edits < MaxEdits
    /\ edits' = edits + 1
    /\ file' = Settings(file) \cup {edits + 1}
    /\ UNCHANGED <<backups, run, looked>>

OwnerRemoves ==
    /\ Exists
    /\ \/ file' = Absent
       \/ \E r \in Runs : r \in file /\ file' = file \ {r}
    /\ UNCHANGED <<backups, run, edits, looked>>

InstallNext ==
    \/ \E r \in Runs : Read(r) \/ Write(r) \/ Fails(r)
    \/ ChooseName \/ TryName \/ Copy \/ Compare \/ KeepOriginal
    \/ OwnerWrites \/ OwnerRemoves

InstallSpec == InstallInit /\ [][InstallNext]_ivars

----------------------------------------------------------------------------
(* Properties.                                                                *)

(* A run that replaces the file takes nothing from its owner that was there   *)
(* when the run last looked: it is in what replaces it or in a backup; a file *)
(* that appeared meanwhile is not overwritten by a direct configuration that  *)
(* found none; and no later run, even in the same second, costs what an       *)
(* earlier one has kept.                                                      *)
OwnerLosesNothing ==
    [][LET kept == UNION {backups'[n] : n \in DOMAIN backups'} IN
        /\ UNION {backups[n] : n \in DOMAIN backups} \subseteq kept
        /\ \A r \in Runs : run[r].pc = "write" /\ run'[r].pc = "idle" /\ file' # file =>
            /\ looked[r] \subseteq Settings(file') \cup kept
            /\ r = Direct /\ run[r].base = Absent => ~Exists]_ivars
=============================================================================
