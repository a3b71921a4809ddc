--------------------------- MODULE MCWorkstation ---------------------------
(* The programs of one workstation, for TLC: commands and the broker of `mn`, *)
(* the library, the terminal interface with its screens, and the installation *)
(* into clients.  They meet only in the broker lock and in the files they     *)
(* share, which each of them models from its own side as held or changed by   *)
(* somebody else; a behaviour therefore shows one of them.                    *)
EXTENDS MCManagement, LibraryTree, Tui, Screens, Installation

VARIABLES program

RankOf == [a |-> 1, root |-> 2, z |-> 3]
KindOf == [login |-> "password", key |-> "key"]

Connections == <<"a", "b">>
EntryOfEach == [a |-> "ea", b |-> "eb"]
VaultOrder == <<"ea", "eb", "k">>
ConnectionOfEach == [g1 |-> "a", g2 |-> "b"]
Best == [by |-> <<"b", "a", "g2", "eb">>]

allvars == <<program, vars, lvars, cvars, tvars, ivars, svars>>

WorkstationInit ==
    /\ program \in {"command", "library", "listing", "terminal", "screens",
                    "installation"}
    /\ Init
    /\ LibraryInit
    /\ TreeInit /\ (program # "listing" => tree = Opened)
    /\ TuiInit /\ InstallInit
    /\ ScreensInit /\ (program # "screens" => ~opened.open)

WorkstationNext ==
    \/ program = "command" /\ Next /\ UNCHANGED <<program, cvars, lvars, tvars, ivars, svars>>
    \/ program = "library" /\ LibraryNext /\ UNCHANGED <<program, vars, cvars, tvars, ivars, svars>>
    \/ program = "listing" /\ TreeNext /\ UNCHANGED <<program, vars, lvars, tvars, ivars, svars>>
    \/ program = "terminal" /\ TuiNext /\ UNCHANGED <<program, vars, cvars, lvars, ivars, svars>>
    \/ program = "installation" /\ InstallNext /\ UNCHANGED <<program, vars, cvars, lvars, tvars, svars>>
    \/ program = "screens" /\ ScreensNext /\ UNCHANGED <<program, vars, cvars, lvars, tvars, ivars>>

Commands == program = "command"
Terminal == program = "terminal"

(* The fairness of Management and TuiFairness, each for the behaviours that   *)
(* show the program: nothing else moves in the others.                        *)
BrokerFairness == \A p \in Procs : WF_vars(Commands /\ EndByMarker(p))
TerminalFairness ==
    /\ WF_tvars(Terminal /\ Poll) /\ WF_tvars(Terminal /\ Tick)
    /\ WF_tvars(Terminal /\ FinishApp)
    /\ WF_tvars(Terminal /\ TaskStops) /\ WF_tvars(Terminal /\ TaskRuns)

WorkstationSpec ==
    /\ WorkstationInit /\ [][WorkstationNext]_allvars
    /\ BrokerFairness /\ TerminalFairness
=============================================================================
