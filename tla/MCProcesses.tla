---------------------------- MODULE MCProcesses ----------------------------
(* Processes of one user that write the same files at the same time, for TLC: *)
(* commands that edit the configuration and the client files, and native      *)
(* hosts of the browsers with the record of their operations.  The two never  *)
(* write the same file; a behaviour shows one of them.                        *)
EXTENDS MCManagement, BrowserHost

CONSTANTS h1, h2, i0, i1, d1, d2

VARIABLES program

VaultOfEach == (d1 :> d1) @@ (d2 :> d2)

ProcessesInit ==
    /\ program \in {"commands", "browser"}
    /\ Init
    /\ HostInit /\ (program # "browser" => active = d1 /\ disk = <<>>)

ProcessesNext ==
    \/ program = "commands" /\ Next /\ UNCHANGED <<program, bvars>>
    \/ program = "browser" /\ HostNext /\ UNCHANGED <<program, vars>>

ProcessesSpec == ProcessesInit /\ [][ProcessesNext]_<<program, vars, bvars>>
=============================================================================
