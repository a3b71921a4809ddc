------------------------------- MODULE MCSync -------------------------------
(* Two devices that share a vault, for TLC, in the two ways there are: by the *)
(* streams of a .sync tree, and by one file on a WebDAV server.  A remote is  *)
(* of one kind or of the other; a behaviour shows one of them.                *)
EXTENDS SegmentSync, FileSync

VARIABLES kind

SyncInit == kind \in {"tree", "file"} /\ Init /\ ExchangeInit

(* Of the three moves of FileSync two at most are edits, and one at most is a *)
(* fault, a switch or a second open; none of them is a step that fairness     *)
(* asks for.                                                                  *)
TwoEditsOneMishap == lastEdit' <= 2 /\ mishaps' <= 1

SyncNext ==
    \/ kind = "tree" /\ Next /\ UNCHANGED <<kind, xvars>>
    \/ kind = "file" /\ ExchangeNext /\ TwoEditsOneMishap /\ UNCHANGED <<kind, vars>>

Tree == kind = "tree"
Single == kind = "file"

(* Fairness and ExchangeFairness, each for the behaviours that show it.       *)
TreeFairness ==
    \A d \in Device :
        /\ WF_vars(Tree /\ Sync(d))
        /\ WF_vars(Tree /\ active[d] = NoFile /\ Open(d))
        /\ WF_vars(Tree /\ RunStep(d))
SingleFairness ==
    /\ WF_xvars(Single /\ \E q \in wire : Serve(q))
    /\ \A d \in Machine :
        /\ WF_xvars(Single /\ (Synchronize(d) \/ Publish(d)))
        /\ WF_xvars(Single /\ settings[d].file = NoCopy /\ OpenRemote(d))
        /\ WF_xvars(Single /\ ExchangeStep(d))

SyncSpec == SyncInit /\ [][SyncNext]_<<kind, vars, xvars>> /\ TreeFairness /\ SingleFairness
-----------------------------------------------------------------------------
(* Converges of SegmentSync, of the devices that have a tree.                 *)
TreesConverge == Tree => Converges

(* FilesConverge of FileSync, of the devices that share one file.             *)
SharedFilesConverge == Single => FilesConverge
=============================================================================
