------------------------------ MODULE Screens ------------------------------
(* What the terminal interface shows and what its forms act on (tui/home.rs,  *)
(* tui/browser.rs, tui/form.rs and the keys and outcomes of tui/mod.rs), while *)
(* other processes change the configuration, which is read again every second, *)
(* an authorisation runs out, the opened library is dropped and a task that   *)
(* was started earlier finishes.  A frame is drawn between any two keys.      *)
(* Indices start at 1 here and at 0 there.  Left out: the pages and the list  *)
(* of databases whose rows no form acts on by name, which of the three panes  *)
(* has the focus, and the viewer of an inspected entry (module Tui).          *)
EXTENDS Naturals, Sequences, SequencesExt

CONSTANTS
    Order,          \* the connections that may exist, in the order of the map
    CredentialOf,   \* the entry each of them uses
    EntryOrder,     \* all entries that may exist, in the order of the vault
    GrantOn,        \* the authorisations that may exist, and their connections
    Ranking,        \* of each query: the keys it matches, the best match first
    MaxPresses,     \* bound on the keys pressed
    MaxChanges      \* bound on the changes other processes make

VARIABLES
    shared,         \* the configuration file
    store,          \* where each entry of the vault is, and whether there is "sub"
    expired,        \* the authorisations whose time is over
    loaded,         \* App.config, what was read of the file last
    opened,         \* App.library, what was read of the vault last
    view,           \* what is chosen of it: pages, selections, filters, category
    mode,           \* App.mode
    job,            \* the pending task
    restore,        \* App.home_restore
    presses, changes

svars == <<shared, store, expired, loaded, opened, view, mode, job, restore, presses, changes>>

Named == ToSet(Order)
Grants == DOMAIN GrantOn
Entries == ToSet(EntryOrder)
Others == {e \in Entries : \A n \in Named : CredentialOf[n] # e}
Queries == DOMAIN Ranking \cup {"", "active"}
Pages == {"Connections", "Grants"}
JobKinds == {"inspect", "change", "edit", "delete", "move", "category", "connect", "key", "grant",
          "note", "revoke", "library", "login", "add", "open"}

ASSUME ScreensAssumption ==
    /\ Order \in Seq(Named) /\ EntryOrder \in Seq(Entries) /\ IsFiniteSet(Grants)
    /\ \A query \in DOMAIN Ranking : Ranking[query] \in Seq(ToSet(Ranking[query]))

NoTarget == [what |-> "none", id |-> "none"]
NoForm == [is |-> "normal", kind |-> "none", target |-> NoTarget,
           shown |-> [row |-> NoTarget, category |-> "none"], left |-> FALSE]
NoJob == [kind |-> "none", target |-> NoTarget, category |-> "none", shown |-> NoForm.shown,
          left |-> FALSE, brings |-> "none", made |-> "none"]
NoConfig == [is |-> FALSE, conns |-> {}, grants |-> <<>>]
NoLibrary == [open |-> FALSE, sub |-> FALSE, at |-> [e \in Entries |-> "gone"]]
NoRestore == [category |-> "none", row |-> "none", is |-> FALSE]

ScreensTypeOK ==
    /\ shared \in [is : BOOLEAN, conns : SUBSET Named, grants : {s \in Seq(Grants) : Len(s) <= 2}]
    /\ view.page \in Pages \cup {"WebDav"} /\ view.category \in {"none", "root", "sub"}
    /\ mode.is \in {"normal", "filter", "form", "popup"} /\ job.kind \in JobKinds \cup {"none", "probe"}

----------------------------------------------------------------------------
(* Rows.                                                                      *)

total_rows(c, page) ==
    IF page = "Connections" THEN SelectSeq(Order, LAMBDA n : n \in c.conns)
    ELSE IF page = "Grants" THEN c.grants ELSE <<>>

(* A row is matched by what it shows; an authorisation shows its state.       *)
Found(query, rows) == SelectSeq(Ranking[query], LAMBDA k : k \in ToSet(rows))
Active(grants, over) == SelectSeq(grants, LAMBDA g : g \notin over)
visible_rows(c, v, page) ==
    LET all == total_rows(c, page)
        query == v.filter[page]
    IN CASE query = "" -> all
         [] query = "active" -> IF page = "Grants" THEN Active(all, expired) ELSE <<>>
         [] OTHER -> Found(query, all)

Nth(rows, n) == IF n \in 1..Len(rows) THEN rows[n] ELSE "none"
selection_key(c, v, page) == Nth(visible_rows(c, v, page), v.selected[page])

(* A mutant of Position: a selection is a place in the list.                  *)
SamePlace(rows, key, was) == was

(* restore_selection looks for the row where it is now, and takes the first   *)
(* one when it is gone.                                                       *)
Position(rows, key, was) ==
    IF key \in ToSet(rows) THEN SelectInSeq(rows, LAMBDA k : k = key) ELSE 1

Restored(c, v, page, key) ==
    [v EXCEPT !.selected[page] = Position(visible_rows(c, v, page), key, @)]

Clamped(n, rows) == IF n <= Len(rows) THEN n ELSE IF rows = <<>> THEN 1 ELSE Len(rows)
clamp_selection(c, v) ==
    [v EXCEPT !.selected = [p \in Pages |-> Clamped(v.selected[p], visible_rows(c, v, p))]]

(* The tree: "root" and perhaps "sub" under it, each with its entries.        *)
Under(l, category) == SelectSeq(EntryOrder, LAMBDA e : l.at[e] = category)
walk(l, category) ==
    LET top == (IF l.sub THEN <<"sub">> \o Under(l, "sub") ELSE <<>>) \o Under(l, "root")
    IN CASE category = "none" -> <<"root">> \o top
         [] category = "root" -> top
         [] OTHER -> Under(l, category)

home_actions(c) ==
    <<IF c.is THEN "action:browse" ELSE "action:new", "action:open">> \o
    (IF c.is THEN <<"action:grants">> ELSE <<>>)

home_rows(c, l, v) ==
    LET found == IF v.query = "" THEN walk(l, v.category)
                 ELSE Found(v.query, walk(l, "none"))
        first == c.is /\ IF v.query = "" THEN v.category = "none"
                         ELSE "action:grants" \in ToSet(Ranking[v.query])
    IN IF ~l.open THEN home_actions(c)
       ELSE (IF first THEN <<"action:grants">> ELSE <<>>) \o found

selected_home_row(c, l, v) == Nth(home_rows(c, l, v), v.row)
IsCategory(row) == row \in {"root", "sub"}
IsEntry(row) == row \in Entries

(* home_entry_connection, and what a row stands for in a form.                *)
ConnectionsOf(row) == {n \in loaded.conns : CredentialOf[n] = row}
AsTarget(row) ==
    CASE IsCategory(row) -> [what |-> "category", id |-> row]
      [] IsEntry(row) /\ ConnectionsOf(row) # {} ->
            [what |-> "connection", id |-> CHOOSE n \in ConnectionsOf(row) : TRUE]
      [] OTHER -> [what |-> "entry", id |-> row]

selected_grant == selection_key(loaded, view, "Grants")
selected_connection ==
    IF view.page = "Grants" /\ selected_grant # "none" THEN GrantOn[selected_grant]
    ELSE IF view.page = "Grants" /\ view.filter["Grants"] # "" THEN "none"
    ELSE selection_key(loaded, view, "Connections")

----------------------------------------------------------------------------
FirstView(category) ==
    [home |-> TRUE, page |-> "Connections", selected |-> [p \in Pages |-> 1],
     filter |-> [p \in Pages |-> ""], category |-> category, row |-> 1, query |-> ""]

(* The library is closed at first; it may also have been opened before, and a *)
(* login may be under way.                                                    *)
ScreensInit ==
    /\ shared = [is |-> TRUE, conns |-> Named, grants |-> SetToSeq(Grants)]
    /\ expired = {}
    /\ loaded = shared
    /\ \/ /\ store = [sub |-> TRUE, at |-> [e \in Entries |-> "sub"]]
          /\ opened = NoLibrary /\ view = FirstView("none") /\ job = NoJob
       \/ /\ store = [sub |-> TRUE, at |-> [e \in Entries |-> IF e \in Others THEN "gone" ELSE "root"]]
          /\ opened = [open |-> TRUE, sub |-> TRUE, at |-> store.at] /\ view = FirstView("root")
          /\ job \in {NoJob, [NoJob EXCEPT !.kind = "login"]}
    /\ mode = NoForm /\ restore = NoRestore
    /\ presses = 0 /\ changes = 0

world == <<shared, store, expired, changes>>
Press == presses < MaxPresses /\ presses' = presses + 1
Quiet == job = NoJob
Reading == loaded' = loaded /\ opened' = opened

(* What the person sees when a form is opened: the row that is marked, and    *)
(* the category the path names; no path names one while the library is closed. *)
Header == IF ~view.home THEN "none" ELSE IF opened.open THEN view.category ELSE "hidden"
show_form(kind, target) ==
    mode' = [is |-> "form", kind |-> kind, target |-> target, left |-> FALSE,
             shown |-> [row |-> target, category |-> Header]]

(* A frame keeps the marked row of the home page within the rows there are.   *)
Drawn(c, l, v) == IF v.home THEN [v EXCEPT !.row = Clamped(@, home_rows(c, l, v))] ELSE v

set_page(v, page) == [v EXCEPT !.home = FALSE, !.page = page]
Paged(page) == view' = clamp_selection(loaded, set_page(view, page))

----------------------------------------------------------------------------
(* Keys on the home page.                                                     *)

AtHome == mode.is = "normal" /\ view.home /\ Press
SelectedRow == selected_home_row(loaded, opened, view)

HomeMove ==
    /\ AtHome
    /\ \E n \in 1..Len(home_rows(loaded, opened, view)) : view' = [view EXCEPT !.row = n]
    /\ Reading /\ UNCHANGED <<mode, job, restore, world>>

run_home_action(row) ==
    /\ IF row = "action:grants" THEN UNCHANGED mode
       ELSE show_form(IF row = "action:browse" THEN "library" ELSE "open", NoTarget)
    /\ IF row = "action:grants" THEN Paged("Grants") ELSE UNCHANGED view

HomeEnter ==
    /\ AtHome
    /\ IF IsCategory(SelectedRow) THEN view' = [view EXCEPT !.category = SelectedRow, !.row = 1] /\ UNCHANGED mode
       ELSE IF IsEntry(SelectedRow) THEN show_form("inspect", [what |-> "entry", id |-> SelectedRow]) /\ UNCHANGED view
       ELSE SelectedRow # "none" /\ run_home_action(SelectedRow)
    /\ Reading /\ UNCHANGED <<job, restore, world>>

HomeBack ==
    /\ AtHome /\ view.category # "none"
    /\ view' = [view EXCEPT !.category = IF opened.open /\ @ = "sub" THEN "root" ELSE "none", !.row = 1]
    /\ Reading /\ UNCHANGED <<mode, job, restore, world>>

(* The keys that open a form on the row or in the category: n, m, e, r, D.    *)
Empty(category) == Under(opened, category) = <<>> /\ (category = "root" => ~opened.sub)
HomeForm ==
    /\ AtHome /\ opened.open
    /\ \/ show_form("category", [what |-> "category",
                                id |-> IF IsCategory(SelectedRow) THEN SelectedRow ELSE view.category])
       \/ SelectedRow # "none" /\ show_form("move", [what |-> "entry", id |-> SelectedRow])
       \/ /\ IsCategory(SelectedRow) \/ (IsEntry(SelectedRow) /\ ConnectionsOf(SelectedRow) # {})
          /\ show_form("change", AsTarget(SelectedRow))
       \/ SelectedRow \in Others /\ show_form("edit", AsTarget(SelectedRow))
       \/ /\ IsEntry(SelectedRow) \/ (IsCategory(SelectedRow) /\ Empty(SelectedRow))
          /\ show_form("delete", AsTarget(SelectedRow))
    /\ Reading /\ UNCHANGED <<view, job, restore, world>>

(* The keys c and o of the home page.                                         *)
HomeNew ==
    /\ AtHome
    /\ show_form("open", NoTarget) \/ (opened.open /\ show_form("connect", NoTarget))
    /\ Reading /\ UNCHANGED <<view, job, restore, world>>

(* Keys on the pages.                                                         *)
OnPages == mode.is = "normal" /\ ~view.home /\ Press

PageMove ==
    /\ OnPages /\ view.page \in Pages
    /\ \E n \in 1..Len(visible_rows(loaded, view, view.page)) :
        view' = [view EXCEPT !.selected[view.page] = n]
    /\ Reading /\ UNCHANGED <<mode, job, restore, world>>

(* Commands, typed or by their key, are refused while a task runs.  Those for *)
(* a connection or an authorisation name the selected one in a field; check   *)
(* starts at once; those for keys ask for the library to be opened first.     *)
AtCommand == mode.is = "normal" /\ Quiet /\ Press
CommandForm ==
    /\ AtCommand
    /\ \/ \E kind \in {"grant", "note", "revoke"} :
          LET id == IF kind = "revoke" THEN selected_grant ELSE selected_connection IN
          /\ loaded.is /\ id # "none"
          /\ (kind = "revoke" => view.page = "Grants") /\ (kind = "note" => view.page \in Pages)
          /\ show_form(kind, [what |-> IF kind = "revoke" THEN "grant" ELSE "connection", id |-> id])
       \/ loaded.is /\ show_form("connect", NoTarget)
       \/ loaded.is /\ show_form(IF opened.open THEN "key" ELSE "library", NoTarget)
       \/ \E kind \in {"add", "login"} : show_form(kind, NoTarget)
    /\ Reading /\ UNCHANGED <<view, job, restore, world>>

Check ==
    /\ AtCommand /\ view.page = "Grants" /\ selected_grant # "none"
    /\ LET target == [what |-> "grant", id |-> selected_grant] IN
       job' = [NoJob EXCEPT !.kind = "probe", !.target = target, !.shown.row = target]
    /\ Reading /\ UNCHANGED <<view, mode, restore, world>>

(* From the home page to the pages and back, and from page to page.           *)
Turn ==
    /\ mode.is = "normal" /\ Press
    /\ \/ view' = Drawn(loaded, opened, [view EXCEPT !.home = ~@])
       \/ (Quiet \/ ~view.home) /\ \E p \in Pages : Paged(p)
    /\ Reading /\ UNCHANGED <<mode, job, restore, world>>

----------------------------------------------------------------------------
(* Filters.                                                                   *)
Current == IF view.home THEN view.query ELSE view.filter[view.page]
Filtered(query) ==
    IF view.home
      THEN LET v == [view EXCEPT !.query = query] IN
           [v EXCEPT !.row = Position(home_rows(loaded, opened, v), SelectedRow, @)]
      ELSE Restored(loaded, [view EXCEPT !.filter[view.page] = query], view.page,
                    selection_key(loaded, view, view.page))

BeginFilter ==
    /\ mode.is = "normal" /\ Press
    /\ IF view.home THEN opened.open ELSE view.page \in Pages
    /\ mode' = [NoForm EXCEPT !.is = "filter", !.kind = Current,
                !.target.id = IF view.home THEN SelectedRow ELSE selection_key(loaded, view, view.page)]
    /\ Reading /\ UNCHANGED <<view, job, restore, world>>

(* Escape shows all rows again.                                               *)
ClearFilter ==
    /\ mode.is = "normal" /\ Press
    /\ IF view.home THEN view' = [view EXCEPT !.query = "", !.row = 1]
       ELSE view.page \in Pages /\ view' = Filtered("")
    /\ Reading /\ UNCHANGED <<mode, job, restore, world>>

TypeFilter ==
    /\ mode.is = "filter" /\ Press
    /\ \E query \in Queries :
        /\ view.home => query # "active"
        /\ view' = Filtered(query)
    /\ mode' \in {mode, NoForm}
    /\ Reading /\ UNCHANGED <<job, restore, world>>

LeaveFilter ==
    /\ mode.is = "filter" /\ Press
    /\ view' = IF view.home
                 THEN LET v == [view EXCEPT !.query = mode.kind] IN
                      [v EXCEPT !.row = Position(home_rows(loaded, opened, v), mode.target.id, 1)]
                 ELSE Restored(loaded, [view EXCEPT !.filter[view.page] = mode.kind], view.page,
                               mode.target.id)
    /\ mode' = NoForm
    /\ Reading /\ UNCHANGED <<job, restore, world>>

----------------------------------------------------------------------------
(* Forms.                                                                     *)

Cancel ==
    /\ mode.is \in {"form", "popup"} /\ Press
    /\ mode' = NoForm
    /\ Reading /\ UNCHANGED <<view, job, restore, world>>

drops_library(kind) == kind \notin {"login", "revoke", "probe"}
Remembers(kind) == kind \in {"connect", "change", "delete", "move", "category"}

(* App::start.                                                                *)
Begun(kind, target, category) ==
    /\ job' = [kind |-> kind, target |-> target, category |-> category, shown |-> mode.shown,
               left |-> mode.left, brings |-> "none", made |-> "none"]
    /\ IF drops_library(kind) /\ kind # "inspect"
         THEN /\ opened' = NoLibrary
              /\ restore' = IF Remembers(kind)
                              THEN [category |-> view.category, row |-> SelectedRow, is |-> TRUE] ELSE NoRestore
              /\ view' = Drawn(loaded, NoLibrary, view)
         ELSE UNCHANGED <<opened, restore, view>>

(* A mutant of TargetOf: a form acts on what is selected when it is submitted. *)
SelectedNow ==
    IF mode.kind \in {"change", "delete"} /\ view.home THEN AsTarget(SelectedRow) ELSE mode.target

(* Form::action: what a form was opened on it still has; where something new  *)
(* goes is looked up now.                                                     *)
TargetOf == mode.target
CategoryOf == IF mode.kind \in {"connect", "key"} /\ view.home THEN view.category ELSE "none"

(* A form that cannot be acted on stays open: a move looks its destination up *)
(* in the library and a grant its connection in the configuration.  One that  *)
(* is submitted while a task runs is dropped.                                 *)
Refused ==
    \/ mode.kind = "move" /\ ~opened.open
    \/ mode.kind = "grant" /\ mode.target.id \notin loaded.conns

SubmitForm ==
    /\ mode.is = "form" /\ Press
    /\ mode' = IF Refused THEN mode ELSE NoForm
    /\ IF ~Refused /\ Quiet THEN Begun(mode.kind, TargetOf, CategoryOf)
       ELSE UNCHANGED <<job, opened, restore, view>>
    /\ UNCHANGED <<loaded, world>>

----------------------------------------------------------------------------
(* The task (actions.rs), all of it or none; what it brings is read after it. *)
Done(word) == job' = [job EXCEPT !.brings = word]
OfOthers(grants, n) == SelectSeq(grants, LAMBDA g : GrantOn[g] # n)
WithoutGrants(c, n) == [c EXCEPT !.conns = @ \ {n}, !.grants = OfOthers(@, n)]

Made(g) == job' = [job EXCEPT !.brings = "grant", !.made = g]
Known(category) == IF category = "sub" /\ store.sub THEN "sub" ELSE "root"
Placed(e, category) == store' = [store EXCEPT !.at[e] = category]

JobRuns ==
    /\ job.kind # "none" /\ job.brings = "none"
    /\ UNCHANGED <<loaded, opened, view, mode, restore, presses, expired, changes>>
    /\ \/ Done("error") /\ UNCHANGED <<shared, store>>
       \/ /\ job.kind \in {"change", "edit", "category", "library"}
          /\ Done("library") /\ UNCHANGED <<shared, store>>
       \/ /\ job.kind = "delete" /\ Done("library")
          /\ CASE job.target.what = "connection" ->
                    /\ job.target.id \in shared.conns
                    /\ shared' = WithoutGrants(shared, job.target.id)
                    /\ Placed(CredentialOf[job.target.id], "gone")
               [] job.target.what = "entry" -> Placed(job.target.id, "gone") /\ UNCHANGED shared
               [] OTHER -> /\ job.target.id = "sub" /\ \A e \in Entries : store.at[e] # "sub"
                           /\ store' = [store EXCEPT !.sub = FALSE] /\ UNCHANGED shared
       \/ /\ job.kind = "move" /\ IsEntry(job.target.id) /\ store.at[job.target.id] # "gone"
          /\ Done("library") /\ Placed(job.target.id, "root") /\ UNCHANGED shared
       \/ /\ job.kind = "connect" /\ Done("library")
          /\ \E n \in Named \ shared.conns :
                /\ shared' = [shared EXCEPT !.conns = @ \cup {n}]
                /\ Placed(CredentialOf[n], Known(job.category))
       \/ /\ job.kind = "key" /\ Done("library") /\ UNCHANGED shared
          /\ \E e \in Others : store.at[e] = "gone" /\ Placed(e, Known(job.category))
       \/ /\ job.kind = "grant" /\ job.target.id \in shared.conns /\ UNCHANGED store
          /\ \E g \in Grants \ ToSet(shared.grants) :
                GrantOn[g] = job.target.id /\ Made(g) /\ shared' = [shared EXCEPT !.grants = Append(@, g)]
       \/ /\ job.kind = "add"
          /\ \E g \in Grants \ ToSet(shared.grants) :
                /\ GrantOn[g] \notin shared.conns /\ Made(g)
                /\ shared' = [is |-> TRUE, conns |-> shared.conns \cup {GrantOn[g]},
                              grants |-> Append(shared.grants, g)]
                /\ Placed(CredentialOf[GrantOn[g]], "root")
       \/ /\ job.kind = "revoke" /\ Done("message") /\ UNCHANGED store
          /\ shared' = [shared EXCEPT !.grants = Remove(@, job.target.id)]
       \/ /\ job.kind \in {"note", "open", "inspect", "login", "probe"}
          /\ Done(IF job.kind \in {"login", "probe"} THEN job.kind ELSE "message")
          /\ UNCHANGED <<shared, store>>

(* App::reload: the selections of the pages are remembered, the file is read, *)
(* and the selections are looked for in what it holds now.                    *)
Reread == IF shared.is THEN shared ELSE NoConfig
Reloaded(v) ==
    LET c == Reread IN
    [v EXCEPT !.selected = [p \in Pages |->
        Position(visible_rows(c, v, p), selection_key(loaded, v, p), v.selected[p])]]

Reload ==
    /\ loaded' = Reread
    /\ view' = Drawn(Reread, opened, Reloaded(view))
    /\ UNCHANGED <<opened, mode, job, restore, presses, world>>

(* App::apply.                                                                *)
ReadVault == [open |-> TRUE, sub |-> store.sub, at |-> store.at]
HomeRestored(v) ==
    LET there == restore.category = "root" \/ (restore.category = "sub" /\ store.sub)
        w == [v EXCEPT !.category = IF restore.is /\ there THEN restore.category ELSE "none"]
    IN [w EXCEPT !.row =
            IF restore.is THEN Position(home_rows(Reread, ReadVault, w), restore.row, 1) ELSE 1]

(* Turning the page ends a filter and leaves a form open; the settings of a   *)
(* new authorisation are shown in place of it, when they can be written.      *)
Turned == CASE mode.is = "filter" -> NoForm
            [] mode.is = "form" -> [mode EXCEPT !.left = TRUE]
            [] OTHER -> mode

ApplyResult ==
    /\ job.brings # "none"
    /\ loaded' = Reread
    /\ LET v == Reloaded(view)
           granted == Restored(Reread, [set_page(v, "Grants") EXCEPT !.filter["Grants"] = ""], "Grants",
                               job.made)
       IN view' = CASE job.brings = "library" -> HomeRestored(v)
                    [] job.brings = "grant" -> clamp_selection(Reread, granted)
                    [] job.brings = "login" -> clamp_selection(Reread, set_page(v, "WebDav"))
                    [] OTHER -> Drawn(Reread, opened, v)
    /\ opened' = IF job.brings = "library" THEN ReadVault ELSE opened
    /\ restore' = IF job.brings = "library" THEN NoRestore ELSE restore
    /\ mode' \in CASE job.brings = "grant" -> {Turned, [NoForm EXCEPT !.is = "popup"]}
                   [] job.brings = "probe" -> {[NoForm EXCEPT !.is = "popup"]}
                   [] job.brings = "login" -> {Turned}
                   [] OTHER -> {mode}
    /\ job' = NoJob
    /\ UNCHANGED <<presses, world>>

(* The library is dropped after five minutes.                                 *)
LibraryExpires ==
    /\ opened.open
    /\ opened' = NoLibrary
    /\ view' = Drawn(loaded, NoLibrary, view)
    /\ UNCHANGED <<loaded, mode, job, restore, presses, world>>

----------------------------------------------------------------------------
(* The rest of the world.                                                     *)
GrantExpires ==
    /\ \E g \in ToSet(shared.grants) \ expired : expired' = expired \cup {g}
    /\ UNCHANGED <<shared, store, loaded, opened, view, mode, job, restore, presses, changes>>

OtherProcess ==
    /\ changes < MaxChanges /\ changes' = changes + 1
    /\ \/ \E n \in shared.conns : shared' = WithoutGrants(shared, n)
       \/ \E n \in Named \ shared.conns : shared' = [shared EXCEPT !.conns = @ \cup {n}]
       \/ \E g \in ToSet(shared.grants) : shared' = [shared EXCEPT !.grants = Remove(@, g)]
       \/ shared' = [shared EXCEPT !.is = ~@]
    /\ UNCHANGED <<store, expired, loaded, opened, view, mode, job, restore, presses>>

ScreensNext ==
    \/ HomeMove \/ HomeEnter \/ HomeBack \/ HomeForm \/ HomeNew
    \/ PageMove \/ CommandForm \/ Check \/ Turn
    \/ BeginFilter \/ TypeFilter \/ LeaveFilter \/ ClearFilter
    \/ Cancel \/ SubmitForm
    \/ JobRuns \/ Reload \/ ApplyResult \/ LibraryExpires
    \/ GrantExpires \/ OtherProcess

ScreensSpec == ScreensInit /\ [][ScreensNext]_svars

----------------------------------------------------------------------------
(* Properties.                                                                *)

(* What a submitted form does is what the person was shown when it was        *)
(* opened: it acts on the row that was marked, and what is new goes into the  *)
(* category the path named then, whatever was read again, ran out or finished *)
(* while it was filled in.  There are two exceptions: a task that finishes    *)
(* meanwhile and turns the page makes the form forget its category; and a     *)
(* connection made by command while the library is closed goes into the       *)
(* category that was open before, which no path names.                        *)
ActedOnWhatWasShown ==
    job # NoJob =>
        /\ job.target = job.shown.row
        /\ job.kind \in {"connect", "key"} =>
            \/ job.category = job.shown.category
            \/ job.left /\ job.category = "none"
            \/ job.shown.category = "hidden"

(* Only the person moves a selection.  Whatever else happens, the row that    *)
(* was selected on a page stays selected as long as it is listed, except that *)
(* a new authorisation is selected when it has been made, and that a filter   *)
(* on the state of authorisations lets the selection slip to another row when *)
(* one runs out.  On the home page the same holds while the library and the   *)
(* configuration stay readable.                                               *)
SelectionIsKept ==
    [][presses' = presses =>
        /\ \A p \in Pages :
            LET was == selection_key(loaded, view, p) IN
            \/ was \notin ToSet(visible_rows(loaded, view, p)')
            \/ selection_key(loaded, view, p)' = was
            \/ p = "Grants" /\ (job.brings = "grant" \/ view.filter[p] = "active")
        /\ opened.open /\ opened' = opened /\ loaded.is /\ loaded'.is
            => selected_home_row(loaded, opened, view)' = selected_home_row(loaded, opened, view)]_svars
=============================================================================
