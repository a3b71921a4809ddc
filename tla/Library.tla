------------------------------ MODULE Library ------------------------------
(* The library of a vault: a tree of categories and the entries in them       *)
(* (library.rs), and the entries this program edits, passwords (passwords.rs) *)
(* and keys (vault.rs).  Every command opens the vault under the broker lock, *)
(* so commands do not overlap; what they meet was left by earlier commands,   *)
(* whose answers a person or an extension still acts on, and by the other     *)
(* devices whose changes a sync has merged in.                                *)
EXTENDS Naturals, FiniteSets, Functions

CONSTANTS
    Categories,     \* that may exist
    Root,           \* the one Monica for Android saves into
    NoCategory,
    Items,          \* native entry ids that may exist
    Kind,           \* of each entry: "password" or "key"
    MaxCommits,     \* bound on the commits of all entries together
    MaxRemote       \* bound on the changes merged from other devices

ASSUME LibraryAssumption == Root \in Categories /\ NoCategory \notin Categories

VARIABLES
    categories,     \* what the vault holds of each category
    entries,        \* what the vault holds of each entry
    receipts,       \* the engine's record of each creation: where it put it
    summary,        \* the summary of an entry somebody acts on later
    remote          \* changes merged so far

lvars == <<categories, entries, receipts, summary, remote>>

Passwords == {e \in Items : Kind[e] = "password"}
NoEntry == [live |-> FALSE, category |-> NoCategory, folder |-> NoCategory,
            head |-> 0, text |-> 0, attached |-> FALSE]

Trees == [Categories -> [live : BOOLEAN, parent : Categories \cup {NoCategory}]]
Versions == [live : BOOLEAN, attached : BOOLEAN, head : Nat, text : Nat,
             category : Categories \cup {NoCategory}, folder : Categories \cup {NoCategory}]

LibraryTypeOK ==
    /\ categories \in Trees
    /\ entries \in [Items -> Versions]
    /\ receipts \in [Passwords -> Categories \cup {NoCategory}]
    /\ summary.head \in Nat /\ remote \in Nat

LibraryInit ==
    /\ categories = [c \in Categories |-> [live |-> FALSE, parent |-> NoCategory]]
    /\ entries = [e \in Items |-> NoEntry]
    /\ receipts = [e \in Passwords |-> NoCategory]
    /\ summary = [entry |-> NoCategory, head |-> 0, text |-> 0]
    /\ remote = 0

----------------------------------------------------------------------------
(* Reading the tree.                                                          *)

Live(t) == {c \in Categories : t[c].live}
Within(c) == {e \in Items : entries[e].live /\ entries[e].category = c}
Children(t, c) == {k \in Live(t) : t[k].parent = c}
Orphan(t, c) == t[c].parent \notin Live(t)

(* The categories met going up from c: the least set that holds c, if it is   *)
(* there, and with a category its parent.  The code goes up as many times as  *)
(* there are categories, which meets them all.                                *)
Closed(t, above) == \A c \in above : Orphan(t, c) \/ t[c].parent \in above
Climb(t, c) ==
    {a \in Live(t) : \A above \in SUBSET Live(t) :
        Closed(t, above) /\ (c \in Live(t) => c \in above) => a \in above}
Above(t, c) == Climb(t, t[c].parent)
OnCycle(t) == {c \in Live(t) : c \in Above(t, c)}

----------------------------------------------------------------------------
(* Every command opens the vault, and opening it makes sure the category of   *)
(* Monica for Android is there, at the top (ensure_android_root).             *)

ensure_android_root(t) ==
    IF t[Root].live THEN t ELSE [t EXCEPT ![Root] = [live |-> TRUE, parent |-> NoCategory]]

Opened == ensure_android_root(categories)

(* write_objects checks, in the transaction of the write, that the entry is   *)
(* still what was read, and gives it a new head.                              *)
Commits == FoldFunction(LAMBDA r, n : r.head + n, 0, entries)
Written(e, r) ==
    /\ Commits < MaxCommits
    /\ entries' = [entries EXCEPT ![e] = [r EXCEPT !.head = @ + 1]]
Editable(e) == entries[e].live

create_category(c, parent) ==
    /\ ~categories[c].live /\ c # Root
    /\ parent \in Live(Opened) \cup {NoCategory}
    /\ categories' = [Opened EXCEPT ![c] = [live |-> TRUE, parent |-> parent]]
    /\ UNCHANGED <<entries, receipts, summary, remote>>

(* move_library_item on a category walks up from the target: it refuses to    *)
(* put a category under itself, and under a cycle that was imported.          *)
Ends(t, c) == \E a \in Climb(t, c) : Orphan(t, a)

(* A mutant of move_category: nobody looks upward.                            *)
MoveAnywhere(c, target) ==
    /\ c \in Live(Opened) /\ target \in Live(Opened) /\ c # Root /\ c # target
    /\ categories' = [Opened EXCEPT ![c].parent = target]
    /\ UNCHANGED <<entries, receipts, summary, remote>>

move_category(c, target) ==
    /\ c \in Live(Opened) /\ target \in Live(Opened) /\ c # Root
    /\ c \notin Climb(Opened, target)
    /\ Ends(Opened, target)
    /\ categories' = [Opened EXCEPT ![c].parent = target]
    /\ UNCHANGED <<entries, receipts, summary, remote>>

delete_category(c) ==
    /\ c \in Live(Opened) /\ c # Root
    /\ Within(c) = {}
    /\ Children(Opened, c) = {}
    /\ categories' = [Opened EXCEPT ![c].live = FALSE]
    /\ UNCHANGED <<entries, receipts, summary, remote>>

FolderOf(c) == IF c = Root THEN NoCategory ELSE c

(* create_password, whose caller makes up the identity and may ask again: the *)
(* engine's receipt of "password-create" answers for what was done already,   *)
(* and refuses a creation that asks for something else.                       *)
create_password(e, c) ==
    /\ e \in Passwords /\ c \in Live(Opened)
    /\ \/ /\ receipts[e] = NoCategory
          /\ receipts' = [receipts EXCEPT ![e] = c]
          /\ Written(e, [NoEntry EXCEPT !.live = TRUE, !.category = c, !.folder = FolderOf(c), !.text = 1])
       \/ receipts[e] = c /\ UNCHANGED <<receipts, entries>>
    /\ categories' = Opened
    /\ UNCHANGED <<summary, remote>>

(* add_key_entry makes an entry of its own each time.  The payload of a key,  *)
(* with its copy of the folder, is not followed.                              *)
add_key_entry(e, c) ==
    /\ e \in Items \ Passwords /\ entries[e] = NoEntry /\ c \in Live(Opened)
    /\ Written(e, [NoEntry EXCEPT !.live = TRUE, !.category = c])
    /\ categories' = Opened
    /\ UNCHANGED <<receipts, summary, remote>>

(* password_summary: what the person or the extension is shown.               *)
password_summary(e) ==
    /\ e \in Passwords /\ entries[e].live
    /\ summary' = [entry |-> e, head |-> entries[e].head, text |-> entries[e].text]
    /\ categories' = Opened
    /\ UNCHANGED <<entries, receipts, remote>>

(* A mutant of edit_password: the head it names is not compared.              *)
EditBlindly(e) ==
    /\ e = summary.entry /\ Editable(e)
    /\ Written(e, [entries[e] EXCEPT !.text = entries[e].head + 1])
    /\ categories' = Opened
    /\ UNCHANGED <<receipts, summary, remote>>

(* edit_password, some time later, names the head it was shown.               *)
edit_password(e) ==
    /\ e = summary.entry /\ Editable(e)
    /\ entries[e].head = summary.head
    /\ Written(e, [entries[e] EXCEPT !.text = entries[e].head + 1])
    /\ categories' = Opened
    /\ UNCHANGED <<receipts, summary, remote>>

(* An entry with attachments stays where it is.                               *)
move_password(e, target) ==
    /\ e \in Passwords /\ Editable(e) /\ target \in Live(Opened)
    /\ entries[e].category # target => ~entries[e].attached
    /\ Written(e, [entries[e] EXCEPT !.category = target, !.folder = FolderOf(target)])
    /\ categories' = Opened
    /\ UNCHANGED <<receipts, summary, remote>>

(* A key moves by its row alone.                                              *)
move_key(e, target) ==
    /\ e \in Items \ Passwords /\ Editable(e) /\ target \in Live(Opened)
    /\ entries[e].category # target => ~entries[e].attached
    /\ Written(e, [entries[e] EXCEPT !.category = target])
    /\ categories' = Opened
    /\ UNCHANGED <<receipts, summary, remote>>

(* edit_key_entry reads the key and writes it in one command.                 *)
edit_key(e) ==
    /\ e \in Items \ Passwords /\ Editable(e)
    /\ Written(e, entries[e])
    /\ categories' = Opened
    /\ UNCHANGED <<receipts, summary, remote>>

delete_entry(e) ==
    /\ Editable(e)
    /\ Written(e, [entries[e] EXCEPT !.live = FALSE])
    /\ categories' = Opened
    /\ UNCHANGED <<receipts, summary, remote>>

----------------------------------------------------------------------------
(* What a sync has merged in from other devices (external).  Two of them may  *)
(* each have moved a category under one of the other's: the merge then holds  *)
(* a cycle.  Android edits and moves an entry with both of its folders, and   *)
(* attaches files.                                                            *)

FromElsewhere == remote < MaxRemote /\ remote' = remote + 1

RemoteMove(c, parent) ==
    /\ FromElsewhere
    /\ c \in Live(categories) /\ parent \in Live(categories) /\ categories[c].parent # parent
    /\ categories' = [categories EXCEPT ![c].parent = parent]
    /\ UNCHANGED <<entries, receipts, summary>>

RemoteDelete(c) ==
    /\ FromElsewhere
    /\ c \in Live(categories) /\ Within(c) = {} /\ Children(categories, c) = {}
    /\ categories' = [categories EXCEPT ![c].live = FALSE]
    /\ UNCHANGED <<entries, receipts, summary>>

RemoteEdit(e) ==
    /\ FromElsewhere /\ Editable(e)
    /\ \/ Written(e, [entries[e] EXCEPT !.text = entries[e].head + 1])
       \/ Written(e, [entries[e] EXCEPT !.attached = ~@])
       \/ \E c \in Live(categories) :
            Written(e, [entries[e] EXCEPT !.category = c, !.folder = FolderOf(c)])
       \/ Written(e, [entries[e] EXCEPT !.live = FALSE])
    /\ UNCHANGED <<categories, receipts, summary>>

Command ==
    \/ \E c \in Categories, p \in Categories \cup {NoCategory} : create_category(c, p)
    \/ \E c, target \in Categories : move_category(c, target)
    \/ \E c \in Categories : delete_category(c)
    \/ \E e \in Items, c \in Categories :
        create_password(e, c) \/ add_key_entry(e, c) \/ move_password(e, c) \/ move_key(e, c)
    \/ \E e \in Items : password_summary(e) \/ edit_password(e) \/ edit_key(e) \/ delete_entry(e)

LibraryNext ==
    \/ Command
    \/ \E c, p \in Categories : RemoteMove(c, p)
    \/ \E c \in Categories : RemoteDelete(c)
    \/ \E e \in Items : RemoteEdit(e)

LibrarySpec == LibraryInit /\ [][LibraryNext]_lvars

----------------------------------------------------------------------------
(* Properties.                                                                *)

(* No command of this program puts a category on a cycle, leaves an entry or  *)
(* a category behind in one it deletes, or nests or deletes the category of   *)
(* Monica for Android: the tree a person can reach only loses what was empty. *)
KeepsTheTree ==
    remote' = remote =>
        /\ OnCycle(categories') \subseteq OnCycle(categories)
        /\ \A c \in Live(categories) \ Live(categories') :
            \A k \in Live(categories') : categories'[k].parent # c
        /\ \A e \in Items : entries'[e].live => entries'[e].category \in Live(categories')
        /\ categories'[Root].live
        /\ categories[Root].live => categories'[Root] = categories[Root]

(* Over every step.                                                           *)
CommandsKeepTheTree == [][KeepsTheTree]_lvars

(* An edit replaces the text its author was shown and no newer one, a         *)
(* repeated creation neither makes a second version nor brings back what has  *)
(* been deleted since, and the folder Android reads from a password stays the *)
(* category the vault keeps it in, through every creation, move and merge.    *)
KeepsPasswords ==
    /\ \A e \in Passwords :
        entries'[e].live => entries'[e].folder = FolderOf(entries'[e].category)
    /\ remote' = remote =>
        \A e \in Passwords :
            /\ entries'[e].text # entries[e].text =>
                    entries[e] = NoEntry \/ (summary.entry = e /\ summary.text = entries[e].text)
            /\ entries'[e].live /\ ~entries[e].live => entries[e] = NoEntry

(* Over every step.                                                           *)
PasswordsAreKept == [][KeepsPasswords]_lvars
=============================================================================
