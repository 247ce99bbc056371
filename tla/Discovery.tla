------------------------------ MODULE Discovery ------------------------------
(***************************************************************************)
(* The list of desktop sessions (info.rs): effective_session_paths turns   *)
(* the two configured directory lists into one search order, get_sessions  *)
(* walks it, and each session file is read as in DesktopEntry.  Session    *)
(* files shadow each other by type and desktop id: a file of a higher      *)
(* directory masks the same id further down even when it is hidden, broken *)
(* or not runnable itself.                                                 *)
(*                                                                         *)
(* A directory is a number, in the order of the path names; it holds a     *)
(* document under each id, or nothing.  The disk does not change during    *)
(* one walk.                                                               *)
(***************************************************************************)
EXTENDS DesktopEntry, FiniteSets

CONSTANTS
  Directories,       \* the directories that may be configured or default
  Ids,               \* the names of the files in them, numbers in name order
  PathText(_, _),    \* the path of a directory's file, as a text
  NameRank(_),       \* the place of a name in the order of texts
  WaylandDefaults,   \* DEFAULT_SESSION_PATHS of the type, highest first
  X11Defaults,
  Cases,             \* [disk, lists, meant]: what a walk may find
  Unreadable,        \* a directory that is missing or cannot be read
  Absent,            \* an id with no regular .desktop file
  Anything           \* a disk whose sessions have no single meaning

VARIABLES
  sessions,    \* the configured Wayland directories
  xsessions,   \* the configured X11 directories
  disk,        \* what each directory holds
  meant,       \* the arguments as the author of the one file there wrote them,
               \* Anything if there are more files or none
  paths,       \* the search order that is left to walk, <<>> before it is set
  seen,        \* the ids the walk has met, by type
  files,       \* the sessions found so far
  listing,     \* the result
  phase        \* "paths", "walk" or "listed"

found == <<sessions, xsessions, disk, meant>>
vars == <<sessions, xsessions, disk, meant, paths, seen, files, listing, phase>>

-----------------------------------------------------------------------------
Init ==
  /\ \E case \in Cases :
       /\ disk = case.disk
       /\ meant = case.meant
       /\ sessions \in case.lists
       /\ xsessions \in case.lists
  /\ paths = <<>>
  /\ seen = {}
  /\ files = {}
  /\ listing = <<>>
  /\ phase = "paths"

Typed(list, type) == [i \in DOMAIN list |-> [dir |-> list[i], type |-> type]]

(* The defaults stand in for an empty list, each type by itself. *)
OfType(configured, defaults, type) ==
  Typed(IF configured = <<>> THEN defaults ELSE configured, type)

(* The first occurrence of each element. *)
Distinct(list) ==
  FoldLeft(LAMBDA kept, path : IF path \in ToSet(kept) THEN kept ELSE Append(kept, path),
           <<>>, list)

(* effective_session_paths *)
EffectivePaths ==
  /\ phase = "paths"
  /\ paths' = Distinct(OfType(sessions, WaylandDefaults, "wayland")
                         \o OfType(xsessions, X11Defaults, "x11"))
  /\ phase' = "walk"
  /\ UNCHANGED <<sessions, xsessions, disk, meant, seen, files, listing>>

Loaded(dir, id) == Load(disk[dir][id], PathText(dir, id))

(* What load_desktop_file makes of a file that loads. *)
Session(dir, id, type) ==
  [slug |-> id, name |-> Key(disk[dir][id], "Name"),
   command |-> ShellJoin(CommandLine(disk[dir][id], PathText(dir, id))),
   type |-> type, path |-> <<dir, id>>]

SkipDirectory ==
  /\ phase = "walk"
  /\ paths # <<>>
  /\ disk[Head(paths).dir] = Unreadable
  /\ paths' = Tail(paths)
  /\ UNCHANGED <<sessions, xsessions, disk, meant, seen, files, listing, phase>>

(* Mutation: only a session that loads masks the ones below it. *)
ReadDirectoryMaskingShown ==
  /\ phase = "walk"
  /\ paths # <<>>
  /\ disk[Head(paths).dir] # Unreadable
  /\ LET dir == Head(paths).dir
         type == Head(paths).type
         new == {id \in Ids : /\ disk[dir][id] # Absent /\ Loaded(dir, id) = "shown"
                              /\ <<type, id>> \notin seen}
     IN /\ seen' = seen \cup {<<type, id>> : id \in new}
        /\ files' = files \cup {Session(dir, id, type) : id \in new}
  /\ paths' = Tail(paths)
  /\ UNCHANGED <<sessions, xsessions, disk, meant, listing, phase>>

(* Every .desktop file of the directory whose id was not met before counts *)
(* as met; the ones that load are sessions.                                *)
ReadDirectory ==
  /\ phase = "walk"
  /\ paths # <<>>
  /\ disk[Head(paths).dir] # Unreadable
  /\ LET dir == Head(paths).dir
         type == Head(paths).type
         new == {id \in Ids : disk[dir][id] # Absent /\ <<type, id>> \notin seen}
     IN /\ seen' = seen \cup {<<type, id>> : id \in new}
        /\ files' = files \cup {Session(dir, id, type) :
                                  id \in {i \in new : Loaded(dir, i) = "shown"}}
  /\ paths' = Tail(paths)
  /\ UNCHANGED <<sessions, xsessions, disk, meant, listing, phase>>

(* Mutation: of sessions with one name the one found first goes first.     *)
PrecedesByPath(a, b) ==
  \/ NameRank(a.name) < NameRank(b.name)
  \/ a.name = b.name /\ a.path[1] < b.path[1]
  \/ a.name = b.name /\ a.path[1] = b.path[1] /\ a.slug < b.slug
  \/ a.name = b.name /\ a.slug = b.slug /\ a.path = b.path
       /\ a.type = "wayland" /\ b.type = "x11"

(* By name, then id, then path; the sort is stable, so that one file found *)
(* under both types keeps the order of the search: Wayland first.          *)
Precedes(a, b) ==
  \/ NameRank(a.name) < NameRank(b.name)
  \/ a.name = b.name /\ a.slug < b.slug
  \/ a.name = b.name /\ a.slug = b.slug /\ a.path[1] < b.path[1]
  \/ a.name = b.name /\ a.slug = b.slug /\ a.path = b.path
       /\ a.type = "wayland" /\ b.type = "x11"

Before(session) == {other \in files : Precedes(other, session)}

List ==
  /\ phase = "walk"
  /\ paths = <<>>
  /\ listing' = [i \in 1..Cardinality(files) |->
                   CHOOSE session \in files : Cardinality(Before(session)) = i - 1]
  /\ phase' = "listed"
  /\ UNCHANGED <<sessions, xsessions, disk, meant, paths, seen, files>>

Next == EffectivePaths \/ SkipDirectory \/ ReadDirectory \/ List

Spec == Init /\ [][Next]_vars

-----------------------------------------------------------------------------
(* The view the desktop entries give, stated without the walk: the         *)
(* directory that decides about an id of a type is the highest one that    *)
(* has it at all.                                                          *)
Search(type) ==
  LET configured == IF type = "wayland" THEN sessions ELSE xsessions
      defaults == IF type = "wayland" THEN WaylandDefaults ELSE X11Defaults
  IN IF configured # <<>> THEN configured ELSE defaults

Has(dir, id) == disk[dir] # Unreadable /\ disk[dir][id] # Absent

Decides(type, dir, id) ==
  \E i \in DOMAIN Search(type) :
    /\ Search(type)[i] = dir
    /\ Has(dir, id)
    /\ \A j \in 1..(i - 1) : ~Has(Search(type)[j], id)

(* What a session is listed by, first things first. *)
ListedBy(session) ==
  <<NameRank(session.name), session.slug, session.path[1], IF session.type = "wayland" THEN 0 ELSE 1>>

Above(a, b) ==
  \E k \in 1..4 : /\ ListedBy(a)[k] < ListedBy(b)[k]
                  /\ \A j \in 1..(k - 1) : ListedBy(a)[j] = ListedBy(b)[j]

(* The menu offers exactly the sessions whose deciding file loads: a user  *)
(* can hide a session of the distribution with an entry of the same name,  *)
(* a broken override does not bring the original back, a directory that    *)
(* cannot be read hides nothing, and a directory configured twice, or for  *)
(* both types, offers nothing twice for one type.  It is in the order of   *)
(* the names, equal names in the order of ids and directories, one file    *)
(* under both types with Wayland first (get_sessions).                     *)
ListingIsTheView ==
  phase = "listed" =>
    /\ ToSet(listing) = {Session(v[1], v[2], v[3]) :
                           v \in {w \in Directories \X Ids \X {"wayland", "x11"} :
                                    Decides(w[3], w[1], w[2]) /\ Loaded(w[1], w[2]) = "shown"}}
    /\ \A i, j \in DOMAIN listing :
         (listing[i].type = listing[j].type /\ listing[i].slug = listing[j].slug) => i = j
    /\ \A i, j \in DOMAIN listing : i < j => Above(listing[i], listing[j])

(* What the author of the one file there means, whichever file that is.    *)
Meant ==
  {Meaning(meant, Key(disk[w[1]][w[2]], "Name"), Key(disk[w[1]][w[2]], "Icon"),
           PathText(w[1], w[2])) :
     w \in {v \in Directories \X Ids : Has(v[1], v[2])}}

(* Starting a listed session runs exactly the arguments its author wrote:  *)
(* through the quoting of the Exec value, the field codes, the quoting for *)
(* the shell and the shell's own reading, no argument is lost, split,      *)
(* joined or reinterpreted, empty ones and ones made of quotes included;   *)
(* and every command that can run is offered (parse_exec, shell_join,      *)
(* load_desktop_file).                                                     *)
ExecIsExact ==
  (phase = "listed" /\ meant # Anything) =>
    {ShellWords(session.command) : session \in ToSet(listing)}
      = {argv \in Meant : Runnable(argv)}
=============================================================================
