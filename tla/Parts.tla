--------------------------------- MODULE Parts ---------------------------------
(***************************************************************************)
(* The parts that run by themselves, one behavior of one of them at a      *)
(* time: a frame of the screen, the terminal's modes, a reading of the     *)
(* batteries, a walk over the session files.  They share no state; while   *)
(* one runs, the variables of the others stay None.                        *)
(***************************************************************************)
EXTENDS Layout

CONSTANTS
  Supplies, Slots,                               \* of Battery
  Executables, Alphabet, Directories, Ids, PathText(_, _), NameRank(_),
  WaylandDefaults, X11Defaults, Cases,           \* of Discovery
  Unreadable, Absent, Anything

VARIABLES
  which,                                                          \* the part that runs
  pc, listening, active, raw, alternate, hidden, failed,          \* Terminal
  entries, position, samples, charging, info,                     \* Battery
  sessions, xsessions, disk, meant, paths, seen, files, listing, phase   \* Discovery

layoutVars == <<screen, frame>>
terminalVars == <<pc, listening, active, raw, alternate, hidden, failed>>
batteryVars == <<entries, position, samples, charging, info>>
discoveryVars == <<sessions, xsessions, disk, meant, paths, seen, files, listing, phase>>
partsVars == <<which, layoutVars, terminalVars, batteryVars, discoveryVars>>

Guard == INSTANCE Terminal
Reading == INSTANCE Battery
Walk == INSTANCE Discovery

(* A number that a supply's file gives is a natural number; None is no     *)
(* number, pair, sample or reading.                                        *)
ASSUME BatteryAssumption ==
  /\ Slots \in Nat
  /\ \A supply \in Supplies :
       {supply.energy_now, supply.energy_full, supply.charge_now, supply.charge_full,
        supply.capacity} \subseteq Nat \cup {None}
ASSUME NoneIsApart ==
  None \notin Reading!Ratios \cup Reading!Samples \cup Reading!Readings

(* Directories and ids are numbered in the order of their names, the lists *)
(* name directories, and NameRank is an order of the session names: no two *)
(* of them have one rank.                                                  *)
Offers(held, dir, id) ==
  /\ held[dir] # Unreadable
  /\ held[dir][id] # Absent
  /\ Walk!Load(held[dir][id], PathText(dir, id)) = "shown"
Names ==
  UNION {{Walk!Key(case.disk[w[1]][w[2]], "Name") :
            w \in {v \in Directories \X Ids : Offers(case.disk, v[1], v[2])}} : case \in Cases}

ASSUME DiscoveryAssumption ==
  /\ Directories \subseteq Nat /\ IsFiniteSet(Directories)
  /\ Ids \subseteq Nat /\ IsFiniteSet(Ids)
  /\ {WaylandDefaults, X11Defaults} \subseteq Seq(Directories)
  /\ \A case \in Cases : case.lists \subseteq Seq(Directories)
  /\ \A a \in Names : NameRank(a) \in Nat
  /\ \A a, b \in Names : NameRank(a) = NameRank(b) => a = b

(* Where the author's arguments are known, they keep the rules; the file   *)
(* is the only one, in a directory of every list, it has them as its Exec, *)
(* and only its command can keep it from the menu.                         *)
Authored(case) ==
  \E dir \in Directories, id \in Ids :
    LET document == case.disk[dir][id]
        file == PathText(dir, id)
    IN /\ \A d \in Directories, i \in Ids :
            (case.disk[d] # Unreadable /\ case.disk[d][i] # Absent) <=> (d = dir /\ i = id)
       /\ \A list \in case.lists : \E i \in DOMAIN list : list[i] = dir
       /\ Walk!Key(document, "Exec") = Walk!Writing(case.meant)
       /\ {Walk!Key(document, "Name"), file} \subseteq Seq(Alphabet)
       /\ Walk!Key(document, "Icon") \in Seq(Alphabet) \cup {None}
       /\ Walk!CommandLine(document, file) # None => Walk!Load(document, file) = "shown"

ASSUME AuthorAssumption ==
  /\ Walk!Reserved \cup {" ", "%", "-", "i", "c", "o", "n"} \subseteq Alphabet
  /\ None \notin Seq(Alphabet) \cup Seq(Seq(Alphabet)) \cup Seq([value : Seq(Alphabet), quoted : BOOLEAN])
  /\ \A case \in Cases : case.meant # Anything =>
       case.meant \in Seq(Walk!Argument) /\ Walk!Proper(case.meant) /\ Authored(case)

NoFrame == screen = None /\ frame = None
NoTerminal ==
  /\ pc = None /\ listening = None /\ active = None /\ raw = None /\ alternate = None
  /\ hidden = None /\ failed = None
NoBattery ==
  entries = None /\ position = None /\ samples = None /\ charging = None /\ info = None
NoDiscovery ==
  /\ sessions = None /\ xsessions = None /\ disk = None /\ meant = None /\ paths = None
  /\ seen = None /\ files = None /\ listing = None /\ phase = None

PartsInit ==
  \/ which = "frame" /\ Init /\ NoTerminal /\ NoBattery /\ NoDiscovery
  \/ which = "terminal" /\ NoFrame /\ Guard!Init /\ NoBattery /\ NoDiscovery
  \/ which = "battery" /\ NoFrame /\ NoTerminal /\ Reading!Init /\ NoDiscovery
  \/ which = "sessions" /\ NoFrame /\ NoTerminal /\ NoBattery /\ Walk!Init

PartsNext ==
  /\ UNCHANGED which
  /\ \/ /\ which = "frame" /\ Next
        /\ UNCHANGED <<terminalVars, batteryVars, discoveryVars>>
     \/ /\ which = "terminal" /\ Guard!Next
        /\ UNCHANGED <<layoutVars, batteryVars, discoveryVars>>
     \/ /\ which = "battery" /\ Reading!Next
        /\ UNCHANGED <<layoutVars, terminalVars, discoveryVars>>
     \/ /\ which = "sessions" /\ Walk!Next
        /\ UNCHANGED <<layoutVars, terminalVars, batteryVars>>

PartsSpec == PartsInit /\ [][PartsNext]_partsVars

-----------------------------------------------------------------------------
(* Terminal: a greeter that is gone leaves a usable terminal. *)
TerminalIsUsable == which = "terminal" => Guard!TerminalIsUsable

(* Battery: the reading is of the batteries that can be measured. *)
ReadingIsOfMeasured == which = "battery" => Reading!ReadingIsOfMeasured

(* Discovery: the listing is the view that the directories give. *)
ListingIsTheView == which = "sessions" => Walk!ListingIsTheView

(* Discovery: a listed session runs exactly what its author meant. *)
ExecIsExact == which = "sessions" => Walk!ExecIsExact
=============================================================================
