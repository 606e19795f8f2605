------------------------------- MODULE Boot -------------------------------
(***************************************************************************)
(* efi_main() of src/main.c and roxus_setup() of src/roxus.c: the firmware *)
(* protocols are set up one after the other, what failed is reported, and  *)
(* the terminal runs whatever was reported.  Of the terminal only the      *)
(* commands are modelled that follow the pointers of the setup or change   *)
(* the modes it chose; the others are Terminal's.                          *)
(*                                                                         *)
(* The firmware decides which call succeeds.  A mode is known by the       *)
(* number of its pixels or characters.                                     *)
(***************************************************************************)
EXTENDS Naturals, Sequences, FiniteSets

CONSTANTS GopModes, TextModes, \* maxMode of the two protocols
          Sizes,               \* pixels or characters of a mode
          Word                 \* a product of two uint32_t is modulo this

ASSUME BootAssumption ==
    /\ GopModes \in Nat
    /\ TextModes \in Nat \ {0}
    /\ Sizes \subseteq Nat \ {0}
    /\ Word \in Nat \ {0}

VARIABLES pc,        \* the setup that comes next, "terminal", "bsod", "fault"
                     \* after a null pointer was followed, or "ended"
          errors,    \* the *error variables of roxus_setup() that are true
          graphics,  \* is graphics_output located, and its mode not NULL
          gop, text, \* the search for the best mode of either output
          disk,      \* is filesystem not NULL
          net,       \* how far the network interface came up
          pointer,   \* pointer.exists
          shown      \* messages of roxus_setup()

vars == <<pc, errors, graphics, gop, text, disk, net, pointer, shown>>

Failed == 0   \* the answer of a query that failed

(* A search: the answers so far, best* of the code (0 for a size, and      *)
(* "none" for a mode, that nobody has assigned), the mode that is set      *)
(* (numbered from 1), and whether a command has set another one since.     *)
Search(modes) ==
    [answers: UNION {[1 .. n -> Sizes \cup {Failed}] : n \in 0 .. modes},
     best: Nat, bestmode: 0 .. modes, size: Sizes \cup {0},
     current: 0 .. modes, changed: BOOLEAN]

NoSearch ==
    [answers |-> <<>>, best |-> 0, bestmode |-> 0, size |-> 0, current |-> 0,
     changed |-> FALSE]

Init ==
    /\ pc = "watchdog"
    /\ errors = {}
    /\ graphics = "null"
    /\ gop = NoSearch
    /\ text = NoSearch
    /\ disk = FALSE
    /\ net = "null"
    /\ pointer = FALSE
    /\ shown = {}

(* watchdog_setup: a firmware without the timer is no error. *)
Watchdog ==
    /\ pc = "watchdog"
    /\ pc' = "gop"
    /\ errors' \in {errors, errors \cup {"watchdog"}}
    /\ UNCHANGED <<graphics, gop, text, disk, net, pointer, shown>>

(* gop_setup: the mode is compared with NULL once, and followed next. *)
LocateGop ==
    /\ pc = "gop"
    /\ \/ /\ errors' = errors \cup {"gop"}
          /\ pc' = "text"
          /\ UNCHANGED graphics
       \/ /\ graphics' = "located"
          /\ pc' = "gopmodes"
          /\ UNCHANGED errors
       \/ /\ graphics' = "modeless"
          /\ pc' = "fault"
          /\ UNCHANGED errors
    /\ UNCHANGED <<gop, text, disk, net, pointer, shown>>

(* Mutation: a mode is the best because it answered, however small it is. *)
QueriedLast(search, answer, area) ==
    LET asked == [search EXCEPT !.answers = Append(@, answer)]
    IN  IF answer # Failed
        THEN [asked EXCEPT !.best = area, !.size = answer,
                           !.bestmode = Len(asked.answers)]
        ELSE asked

(* One round of either loop. *)
Queried(search, answer, area) ==
    LET asked == [search EXCEPT !.answers = Append(@, answer)]
    IN  IF answer # Failed /\ area > search.best
        THEN [asked EXCEPT !.best = area, !.size = answer,
                           !.bestmode = Len(asked.answers)]
        ELSE asked

QueryGop ==
    /\ pc = "gopmodes"
    /\ Len(gop.answers) < GopModes
    /\ \E answer \in Sizes \cup {Failed} : gop' = Queried(gop, answer, answer % Word)
    /\ UNCHANGED <<pc, errors, graphics, text, disk, net, pointer, shown>>

(* setMode(best): a mode that was never assigned is any number, the number *)
(* of a mode or, as good as a failure, of none.                            *)
SetMode(search, best) ==
    {[search EXCEPT !.current = mode] :
        mode \in IF best = 0 THEN 1 .. Len(search.answers) ELSE {best}}

SetGopMode ==
    /\ pc = "gopmodes"
    /\ Len(gop.answers) = GopModes
    /\ \/ gop' \in SetMode(gop, gop.bestmode) /\ UNCHANGED errors
       \/ errors' = errors \cup {"gop"} /\ UNCHANGED gop
    /\ pc' = "text"
    /\ UNCHANGED <<graphics, text, disk, net, pointer, shown>>

QueryText ==
    /\ pc = "text"
    /\ Len(text.answers) < TextModes
    /\ \E answer \in Sizes \cup {Failed} : text' = Queried(text, answer, answer)
    /\ UNCHANGED <<pc, errors, graphics, gop, disk, net, pointer, shown>>

(* Here bestmode starts as the first mode. *)
SetTextMode ==
    /\ pc = "text"
    /\ Len(text.answers) = TextModes
    /\ \/ /\ text' \in SetMode(text, IF text.bestmode = 0 THEN 1 ELSE text.bestmode)
          /\ UNCHANGED errors
       \/ errors' = errors \cup {"text"} /\ UNCHANGED text
    /\ pc' = "fs"
    /\ UNCHANGED <<graphics, gop, disk, net, pointer, shown>>

(* fs_setup: the loaded image, then the file system of its device. *)
SetupFs ==
    /\ pc = "fs"
    /\ \/ disk' = TRUE /\ UNCHANGED errors
       \/ errors' = errors \cup {"fs"} /\ UNCHANGED disk
    /\ pc' = "network"
    /\ UNCHANGED <<graphics, gop, text, net, pointer, shown>>

(* network_setup: initialize() is called even when start() failed, and may *)
(* succeed where the interface had been started before.                    *)
SetupNetwork ==
    /\ pc = "network"
    /\ \/ /\ net' \in {"null", "located", "started", "initialized"}
          /\ errors' = errors \cup {"network"}
       \/ net' = "initialized" /\ UNCHANGED errors
    /\ pc' = "mouse"
    /\ UNCHANGED <<graphics, gop, text, disk, pointer, shown>>

(* Mutation: a pointer that is missing is no error. *)
SetupMouseSilent ==
    /\ pc = "mouse"
    /\ pointer' \in BOOLEAN
    /\ pc' = "welcome"
    /\ UNCHANGED <<errors, graphics, gop, text, disk, net, shown>>

SetupMouse ==
    /\ pc = "mouse"
    /\ \/ pointer' = TRUE /\ UNCHANGED errors
       \/ errors' = errors \cup {"mouse"} /\ UNCHANGED pointer
    /\ pc' = "welcome"
    /\ UNCHANGED <<graphics, gop, text, disk, net, shown>>

(* One warning for each error, or none: All Systems Operational. *)
Welcome ==
    /\ pc = "welcome"
    /\ shown' = IF errors = {} THEN {"operational"} ELSE errors
    /\ pc' = "root"
    /\ UNCHANGED <<errors, graphics, gop, text, disk, net, pointer>>

(* Mutation: a file system that is missing is waited for. *)
OpenRootRetries ==
    /\ pc = "root"
    /\ disk
    /\ pc' = "terminal"
    /\ UNCHANGED <<errors, graphics, gop, text, disk, net, pointer, shown>>

(* openVolume of whatever filesystem is; term() calls it once more. *)
OpenRoot ==
    /\ pc = "root"
    /\ pc' = IF disk THEN "terminal" ELSE "fault"
    /\ UNCHANGED <<errors, graphics, gop, text, disk, net, pointer, shown>>

(* gopinfo, goptest and the commands that display an image. *)
UseGraphics ==
    /\ pc = "terminal"
    /\ pc' = IF graphics = "null" THEN "fault" ELSE "terminal"
    /\ UNCHANGED <<errors, graphics, gop, text, disk, net, pointer, shown>>

(* testpointer calls pointer.getState without a look at pointer.exists. *)
UsePointer ==
    /\ pc = "terminal"
    /\ pc' = IF pointer THEN "terminal" ELSE "fault"
    /\ UNCHANGED <<errors, graphics, gop, text, disk, net, shown, pointer>>

(* gopmode and textmode: the mode changes, and none of the sizes the setup *)
(* has stored does.                                                        *)
GopMode(mode) ==
    /\ pc = "terminal"
    /\ IF graphics = "null"
       THEN pc' = "fault" /\ UNCHANGED gop
       ELSE /\ gop' = [gop EXCEPT !.current = mode, !.changed = TRUE]
            /\ UNCHANGED pc
    /\ UNCHANGED <<errors, graphics, text, disk, net, pointer, shown>>

TextMode(mode) ==
    /\ pc = "terminal"
    /\ text' = [text EXCEPT !.current = mode, !.changed = TRUE]
    /\ UNCHANGED <<pc, errors, graphics, gop, disk, net, pointer, shown>>

(* exit: term() returns EFI_SUCCESS whatever happened, and only the blue   *)
(* screen that says ROXUS_END follows, until a key is pressed.             *)
Exit ==
    /\ pc = "terminal"
    /\ pc' = "bsod"
    /\ UNCHANGED <<errors, graphics, gop, text, disk, net, pointer, shown>>

PressAnyKey ==
    /\ pc = "bsod"
    /\ pc' = "ended"
    /\ UNCHANGED <<errors, graphics, gop, text, disk, net, pointer, shown>>

Setup ==
    \/ Watchdog
    \/ LocateGop \/ QueryGop \/ SetGopMode
    \/ QueryText \/ SetTextMode
    \/ SetupFs \/ SetupNetwork \/ SetupMouse
    \/ Welcome \/ OpenRoot

Next ==
    \/ Setup
    \/ UseGraphics
    \/ UsePointer
    \/ \E mode \in 1 .. GopModes : GopMode(mode)
    \/ \E mode \in 1 .. TextModes : TextMode(mode)
    \/ Exit
    \/ PressAnyKey

(* The setup waits for nobody; the user may leave the terminal as it is.   *)
Spec == Init /\ [][Next]_vars /\ WF_vars(Setup)

---------------------------------------------------------------------------
Subsystems == {"watchdog", "gop", "text", "fs", "network", "mouse"}

TypeOK ==
    /\ pc \in Subsystems \cup {"gopmodes", "welcome", "root", "terminal", "bsod",
                               "fault", "ended"}
    /\ errors \subseteq Subsystems
    /\ graphics \in {"null", "located", "modeless"}
    /\ gop \in Search(GopModes)
    /\ text \in Search(TextModes)
    /\ disk \in BOOLEAN
    /\ net \in {"null", "located", "started", "initialized"}
    /\ pointer \in BOOLEAN
    /\ shown \subseteq Subsystems \cup {"operational"}

(* The best of the modes that answered, by the area as the code computes   *)
(* it, is set, its size is the one that is remembered, and it is the first *)
(* such mode; until a command sets another.                                *)
BestIsSet(search, area(_)) ==
    LET answered == {m \in DOMAIN search.answers : area(search.answers[m]) > 0}
        m == search.current
    IN  (m # 0 /\ ~search.changed /\ answered # {}) =>
            /\ m \in answered
            /\ search.size = search.answers[m]
            /\ \A other \in answered :
                   \/ area(search.answers[other]) < area(search.answers[m])
                   \/ /\ area(search.answers[other]) = area(search.answers[m])
                      /\ other >= m

BestModesAreSet ==
    /\ BestIsSet(gop, LAMBDA size : size % Word)
    /\ BestIsSet(text, LAMBDA size : size)

(* "All Systems Operational" is said only if every pointer the commands    *)
(* follow leads somewhere, both modes were set and the network is up.      *)
OperationalMeansUsable ==
    "operational" \in shown =>
        /\ graphics = "located" /\ gop.current # 0 /\ text.current # 0
        /\ disk /\ pointer /\ net = "initialized"

(* What a command or the start of the terminal trips over was announced.   *)
(* Only a display without a mode stops the setup before it says anything.  *)
FaultsWereAnnounced ==
    pc = "fault" => \/ graphics = "modeless" /\ shown = {}
                    \/ shown \cap {"gop", "fs", "mouse"} # {}

(* Without a file system there is no terminal: the warning is the last     *)
(* that is seen.                                                           *)
NoDiskNoTerminal == pc \in {"terminal", "bsod", "ended"} => disk

(* What the setup of roxus.c says on the screen is true of what it leaves  *)
(* behind for the terminal and the commands.                               *)
SetupIsHonest ==
    TypeOK /\ OperationalMeansUsable /\ FaultsWereAnnounced /\ NoDiskNoTerminal

(* The setup ends, in the terminal or in a fault. *)
SetupEnds == <>(pc \in {"terminal", "fault"})
===========================================================================
