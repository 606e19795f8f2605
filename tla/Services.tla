------------------------------ MODULE Services ------------------------------
(***************************************************************************)
(* The parts that the rest of the system calls, one call into one of them  *)
(* in each behaviour: "script" splits and runs the lines of a text,        *)
(* "string" is a function of string.c or compat/stdlib.c, "pointer" the    *)
(* command testpointer, "bsod" the blue screen, and "interface" what a     *)
(* program of a core writes its commands to.  As in Graphics, variables    *)
(* are out of use while their part is not called.                          *)
(***************************************************************************)
EXTENDS Script

CONSTANTS IntWord, NumberWord, Bases, StringUnits, MaxLength, MaxShort,
          Room, MaxUnits,                                 \* of Strings
          Movements, Resolutions, Start, PointerWord,
          ResolutionWord, MaxReads,                       \* of PointerTest
          Names, Others, Errors, MaxKeys,                 \* of BlueScreen
          HeadWord, BufferSize, PointerBytes, MaxWrites   \* of CoreInterface

VARIABLES part,
          given, base, value, tmp_value, str, str2, ptr, ptr1, val,
          exists, resolution, position, ready, cursor, read,
          error, failed, attribute, told, shown, keys,
          status,                                         \* of two parts
          buffers, heap, unsound, output_read_head, output_write_head,
          output_buffer, writes

scriptVars == <<script, text, size, mem, start, end, running, argv, pos, ran>>
stringVars == <<given, base, value, tmp_value, str, str2, ptr, ptr1, val>>
pointerVars == <<exists, resolution, position, ready, cursor, read>>
screenVars == <<error, failed, attribute, told, shown, keys>>
interfaceVars == <<buffers, heap, unsound, output_read_head, output_write_head,
                   output_buffer, writes>>
servicesVars == <<part, vars, stringVars, pointerVars, screenVars, status,
                  interfaceVars>>

Strings == INSTANCE Strings WITH Units <- StringUnits, LongWord <- NumberWord
Pointer == INSTANCE PointerTest WITH Word <- PointerWord, LongWord <- ResolutionWord
Screen  == INSTANCE BlueScreen
Interface == INSTANCE CoreInterface WITH Word <- HeadWord

ASSUME ServicesAssumption ==
    /\ Strings!StringsAssumption
    /\ Pointer!PointerAssumption
    /\ Screen!BlueScreenAssumption
    /\ Interface!InterfaceAssumption

NotUsed == "not used"

ScriptNotUsed ==
    /\ script = NotUsed /\ text = NotUsed /\ size = NotUsed /\ mem = NotUsed
    /\ start = NotUsed /\ end = NotUsed /\ running = NotUsed
    /\ argv = NotUsed /\ pos = NotUsed /\ ran = NotUsed

StringsNotUsed ==
    /\ given = NotUsed /\ base = NotUsed /\ value = NotUsed /\ tmp_value = NotUsed
    /\ str = NotUsed /\ str2 = NotUsed /\ ptr = NotUsed /\ ptr1 = NotUsed
    /\ val = NotUsed

PointerNotUsed ==
    /\ exists = NotUsed /\ resolution = NotUsed /\ position = NotUsed
    /\ ready = NotUsed /\ cursor = NotUsed /\ read = NotUsed

ScreenNotUsed ==
    /\ error = NotUsed /\ failed = NotUsed /\ attribute = NotUsed
    /\ told = NotUsed /\ shown = NotUsed /\ keys = NotUsed

InterfaceNotUsed ==
    /\ buffers = NotUsed /\ heap = NotUsed /\ unsound = NotUsed
    /\ output_read_head = NotUsed /\ output_write_head = NotUsed
    /\ output_buffer = NotUsed /\ writes = NotUsed

ServicesInit ==
    \/ /\ part = "script" /\ Init
       /\ StringsNotUsed /\ PointerNotUsed /\ ScreenNotUsed /\ status = NotUsed
       /\ InterfaceNotUsed
    \/ /\ part = "string" /\ Strings!Init
       /\ ScriptNotUsed /\ PointerNotUsed /\ ScreenNotUsed /\ status = NotUsed
       /\ InterfaceNotUsed
    \/ /\ part = "pointer" /\ Pointer!Init
       /\ ScriptNotUsed /\ StringsNotUsed /\ ScreenNotUsed
       /\ InterfaceNotUsed
    \/ /\ part = "bsod" /\ Screen!Init
       /\ ScriptNotUsed /\ StringsNotUsed /\ PointerNotUsed
       /\ InterfaceNotUsed
    \/ /\ part = "interface" /\ Interface!Init
       /\ ScriptNotUsed /\ StringsNotUsed /\ PointerNotUsed /\ ScreenNotUsed
       /\ status = NotUsed

ScriptStep ==
    /\ part = "script" /\ Next
    /\ UNCHANGED <<part, stringVars, pointerVars, screenVars, status,
                   interfaceVars>>

StringStep ==
    /\ part = "string" /\ Strings!Next
    /\ UNCHANGED <<part, scriptVars, pointerVars, screenVars, status,
                   interfaceVars>>

PointerStep ==
    /\ part = "pointer" /\ Pointer!Next
    /\ UNCHANGED <<part, scriptVars, stringVars, screenVars,
                   interfaceVars>>

ScreenStep(Step) ==
    /\ part = "bsod" /\ Step
    /\ UNCHANGED <<part, scriptVars, stringVars, pointerVars,
                   interfaceVars>>

InterfaceStep(Step) ==
    /\ part = "interface" /\ Step
    /\ UNCHANGED <<part, scriptVars, stringVars, pointerVars, screenVars, status>>

ServicesNext ==
    \/ ScriptStep \/ StringStep \/ PointerStep
    \/ ScreenStep(Screen!Next) \/ InterfaceStep(Interface!Next)

(* The fairness of Script, of BlueScreen and of CoreInterface. *)
ServicesSpec ==
    /\ ServicesInit
    /\ [][ServicesNext]_servicesVars
    /\ WF_servicesVars(ScriptStep)
    /\ WF_servicesVars(ScreenStep(Screen!Proceed))
    /\ WF_servicesVars(ScreenStep(Screen!ReadKey))
    /\ WF_servicesVars(InterfaceStep(Interface!Update))

---------------------------------------------------------------------------
(* run() and command(), term.c:36-90: the lines of a text are run with     *)
(* their arguments; the block is left only by texts without a terminator,  *)
(* and argv by lines with too many arguments: at the prompt that is the    *)
(* one line that fills the buffer with spaces.                             *)
ScriptsRunTheirLines ==
    part = "script" =>
        /\ TypeOK /\ RunsTheLines /\ ScanStaysInBlock
        /\ ArgvIsLeftByFullLines

(* itoa(), parseInt() and strcmp(): what they write, parse and compare is  *)
(* the number or the string; of itoa() only for numbers that are not       *)
(* negative, and as far as its array has room.                             *)
StringsAreExact ==
    part = "string" =>
        /\ Strings!TypeOK
        /\ Strings!WritesTheNumber
        /\ Strings!FitsBelowPower
        /\ Strings!ParsesLeadingDigits
        /\ Strings!EqualsAreEqual

(* testpointer: the cursor has gone the squares of the movements.          *)
CursorNeverGoesBack == part = "pointer" => Pointer!TypeOK /\ Pointer!CursorAddsSquares

(* bsod(): a screen that could not be set up says so, and it is left as it *)
(* was found unless the last call fails.                                   *)
ScreenIsHonest ==
    part = "bsod" =>
        Screen!TypeOK /\ Screen!FailuresAreTold /\ Screen!LeavesBlack

(* CoreInterface's buffers, interface.cpp:13-60: whichever allocation      *)
(* failed, what the pointer leads to is whole, is freed once (but for one  *)
(* case) and nothing is left behind.                                       *)
BuffersAreOwned ==
    part = "interface" =>
        Interface!TypeOK /\ Interface!FreedOnce /\ Interface!DeletedIsClean

(* update() does not read past what the program has written.               *)
ReaderStaysBehind == Interface!ReaderStaysBehind

(* Every text ends or runs into memory that is not there, one key is       *)
(* enough to leave the blue screen, and the ring of commands is emptied as *)
(* far as commands are ever consumed.                                      *)
CallsEnd ==
    /\ part = "script" => TextEnds
    /\ (part = "bsod" /\ keys > 0) ~> (part = "bsod" /\ pc = "returned")
    /\ part = "interface" => Interface!Drains
===========================================================================
