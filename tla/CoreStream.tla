---------------------------- MODULE CoreStream -----------------------------
(***************************************************************************)
(* class CoreStream of src/core/stream.cpp: the two ends of a CoreComm,    *)
(* each with places for packets that the other end has written.  Nothing   *)
(* in the program writes to one yet.                                       *)
(*                                                                         *)
(* pending is what a stream would have to deliver: the packets written to  *)
(* it while there was room, in order, and not read.                        *)
(***************************************************************************)
EXTENDS Naturals, Sequences

CONSTANTS Places, \* packets that a buffer has room for, 16, at least 1
          Packet, \* what is written, pointers to packets
          Null    \* none of them

VARIABLES buffer,  \* of either stream
          data,    \* what the last read() of a stream returned
          pending  \* what was written and no read() was called for

vars == <<buffer, data, pending>>

Stream == {"A", "B"}

Index == 0 .. Places - 1

Init ==
    /\ buffer = [s \in Stream |-> [i \in Index |-> Null]]
    /\ data = [s \in Stream |-> Null]
    /\ pending = [s \in Stream |-> <<>>]

(* The search in buffer_write() goes on over a place like this. *)
Searched(s, i) == buffer[s][i] = Null

(* Where it ends, at the latest behind the buffer. *)
Stop(s) ==
    CHOOSE n \in 0 .. Places : /\ \A m \in 0 .. n - 1 : Searched(s, m)
                               /\ n = Places \/ ~Searched(s, n)

(* write() of the other end: buffer_write() takes the first place that the *)
(* search stops at, and drops the packet when there is none.               *)
Write(s, packet) ==
    LET i == Stop(s) IN
        /\ buffer' = IF i = Places THEN buffer
                     ELSE [buffer EXCEPT ![s][i] = packet]
        /\ pending' = [pending EXCEPT ![s] =
                          IF Len(@) < Places THEN Append(@, packet) ELSE @]
        /\ UNCHANGED data

Read(s) ==
    /\ data' = [data EXCEPT ![s] = buffer[s][0]]
    /\ buffer' = [buffer EXCEPT ![s] = [i \in Index |->
                      IF i = Places - 1 THEN Null ELSE @[i + 1]]]
    /\ pending' = [pending EXCEPT ![s] = IF @ = <<>> THEN @ ELSE Tail(@)]

Next == \E s \in Stream : Read(s) \/ \E packet \in Packet : Write(s, packet)

Spec == Init /\ [][Next]_vars

---------------------------------------------------------------------------
(* "up to 16 packets can be kept track of at a time" (stream.hpp:42): what  *)
(* was written and not read yet is in the buffer, in order.                *)
KeepsTrack ==
    \A s \in Stream :
        \A i \in 1 .. Len(pending[s]) : buffer[s][i - 1] = pending[s][i]
===========================================================================
