------------------------------ MODULE FairGate ------------------------------
(***************************************************************************)
(* What an admission gate promises, without its counters: clients inside   *)
(* weigh at most Capacity, at most MaxWaiting stand in line, the line is   *)
(* first come first served, a newcomer enters only past an empty line, and *)
(* a client that leaves hands its room to as many heads of the line as     *)
(* fit.  The slot gate of exportQueue.ts and the row budget of             *)
(* saveBudget.ts are both meant to be one of these.                        *)
(***************************************************************************)
EXTENDS Naturals, Sequences, FiniteSets, SequencesExt

CONSTANTS
    Clients,
    Capacity,
    MaxWaiting,
    Weight          \* Weight[c] is the room client c takes

VARIABLES
    inside,         \* the clients that have been let in
    line            \* the clients that wait, oldest first

vars == <<inside, line>>

\* The units of room that a set of clients takes, and how many they are.
Units(S) == UNION {{c} \X (1 .. Weight[c]) : c \in S}
Load(S)  == Cardinality(Units(S))

Fits(S)     == Load(S) <= Capacity
Outside     == Clients \ (inside \cup ToSet(line))
Admits(c)   == line = <<>> /\ Fits(inside \cup {c})
Heads(n)    == ToSet(SubSeq(line, 1, n))

Init == inside = {} /\ line = <<>>

Take(c) ==
    /\ c \in Outside
    /\ Admits(c)
    /\ inside' = inside \cup {c}
    /\ UNCHANGED line

Join(c) ==
    /\ c \in Outside
    /\ ~Admits(c)
    /\ Len(line) < MaxWaiting
    /\ line' = Append(line, c)
    /\ UNCHANGED inside

\* A client that waits gives up: those behind it move up and nothing else.
Quit(c) ==
    /\ \E i \in DOMAIN line : line[i] = c /\ line' = RemoveAt(line, i)
    /\ UNCHANGED inside

\* The room is handed over in the same step: no newcomer can slip in.
Leave(c) ==
    /\ c \in inside
    /\ \E n \in 0 .. Len(line) :
          /\ n > 0 => Fits((inside \ {c}) \cup Heads(n))
          /\ n < Len(line) => ~Fits((inside \ {c}) \cup Heads(n + 1))
          /\ inside' = (inside \ {c}) \cup Heads(n)
          /\ line' = SubSeq(line, n + 1, Len(line))

Next == \E c \in Clients : Take(c) \/ Join(c) \/ Quit(c) \/ Leave(c)

Spec == Init /\ [][Next]_vars
=============================================================================
