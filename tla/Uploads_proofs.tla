---------------------------- MODULE Uploads_proofs ----------------------------
(***************************************************************************)
(* What holds of Uploads for any files, any number of calls at a time, any *)
(* limit of pending uploads and any number of faults.                      *)
(***************************************************************************)
EXTENDS Uploads, FiniteSetTheorems, TLAPS

USE UploadAssumption

(***************************************************************************)
(* The inductive invariant.                                                *)
(***************************************************************************)

\* Shapes of the variables, and whether a call is about a file.
Typed ==
    /\ row \in [Files -> Statuses] /\ age \in [Files -> 0..2]
    /\ staging \in [Files -> BOOLEAN] /\ final \in [Files -> BOOLEAN]
    /\ direct \subseteq Files /\ req \in [Requests -> Calls]
    /\ \A r \in Requests : req[r].pc = "idle" <=> req[r].file = "-"
    /\ prune \in Rounds /\ (prune.pc = "idle" => prune.taken \cup prune.gone = {})
    /\ faults \in 0..MaxFaults
    /\ cut \subseteq Files /\ removed \subseteq Files

\* A call that makes a new row is alone with its file, which has no row yet.
Newcomer ==
    \A r \in Requests : req[r].pc \in {"signing", "storing"} =>
        /\ row[req[r].file] = "none"
        /\ \A q \in Requests : req[q].file = req[r].file => q = r

\* What the multipart route has stored is there unless an admin deleted it.
StoredIsThere ==
    \A r \in Requests : req[r].pc = "storing" =>
        final[req[r].file] \/ req[r].file \in removed

\* From the claim to the end of finalize the row says finalized.
ClaimHolds ==
    \A r \in Requests : req[r].pc \in {"claimed", "uncopied", "copied"} =>
        row[req[r].file] = "finalized"

\* What the retention job has taken is too old to be uploaded again, and what
\* it is about to delete the row of has no staging object.
RoundIsOld ==
    /\ \A f \in prune.taken \cup prune.gone : age[f] = 2
    /\ \A f \in prune.gone : ~staging[f]

\* The calls that may yet make one more valid pending row.
Owing == {r \in Requests :
            \/ req[r].pc = "signing"
            \/ req[r].pc \in {"claimed", "uncopied"} /\ age[req[r].file] = 0}

RoomLeft == Cardinality(Pending) + Cardinality(Owing) < MaxPending + Cardinality(Requests)

IInv ==
    /\ Typed
    /\ Newcomer
    /\ StoredIsThere
    /\ ClaimHolds
    /\ RoundIsOld
    /\ FinishedIsStored
    /\ OneCopies
    /\ StagingTraceable
    /\ RoomLeft

(* Initially there is nothing.                                             *)
LEMMA InitHolds == Init => IInv
<1> SUFFICES ASSUME Init PROVE IInv
  OBVIOUS
<1>1. Typed /\ Newcomer /\ StoredIsThere /\ ClaimHolds /\ RoundIsOld
  BY DEF Init, Typed, Newcomer, StoredIsThere, ClaimHolds, RoundIsOld, Idle, NoRound,
     Statuses, Phases, Calls, Rounds
<1>2. FinishedIsStored /\ OneCopies /\ StagingTraceable
  BY DEF Init, FinishedIsStored, OneCopies, StagingTraceable, Idle
<1>3. Pending = {} /\ Owing = {}
  BY DEF Init, Pending, Owing, Idle
<1>4. RoomLeft
  BY <1>3, FS_EmptySet, FS_CardinalityType DEF RoomLeft
<1> QED BY <1>1, <1>2, <1>4 DEF IInv

-----------------------------------------------------------------------------
(***************************************************************************)
(* Types.                                                                  *)
(***************************************************************************)

\* A call that runs is about a file.
LEMMA FileOfCall ==
    ASSUME Typed, NEW r \in Requests, req[r].pc # "idle"
    PROVE  req[r].file \in Files
BY DEF Typed, Calls

LEMMA FaultTyped == Typed /\ Fault => faults' \in 0..MaxFaults
BY DEF Typed, Fault

\* A call that goes on with a file, or ends, has the shape of a call.
LEMMA MoveTyped ==
    ASSUME Typed, NEW r \in Requests, NEW p \in Phases \ {"idle"}, NEW f \in Files,
           Move(r, p, f)
    PROVE  /\ req' \in [Requests -> Calls]
           /\ \A q \in Requests : req'[q].pc = "idle" <=> req'[q].file = "-"
BY DEF Typed, Move, At, Calls

LEMMA ReturnTyped ==
    ASSUME Typed, NEW r \in Requests, Return(r)
    PROVE  /\ req' \in [Requests -> Calls]
           /\ \A q \in Requests : req'[q].pc = "idle" <=> req'[q].file = "-"
BY DEF Typed, Return, Idle, Calls, Phases

LEMMA CallTyped ==
    ASSUME Typed, NEW r \in Requests, Call(r)
    PROVE  Typed'
<1> USE DEF Phases, Statuses
<1>1. ASSUME NEW f \in Files, CountPending(r, f) \/ Find(r, f) PROVE Typed'
  BY <1>1, MoveTyped DEF CountPending, Find, Typed
<1>2. ASSUME NEW f \in Files, Store(r, f) PROVE Typed'
  BY <1>2, MoveTyped DEF Store, Typed
<1>3. CASE CreateRow(r)
  BY <1>3, ReturnTyped DEF CreateRow, Typed
<1>4. CASE Read(r)
  BY <1>4, ReturnTyped, MoveTyped, FileOfCall DEF Read, Typed
<1>5. CASE DeleteUnwanted(r)
  BY <1>5, MoveTyped, FileOfCall, FaultTyped DEF DeleteUnwanted, Typed
<1>6. CASE Refuse(r)
  BY <1>6, ReturnTyped DEF Refuse, Typed
<1>7. CASE Claim(r)
  BY <1>7, ReturnTyped, MoveTyped, FileOfCall DEF Claim, Typed
<1>8. CASE Copy(r)
  BY <1>8, MoveTyped, FileOfCall DEF Copy, Typed
<1>9. CASE CopyFails(r)
  BY <1>9, MoveTyped, FileOfCall, FaultTyped DEF CopyFails, Typed
<1>10. CASE Revert(r)
  BY <1>10, ReturnTyped DEF Revert, Typed
<1>11. CASE DeleteStaging(r)
  BY <1>11, ReturnTyped, FaultTyped DEF DeleteStaging, Typed
<1>12. CASE CreateStored(r)
  BY <1>12, ReturnTyped DEF CreateStored, Typed
<1>13. CASE Cut(r)
  BY <1>13, ReturnTyped, FileOfCall, FaultTyped DEF Cut, Typed
<1> QED BY <1>1, <1>2, <1>3, <1>4, <1>5, <1>6, <1>7, <1>8, <1>9, <1>10, <1>11, <1>12, <1>13
         DEF Call

LEMMA RetentionTyped == Typed /\ Retention => Typed'
<1> SUFFICES ASSUME Typed, Retention PROVE Typed'
  OBVIOUS
<1>1. ASSUME NEW s \in {"pending", "rejected"}, Take(s) PROVE Typed'
  <2>1. prune' \in Rounds /\ prune'.pc = "dropping"
    BY <1>1 DEF Take, Rounds
  <2> QED BY <1>1, <2>1 DEF Take, Typed
<1>2. ASSUME NEW f \in Files, Drop(f) \/ DropFails(f) PROVE Typed'
  <2>1. prune.pc = "dropping"
    BY <1>2 DEF Typed, Rounds, Drop, DropFails
  <2>2. /\ prune'.pc = "dropping" /\ prune'.status = prune.status
        /\ prune'.taken = prune.taken \ {f} /\ prune'.gone \subseteq prune.gone \cup {f}
        /\ prune' = [pc |-> prune'.pc, status |-> prune'.status,
                     taken |-> prune'.taken, gone |-> prune'.gone]
    BY <1>2, <2>1 DEF Typed, Rounds, Drop, DropFails
  <2>3. prune' \in Rounds
    BY <1>2, <2>2 DEF Typed, Rounds
  <2>4. faults' \in 0..MaxFaults
    BY <1>2, FaultTyped DEF Drop, DropFails, Typed
  <2> QED BY <1>2, <2>2, <2>3, <2>4 DEF Typed, Drop, DropFails
<1>3. CASE DeleteRows
  <2>1. row' \in [Files -> Statuses]
    BY <1>3 DEF DeleteRows, Typed, Statuses
  <2>2. age' \in [Files -> 0..2]
    BY <1>3 DEF DeleteRows, Typed
  <2> QED BY <1>3, <2>1, <2>2 DEF DeleteRows, Typed, NoRound, Rounds
<1>4. CASE CutRound
  BY <1>4 DEF CutRound, Typed, NoRound, Rounds, Fault
<1> QED BY <1>1, <1>2, <1>3, <1>4 DEF Retention

LEMMA OutsideTyped ==
    ASSUME Typed, NEW f \in Files, Put(f) \/ DeleteObject(f) \/ Pass(f)
    PROVE  Typed'
<1>1. CASE Put(f)
  BY <1>1 DEF Put, Typed
<1>2. CASE DeleteObject(f)
  BY <1>2 DEF DeleteObject, Typed
<1>3. CASE Pass(f)
  BY <1>3 DEF Pass, Typed
<1> QED BY <1>1, <1>2, <1>3

LEMMA NextTyped == Typed /\ [Next]_vars => Typed'
<1>1. Typed /\ UNCHANGED vars => Typed'
  BY DEF vars, Typed
<1> QED BY <1>1, CallTyped, RetentionTyped, OutsideTyped DEF Next

-----------------------------------------------------------------------------
(***************************************************************************)
(* What a step of a call may touch.                                        *)
(***************************************************************************)

\* A call that begins picks a file; row and store stay, but for what the
\* multipart route stores.
Begins(r) ==
    \E f \in Files : CountPending(r, f) \/ Find(r, f) \/ Store(r, f)

\* The others are about the file the call is about already.
GoesOn(r) ==
    \/ CreateRow(r) \/ Read(r) \/ DeleteUnwanted(r) \/ Refuse(r)
    \/ Claim(r) \/ Copy(r) \/ CopyFails(r) \/ Revert(r) \/ DeleteStaging(r)
    \/ CreateStored(r) \/ Cut(r)

LEMMA CallIs == ASSUME NEW r \in Requests PROVE Call(r) <=> Begins(r) \/ GoesOn(r)
BY DEF Call, Begins, GoesOn

LEMMA OthersStay ==
    ASSUME Typed, NEW r \in Requests, Call(r)
    PROVE  \A q \in Requests : q # r => req'[q] = req[q]
<1>1. CASE Begins(r)
  BY <1>1 DEF Begins, CountPending, Find, Store, Move, Typed
<1>2. CASE GoesOn(r)
  BY <1>2 DEF GoesOn, CreateRow, Read, DeleteUnwanted, Refuse, Claim, Copy, CopyFails, Revert,
     DeleteStaging, CreateStored, Cut, Move, Return, Typed
<1> QED BY <1>1, <1>2, CallIs

LEMMA BeginsSo ==
    ASSUME Typed, NEW r \in Requests, Begins(r)
    PROVE  /\ req[r].pc = "idle" /\ req'[r].file \in Files /\ row' = row /\ staging' = staging
           /\ UNCHANGED <<age, prune, cut, removed>>
           /\ \A f \in Files : final[f] => final'[f]
           /\ \/ req'[r].pc = "reading" /\ row[req'[r].file] = "pending"
              \/ /\ req'[r].pc \in {"signing", "storing"} /\ Unused(req'[r].file)
                 /\ req'[r].pc = "storing" => final'[req'[r].file]
                 /\ req'[r].pc = "signing" => Cardinality(Pending) < MaxPending
<1>1. ASSUME NEW f \in Files, CountPending(r, f) \/ Find(r, f) \/ Store(r, f)
      PROVE  req'[r] = At(req'[r].pc, f)
  BY <1>1 DEF CountPending, Find, Store, Move, At, Typed
<1> QED BY <1>1 DEF Begins, CountPending, Find, Store, Move, At, Typed

TouchesItsFile(r) ==
    /\ req'[r].file \in {req[r].file, "-"}
    /\ req'[r].pc \notin {"signing", "storing", "reading"}
    /\ \A f \in Files : f # req[r].file =>
         row'[f] = row[f] /\ final'[f] = final[f] /\ staging'[f] = staging[f]
    /\ \A f \in Files : (final[f] => final'[f]) /\ (staging'[f] => staging[f])
    /\ UNCHANGED <<age, prune, removed>> /\ cut \subseteq cut'

LEMMA GoesOnSo ==
    ASSUME Typed, NEW r \in Requests, GoesOn(r)
    PROVE  req[r].pc # "idle" /\ req[r].file \in Files /\ TouchesItsFile(r)
<1>1. req[r].pc # "idle"
  BY DEF GoesOn, CreateRow, Read, DeleteUnwanted, Refuse, Claim, Copy, CopyFails, Revert,
     DeleteStaging, CreateStored, Cut
<1>2. req[r].file \in Files
  BY <1>1, FileOfCall
<1>3. CASE Return(r)
  <2>1. req'[r] = Idle
    BY <1>3 DEF Return, Typed
  <2> QED BY <1>1, <1>2, <1>3, <2>1 DEF GoesOn, CreateRow, Read, DeleteUnwanted, Refuse, Claim,
     Copy, CopyFails, Revert, DeleteStaging, CreateStored, Cut, Idle, Typed, TouchesItsFile
<1>4. ASSUME NEW p \in Phases \ {"idle", "signing", "storing", "reading"},
             Move(r, p, req[r].file),
             Read(r) \/ DeleteUnwanted(r) \/ Claim(r) \/ Copy(r) \/ CopyFails(r)
      PROVE  TouchesItsFile(r)
  <2>1. req'[r] = At(p, req[r].file)
    BY <1>4 DEF Move, Typed
  <2> QED BY <1>1, <1>2, <1>4, <2>1 DEF Read, DeleteUnwanted, Claim, Copy, CopyFails, At, Typed, TouchesItsFile
<1>5. CASE CreateRow(r) \/ Refuse(r) \/ Revert(r) \/ DeleteStaging(r) \/ CreateStored(r) \/ Cut(r)
  BY <1>1, <1>2, <1>3, <1>5 DEF CreateRow, Refuse, Revert, DeleteStaging, CreateStored, Cut
<1>6. CASE Read(r)
  BY <1>1, <1>2, <1>3, <1>4, <1>6 DEF Read, Phases
<1>7. CASE Claim(r)
  BY <1>1, <1>2, <1>3, <1>4, <1>7 DEF Claim, Phases
<1>8. CASE DeleteUnwanted(r) \/ Copy(r) \/ CopyFails(r)
  BY <1>1, <1>2, <1>4, <1>8 DEF DeleteUnwanted, Copy, CopyFails, Phases
<1> QED BY <1>5, <1>6, <1>7, <1>8 DEF GoesOn

\* A round of the retention job and what happens outside leave calls alone; of
\* the rows, only pending and rejected ones that are old may go.
LEMMA RestSo ==
    ASSUME Typed, Retention \/ \E f \in Files : Put(f) \/ DeleteObject(f) \/ Pass(f)
    PROVE  /\ req' = req /\ cut' = cut /\ removed \subseteq removed'
           /\ \A f \in Files : \/ row'[f] = row[f] /\ age[f] \in Nat /\ age'[f] \in Nat
                                  /\ (age'[f] >= age[f] \/ row[f] = "pruned")
                               \/ /\ row'[f] = "pruned" /\ f \in prune.gone /\ age[f] = 2
                                  /\ row[f] \in {"pending", "rejected"}
           /\ \A f \in Files : final[f] => final'[f] \/ f \in removed'
<1>1. \A f \in Files : age[f] \in Nat /\ age[f] >= 0 /\ age[f] =< 2
  BY DEF Typed
<1>2. CASE Retention
  <2>1. CASE DeleteRows
    <3>1. ASSUME NEW f \in Files
          PROVE  /\ row'[f] = IF f \in prune.gone /\ Collects(prune.status, f)
                              THEN "pruned" ELSE row[f]
                 /\ age'[f] = IF row'[f] = "pruned" THEN 0 ELSE age[f]
      BY <2>1 DEF DeleteRows
    <3>2. prune.status \in {"pending", "rejected"}
      BY DEF Typed, Rounds
    <3> QED BY <1>1, <2>1, <3>1, <3>2 DEF DeleteRows, Collects
  <2>2. CASE \/ \E s \in {"pending", "rejected"} : Take(s)
             \/ \E f \in Files : Drop(f) \/ DropFails(f)
             \/ CutRound
    <3>1. UNCHANGED <<row, age, final, req, cut, removed>>
      BY <2>2 DEF Take, Drop, DropFails, CutRound
    <3> QED BY <1>1, <3>1
  <2> QED BY <1>2, <2>1, <2>2 DEF Retention
<1>3. CASE \E f \in Files : Put(f) \/ DeleteObject(f) \/ Pass(f)
  BY <1>1, <1>3 DEF Put, DeleteObject, Pass, Typed
<1> QED BY <1>2, <1>3

-----------------------------------------------------------------------------
(***************************************************************************)
(* Each part of the invariant.                                             *)
(***************************************************************************)
Rest == Retention \/ \E f \in Files : Put(f) \/ DeleteObject(f) \/ Pass(f)

LEMMA NextIs ==
    [Next]_vars <=> (\E r \in Requests : Begins(r) \/ GoesOn(r)) \/ Rest \/ UNCHANGED vars
BY CallIs DEF Next, Rest

LEMMA NewcomerKept == IInv /\ [Next]_vars => Newcomer'
<1> SUFFICES ASSUME IInv, [Next]_vars,
                    NEW q \in Requests, req'[q].pc \in {"signing", "storing"},
                    NEW q2 \in Requests, req'[q2].file = req'[q].file
             PROVE  row'[req'[q].file] = "none" /\ q2 = q
  BY DEF Newcomer
<1>1. ASSUME NEW r \in Requests, Begins(r) PROVE row'[req'[q].file] = "none" /\ q2 = q
  <2>1. \A x \in Requests : req[x].pc \in Phases
    BY DEF IInv, Typed, Calls
  <2>2. \A x \in Requests : x # r => req'[x] = req[x]
    BY <1>1, OthersStay, CallIs DEF IInv
  <2>3. CASE q = r
    BY <1>1, <2>1, <2>2, <2>3, BeginsSo DEF IInv, Unused, Doing
  <2>4. CASE q # r
    BY <1>1, <2>1, <2>2, <2>4, BeginsSo DEF IInv, Newcomer, Unused, Doing
  <2> QED BY <2>3, <2>4
<1>2. ASSUME NEW r \in Requests, GoesOn(r) PROVE row'[req'[q].file] = "none" /\ q2 = q
  <2>1. \A x \in Requests : x # r => req'[x] = req[x]
    BY <1>2, OthersStay, CallIs DEF IInv
  <2>2. q # r /\ req[q].file # "-" /\ req[q].file \in Files
    BY <1>2, <2>1, GoesOnSo, FileOfCall DEF IInv, TouchesItsFile, Typed
  <2>3. req[q].file # req[r].file
    BY <2>1, <2>2, <1>2 DEF IInv, Newcomer
  <2> QED BY <1>2, <2>1, <2>2, <2>3, GoesOnSo DEF IInv, Newcomer, TouchesItsFile
<1>3. CASE Rest
  BY <1>3, RestSo, FileOfCall DEF IInv, Newcomer, Rest
<1>4. CASE UNCHANGED vars
  BY <1>4 DEF vars, IInv, Newcomer
<1> QED BY <1>1, <1>2, <1>3, <1>4, NextIs

LEMMA StoredKept == IInv /\ [Next]_vars => StoredIsThere'
<1> SUFFICES ASSUME IInv, [Next]_vars, NEW q \in Requests, req'[q].pc = "storing"
             PROVE  final'[req'[q].file] \/ req'[q].file \in removed'
  BY DEF StoredIsThere
<1>1. ASSUME NEW r \in Requests, Begins(r)
      PROVE  final'[req'[q].file] \/ req'[q].file \in removed'
  <2>1. CASE q = r
    BY <1>1, <2>1, BeginsSo DEF IInv
  <2>2. CASE q # r
    BY <1>1, <2>2, BeginsSo, OthersStay, CallIs, FileOfCall DEF IInv, StoredIsThere
  <2> QED BY <2>1, <2>2
<1>2. ASSUME NEW r \in Requests, GoesOn(r)
      PROVE  final'[req'[q].file] \/ req'[q].file \in removed'
  BY <1>2, GoesOnSo, OthersStay, CallIs, FileOfCall DEF IInv, StoredIsThere, TouchesItsFile
<1>3. CASE Rest
  BY <1>3, RestSo, FileOfCall DEF IInv, StoredIsThere, Rest
<1>4. CASE UNCHANGED vars
  BY <1>4 DEF vars, IInv, StoredIsThere
<1> QED BY <1>1, <1>2, <1>3, <1>4, NextIs

\* A call that claims a row was alone in finding it pending.
LEMMA ClaimKept == IInv /\ [Next]_vars => ClaimHolds' /\ OneCopies'
<1> SUFFICES ASSUME IInv, [Next]_vars PROVE ClaimHolds' /\ OneCopies'
  OBVIOUS
<1>1. ASSUME NEW r \in Requests, Begins(r) PROVE ClaimHolds' /\ OneCopies'
  BY <1>1, BeginsSo, OthersStay, CallIs DEF IInv, ClaimHolds, OneCopies
<1>2. ASSUME NEW r \in Requests, GoesOn(r) PROVE ClaimHolds' /\ OneCopies'
  <2>1. /\ \A x \in Requests : x # r => req'[x] = req[x]
        /\ req[r].pc # "idle" /\ req[r].file \in Files /\ TouchesItsFile(r)
    BY <1>2, OthersStay, CallIs, GoesOnSo DEF IInv
  <2>2. ASSUME req'[r].pc \in {"claimed", "uncopied", "copied"}
        PROVE  /\ row'[req'[r].file] = "finalized" /\ req'[r].file = req[r].file
               /\ \/ req[r].pc = "verified" /\ row[req[r].file] = "pending"
                  \/ /\ req[r].pc \in {"claimed", "uncopied"}
                     /\ req'[r].pc \in {"uncopied", "copied"}
    <3>1. CASE Return(r)
      BY <2>2, <3>1 DEF Return, Idle, IInv, Typed
    <3>2. ASSUME NEW p \in Phases, Move(r, p, req[r].file)
          PROVE  req'[r].pc = p /\ req'[r].file = req[r].file
      BY <3>2 DEF Move, At, IInv, Typed
    <3>3. CASE Claim(r)
      BY <2>1, <2>2, <3>1, <3>2, <3>3 DEF Claim, Phases, IInv, Typed
    <3>4. CASE Copy(r) \/ CopyFails(r)
      BY <2>1, <2>2, <3>2, <3>4 DEF Copy, CopyFails, Phases, IInv, Typed, ClaimHolds
    <3>5. CASE DeleteUnwanted(r) \/ Read(r)
      BY <2>2, <3>1, <3>2, <3>5 DEF DeleteUnwanted, Read, Phases
    <3> QED BY <1>2, <3>1, <3>3, <3>4, <3>5 DEF GoesOn, CreateRow, Refuse, Revert, DeleteStaging,
       CreateStored, Cut
  <2>3. ASSUME NEW q \in Requests, q # r, req[q].pc \in {"claimed", "uncopied", "copied"}
        PROVE  row'[req[q].file] = "finalized"
    <3>1. req[q].file \in Files /\ row[req[q].file] = "finalized"
      <4>1. req[q].pc # "idle"
        BY <2>3
      <4> QED BY <2>3, <4>1, FileOfCall DEF IInv, ClaimHolds
    <3>2. CASE req[q].file # req[r].file
      BY <2>1, <3>1, <3>2 DEF TouchesItsFile
    <3>3. CASE req[q].file = req[r].file
      <4>1. req[r].pc \notin {"uncopied", "signing", "storing"}
        BY <2>3, <3>1, <3>3 DEF IInv, OneCopies, Newcomer
      <4> QED BY <1>2, <3>1, <3>3, <4>1 DEF GoesOn, CreateRow, Read, DeleteUnwanted, Refuse,
             Claim, Copy, CopyFails, Revert, DeleteStaging, CreateStored, Cut, IInv, Typed
    <3> QED BY <3>2, <3>3
  <2>4. ClaimHolds'
    BY <2>1, <2>2, <2>3 DEF ClaimHolds
  <2>5. OneCopies'
    BY <2>1, <2>2 DEF OneCopies, IInv, ClaimHolds
  <2> QED BY <2>4, <2>5
<1>3. CASE Rest
  BY <1>3, RestSo, FileOfCall DEF IInv, ClaimHolds, OneCopies, Rest
<1>4. CASE UNCHANGED vars
  BY <1>4 DEF vars, IInv, ClaimHolds, OneCopies
<1> QED BY <1>1, <1>2, <1>3, <1>4, NextIs

\* A finalized row keeps what excuses it until its object is there.
LEMMA FinishedKept == IInv /\ [Next]_vars => FinishedIsStored'
<1> DEFINE Copying == {"claimed", "uncopied"}
           Fine(f) == final'[f] \/ f \in cut' \cup removed' \/ Doing(Copying, f)'
<1> SUFFICES ASSUME IInv, [Next]_vars, NEW f \in Files, row'[f] = "finalized" PROVE Fine(f)
  BY DEF FinishedIsStored
<1>1. ASSUME NEW r \in Requests, Begins(r) PROVE Fine(f)
  <2>1. row[f] = "finalized"
    BY <1>1, BeginsSo DEF IInv
  <2>2. Doing(Copying, f) => Doing(Copying, f)'
    BY <1>1, BeginsSo, OthersStay, CallIs DEF Doing, IInv
  <2> QED BY <1>1, <2>1, <2>2, BeginsSo DEF IInv, FinishedIsStored
<1>2. ASSUME NEW r \in Requests, GoesOn(r) PROVE Fine(f)
  <2>1. /\ \A x \in Requests : x # r => req'[x] = req[x]
        /\ req[r].pc # "idle" /\ req[r].file \in Files /\ TouchesItsFile(r)
    BY <1>2, OthersStay, CallIs, GoesOnSo DEF IInv
  <2>2. CASE f # req[r].file
    <3>1. row[f] = "finalized" /\ final'[f] = final[f]
      BY <2>1, <2>2 DEF TouchesItsFile
    <3>2. Doing(Copying, f) => Doing(Copying, f)'
      BY <2>1, <2>2 DEF Doing
    <3> QED BY <2>1, <3>1, <3>2 DEF IInv, FinishedIsStored, TouchesItsFile
  <2>3. CASE f = req[r].file /\ req'[r].pc \in Copying
    <3>1. req'[r].file = f
      BY <2>1, <2>3, NextTyped DEF IInv, Typed, TouchesItsFile
    <3> QED BY <2>3, <3>1 DEF Doing
  <2>4. CASE f = req[r].file /\ req'[r].pc \notin Copying /\ req[r].pc \in Copying
    <3>1. CASE Copy(r)
      BY <2>1, <2>4, <3>1 DEF Copy, IInv, Typed
    <3>2. CASE Revert(r)
      BY <2>1, <2>4, <3>2 DEF Revert, IInv, Typed
    <3>3. CASE Cut(r)
      BY <2>4, <3>3 DEF Cut
    <3> QED BY <1>2, <2>4, <3>1, <3>2, <3>3 DEF GoesOn, CreateRow, Read, DeleteUnwanted, Refuse,
           Claim, CopyFails, DeleteStaging, CreateStored, Move, At, IInv, Typed
  <2>5. CASE f = req[r].file /\ req'[r].pc \notin Copying /\ req[r].pc \notin Copying
    <3>1. CASE CreateStored(r)
      BY <2>1, <2>5, <3>1 DEF CreateStored, IInv, StoredIsThere, TouchesItsFile
    <3>2. CASE ~CreateStored(r)
      <4>1. row[f] = "finalized"
        BY <1>2, <2>1, <2>5, <3>2 DEF GoesOn, CreateRow, Read, DeleteUnwanted, Refuse,
           Claim, Copy, CopyFails, Revert, DeleteStaging, Cut, Move, At, IInv, Typed
      <4>2. Doing(Copying, f) => Doing(Copying, f)'
        BY <2>1, <2>5 DEF Doing
      <4> QED BY <2>1, <4>1, <4>2 DEF IInv, FinishedIsStored, TouchesItsFile
    <3> QED BY <3>1, <3>2
  <2> QED BY <2>2, <2>3, <2>4, <2>5
<1>3. CASE Rest
  BY <1>3, RestSo DEF IInv, FinishedIsStored, Rest, Doing
<1>4. CASE UNCHANGED vars
  BY <1>4 DEF vars, IInv, FinishedIsStored, Doing
<1> QED BY <1>1, <1>2, <1>3, <1>4, NextIs

\* Nothing is uploaded to the staging address of a file a round has taken.
LEMMA RoundKept == IInv /\ [Next]_vars => RoundIsOld'
<1> SUFFICES ASSUME IInv, [Next]_vars PROVE RoundIsOld'
  OBVIOUS
<1>1. prune.taken \subseteq Files /\ prune.gone \subseteq Files
  BY DEF IInv, Typed, Rounds
<1>2. ASSUME NEW r \in Requests, Begins(r) \/ GoesOn(r) PROVE RoundIsOld'
  BY <1>1, <1>2, BeginsSo, GoesOnSo DEF IInv, RoundIsOld, TouchesItsFile
<1>3. CASE Retention
  <2>1. ASSUME NEW s \in {"pending", "rejected"}, Take(s) PROVE RoundIsOld'
    BY <2>1 DEF Take, RoundIsOld, Collects
  <2>2. ASSUME NEW f \in Files, Drop(f) \/ DropFails(f) PROVE RoundIsOld'
    <3>1. /\ prune'.taken = prune.taken \ {f} /\ age' = age /\ f \in prune.taken
          /\ \/ prune'.gone = prune.gone \cup {f} /\ staging' = [staging EXCEPT ![f] = FALSE]
             \/ prune'.gone = prune.gone /\ staging' = staging
      BY <2>2 DEF Drop, DropFails, IInv, Typed, Rounds
    <3> QED BY <1>1, <3>1 DEF IInv, Typed, RoundIsOld
  <2>3. CASE DeleteRows \/ CutRound
    BY <2>3 DEF DeleteRows, CutRound, NoRound, RoundIsOld
  <2> QED BY <1>3, <2>1, <2>2, <2>3 DEF Retention
<1>4. ASSUME NEW f \in Files, Put(f) \/ DeleteObject(f) \/ Pass(f) PROVE RoundIsOld'
  BY <1>1, <1>4 DEF Put, DeleteObject, Pass, IInv, Typed, RoundIsOld
<1>5. CASE UNCHANGED vars
  BY <1>5 DEF vars, IInv, RoundIsOld
<1> QED BY <1>2, <1>3, <1>4, <1>5, NextIs DEF Rest

\* A row goes only when its staging object has gone.
LEMMA StagingKept == IInv /\ [Next]_vars => StagingTraceable'
<1> SUFFICES ASSUME IInv, [Next]_vars, NEW f \in Files, staging'[f]
             PROVE  row'[f] \notin {"none", "pruned"}
  BY DEF StagingTraceable
<1>1. ASSUME NEW r \in Requests, Begins(r) PROVE row'[f] \notin {"none", "pruned"}
  BY <1>1, BeginsSo DEF IInv, StagingTraceable
<1>2. ASSUME NEW r \in Requests, GoesOn(r) PROVE row'[f] \notin {"none", "pruned"}
  <2>1. row[f] \notin {"none", "pruned"}
    BY <1>2, GoesOnSo DEF IInv, StagingTraceable, TouchesItsFile
  <2> QED BY <1>2, <2>1 DEF GoesOn, CreateRow, Read, DeleteUnwanted, Refuse, Claim, Copy,
         CopyFails, Revert, DeleteStaging, CreateStored, Cut, IInv, Typed
<1>3. CASE Retention
  <2>1. staging[f] /\ row[f] \notin {"none", "pruned"}
    BY <1>3 DEF Retention, Take, Drop, DropFails, DeleteRows, CutRound, IInv, Typed,
       StagingTraceable
  <2> QED BY <1>3, <2>1, RestSo DEF IInv, RoundIsOld
<1>4. ASSUME NEW g \in Files, Put(g) \/ DeleteObject(g) \/ Pass(g)
      PROVE  row'[f] \notin {"none", "pruned"}
  BY <1>4 DEF Put, DeleteObject, Pass, IInv, Typed, StagingTraceable
<1>5. CASE UNCHANGED vars
  BY <1>5 DEF vars, IInv, StagingTraceable
<1> QED BY <1>1, <1>2, <1>3, <1>4, <1>5, NextIs DEF Rest

-----------------------------------------------------------------------------
(***************************************************************************)
(* The limit of pending uploads.                                           *)
(***************************************************************************)

LEMMA SetsFinite ==
    /\ IsFiniteSet(Pending) /\ IsFiniteSet(Owing) /\ Owing \subseteq Requests
    /\ Cardinality(Pending) \in Nat /\ Cardinality(Owing) \in Nat
    /\ Cardinality(Owing) =< Cardinality(Requests) /\ Cardinality(Requests) \in Nat
<1>1. Pending \subseteq Files /\ Owing \subseteq Requests
  BY DEF Pending, Owing
<1> QED BY <1>1, FS_Subset, FS_CardinalityType

\* What has grown by one at most, and what is no larger.
LEMMA OneMore ==
    ASSUME NEW S, NEW T, NEW x, IsFiniteSet(S), T \subseteq S \cup {x}
    PROVE  IsFiniteSet(T) /\ Cardinality(T) \in Nat /\ Cardinality(T) =< Cardinality(S) + 1
<1>1. Cardinality(S) \in Nat
  BY FS_CardinalityType
<1>2. /\ IsFiniteSet(S \cup {x})
      /\ \/ Cardinality(S \cup {x}) = Cardinality(S)
         \/ Cardinality(S \cup {x}) = Cardinality(S) + 1
  <2>1. CASE x \in S
    <3>1. S \cup {x} = S
      BY <2>1
    <3> QED BY <3>1
  <2>2. CASE x \notin S
    BY <2>2, FS_AddElement, ZenonT(30)
  <2> QED BY <2>1, <2>2
<1>3. IsFiniteSet(T) /\ Cardinality(T) =< Cardinality(S \cup {x})
  BY <1>2, FS_Subset
<1> QED BY <1>1, <1>2, <1>3, FS_CardinalityType

LEMMA OneLess ==
    ASSUME NEW S, NEW T, NEW x \in S, IsFiniteSet(S), T \subseteq S \ {x}
    PROVE  Cardinality(T) \in Nat /\ Cardinality(T) =< Cardinality(S) - 1
<1>1. IsFiniteSet(S \ {x}) /\ Cardinality(S \ {x}) = Cardinality(S) - 1
  BY FS_RemoveElement
<1> QED BY <1>1, FS_Subset, FS_CardinalityType

\* Rows pending and calls that owe one grow only together with the other's loss,
\* except when the rows have just been counted.
LEMMA RoomKept == IInv /\ [Next]_vars => RoomLeft'
<1> SUFFICES ASSUME IInv, [Next]_vars PROVE RoomLeft'
  OBVIOUS
<1>0. /\ Cardinality(Pending) \in Nat /\ Cardinality(Owing) \in Nat /\ MaxPending \in Nat
      /\ Cardinality(Requests) \in Nat /\ IsFiniteSet(Pending) /\ IsFiniteSet(Owing)
      /\ Cardinality(Pending) + Cardinality(Owing) < MaxPending + Cardinality(Requests)
  BY SetsFinite DEF IInv, RoomLeft
<1>1. /\ Owing' \subseteq Requests /\ Cardinality(Owing') \in Nat
      /\ Cardinality(Owing') =< Cardinality(Requests)
  <2>1. Owing' \subseteq Requests
    BY DEF Owing
  <2>2. IsFiniteSet(Requests)
    BY UploadAssumption
  <2> HIDE DEF Owing
  <2> QED BY <2>1, <2>2, FS_Subset, FS_CardinalityType
<1>2. ASSUME Pending' \subseteq Pending, Owing' \subseteq Owing PROVE RoomLeft'
  <2>1. /\ Cardinality(Pending') \in Nat /\ Cardinality(Pending') =< Cardinality(Pending)
        /\ Cardinality(Owing') =< Cardinality(Owing)
    BY <1>0, <1>2, FS_Subset, FS_CardinalityType
  <2> QED BY <1>0, <1>1, <2>1 DEF RoomLeft
<1>3. ASSUME Pending' = Pending, Cardinality(Pending) < MaxPending PROVE RoomLeft'
  BY <1>0, <1>1, <1>3 DEF RoomLeft
<1>4. ASSUME NEW f, NEW r \in Owing, Pending' \subseteq Pending \cup {f}, Owing' \subseteq Owing \ {r}
      PROVE  RoomLeft'
  <2>1. Cardinality(Pending') \in Nat /\ Cardinality(Pending') =< Cardinality(Pending) + 1
    BY <1>0, <1>4, OneMore
  <2>2. Cardinality(Owing') =< Cardinality(Owing) - 1
    BY <1>0, <1>4, OneLess
  <2> QED BY <1>0, <1>1, <2>1, <2>2 DEF RoomLeft
<1>5. ASSUME NEW f \in Pending, NEW r, Pending' \subseteq Pending \ {f}, Owing' \subseteq Owing \cup {r}
      PROVE  RoomLeft'
  <2>1. Cardinality(Pending') \in Nat /\ Cardinality(Pending') =< Cardinality(Pending) - 1
    BY <1>0, <1>5, OneLess
  <2>2. Cardinality(Owing') =< Cardinality(Owing) + 1
    BY <1>0, <1>5, OneMore
  <2> QED BY <1>0, <1>1, <2>1, <2>2 DEF RoomLeft
<1>6. ASSUME NEW r \in Requests, Begins(r) PROVE RoomLeft'
  <2>1. Pending' = Pending
    BY <1>6, BeginsSo DEF IInv, Pending
  <2>2. CASE req'[r].pc = "signing"
    <3>1. Cardinality(Pending) < MaxPending
      BY <1>6, <2>2, BeginsSo DEF IInv
    <3> QED BY <1>3, <2>1, <3>1
  <2>3. CASE req'[r].pc # "signing"
    <3>1. Owing' \subseteq Owing
      BY <1>6, <2>3, BeginsSo, OthersStay, CallIs DEF IInv, Owing
    <3> QED BY <1>2, <2>1, <3>1
  <2> QED BY <2>2, <2>3
<1>7. ASSUME NEW r \in Requests, GoesOn(r) PROVE RoomLeft'
  <2>1. /\ \A x \in Requests : x # r => req'[x] = req[x]
        /\ req[r].pc # "idle" /\ req[r].file \in Files /\ TouchesItsFile(r)
    BY <1>7, OthersStay, CallIs, GoesOnSo DEF IInv
  <2>2. age' = age
    BY <2>1 DEF TouchesItsFile
  <2>3. \A f \in Files : f # req[r].file => row'[f] = row[f]
    BY <2>1 DEF TouchesItsFile
  <2>4. CASE CreateRow(r)
    <3>1. r \in Owing /\ r \notin Owing'
      BY <2>4 DEF CreateRow, Owing, Return, Idle, IInv, Typed
    <3>2. Pending' \subseteq Pending \cup {req[r].file} /\ Owing' \subseteq Owing \ {r}
      BY <2>1, <2>2, <2>3, <3>1 DEF Pending, Owing
    <3> QED BY <1>4, <3>1, <3>2
  <2>5. CASE Revert(r) /\ age[req[r].file] = 0
    <3>1. r \in Owing /\ r \notin Owing'
      BY <2>5 DEF Revert, Owing, Return, Idle, IInv, Typed
    <3>2. Pending' \subseteq Pending \cup {req[r].file} /\ Owing' \subseteq Owing \ {r}
      BY <2>1, <2>2, <2>3, <3>1 DEF Pending, Owing
    <3> QED BY <1>4, <3>1, <3>2
  <2>6. CASE Claim(r) /\ row[req[r].file] = "pending" /\ age[req[r].file] = 0
    <3>1. req[r].file \in Pending /\ req[r].file \notin Pending'
      BY <2>1, <2>6 DEF Claim, Pending, IInv, Typed
    <3>2. Pending' \subseteq Pending \ {req[r].file} /\ Owing' \subseteq Owing \cup {r}
      BY <2>1, <2>2, <2>3, <3>1 DEF Pending, Owing
    <3> QED BY <1>5, <3>1, <3>2
  <2>7. CASE ~CreateRow(r) /\ ~(Revert(r) /\ age[req[r].file] = 0)
             /\ ~(Claim(r) /\ row[req[r].file] = "pending" /\ age[req[r].file] = 0)
    <3>1. req[r].file \in Pending' => req[r].file \in Pending
      BY <1>7, <2>1, <2>2, <2>7 DEF GoesOn, Read, DeleteUnwanted, Refuse, Claim, Copy, CopyFails,
         Revert, DeleteStaging, CreateStored, Cut, IInv, Typed, Pending
    <3>2. Pending' \subseteq Pending
      BY <2>2, <2>3, <3>1 DEF Pending
    <3>3. r \in Owing' => r \in Owing
      <4>1. CASE Return(r)
        BY <4>1 DEF Return, Idle, Owing, IInv, Typed
      <4>2. CASE Claim(r) /\ ~Return(r)
        <5>1. req'[r].file = req[r].file
          BY <4>2, <2>1 DEF Claim, Move, At, IInv, Typed
        <5> QED BY <2>2, <2>7, <4>2, <5>1 DEF Claim, Move, At, Owing, IInv, Typed
      <4>3. CASE Copy(r) \/ CopyFails(r) \/ DeleteUnwanted(r)
        BY <4>3, <2>1, <2>2 DEF Copy, CopyFails, DeleteUnwanted, Move, At, Owing, IInv, Typed
      <4>4. CASE Read(r) /\ ~Return(r)
        BY <4>4, <2>1 DEF Read, Move, At, Owing, IInv, Typed
      <4> QED BY <1>7, <2>7, <4>1, <4>2, <4>3, <4>4 DEF GoesOn, Refuse, Revert, DeleteStaging,
             CreateStored, Cut
    <3>4. Owing' \subseteq Owing
      BY <2>1, <2>2, <3>3 DEF Owing
    <3> QED BY <1>2, <3>2, <3>4
  <2> QED BY <2>4, <2>5, <2>6, <2>7
<1>8. CASE Rest
  <2>1. req' = req
    BY <1>8, RestSo DEF IInv, Rest
  <2>2. \A f \in Files : row'[f] = "pending" /\ age'[f] = 0 => row[f] = "pending" /\ age[f] = 0
    BY <1>8, RestSo DEF IInv, Rest, Typed
  <2>3. \A f \in Files : row[f] = "finalized" /\ age'[f] = 0 => age[f] = 0
    BY <1>8, RestSo DEF IInv, Rest, Typed
  <2>4. Owing' \subseteq Owing
    <3>1. ASSUME NEW r \in Owing' PROVE r \in Owing
      <4>1. CASE req[r].pc = "signing"
        BY <3>1, <2>1, <4>1 DEF Owing
      <4>2. CASE req[r].pc \in {"claimed", "uncopied"}
        <5>1. r \in Requests /\ req[r].pc # "idle" /\ row[req[r].file] = "finalized"
          BY <3>1, <4>2 DEF Owing, IInv, ClaimHolds
        <5> QED BY <2>1, <2>3, <3>1, <4>2, <5>1, FileOfCall DEF Owing, IInv
      <4> QED BY <2>1, <3>1, <4>1, <4>2 DEF Owing
    <3> QED BY <3>1
  <2> QED BY <1>2, <2>2, <2>4 DEF Pending
<1>9. CASE UNCHANGED vars
  BY <1>2, <1>9 DEF vars, Pending, Owing
<1> QED BY <1>6, <1>7, <1>8, <1>9, NextIs

-----------------------------------------------------------------------------
(***************************************************************************)
(* The theorems.                                                           *)
(***************************************************************************)

LEMMA Inductive == Spec => []IInv
<1>1. IInv /\ [Next]_vars => IInv'
  <2> SUFFICES ASSUME IInv, [Next]_vars PROVE IInv'
    OBVIOUS
  <2>1. Typed' /\ Newcomer' /\ StoredIsThere' /\ ClaimHolds' /\ OneCopies'
    BY NextTyped, NewcomerKept, StoredKept, ClaimKept DEF IInv
  <2>2. RoundIsOld' /\ FinishedIsStored' /\ StagingTraceable' /\ RoomLeft'
    BY RoundKept, FinishedKept, StagingKept, RoomKept
  <2> QED BY <2>1, <2>2 DEF IInv
<1> QED BY <1>1, InitHolds, PTL DEF Spec

(* Every variable keeps its type, whatever calls, rounds and faults come    *)
(* in which order.                                                          *)
THEOREM TypesHold == Spec => []TypeOK
<1>1. IInv => TypeOK
  BY DEF IInv, Typed, TypeOK
<1> QED BY <1>1, Inductive, PTL

(* No staging object outlives its row, the only trace of it.                *)
THEOREM StagingIsTraceable == Spec => []StagingTraceable
<1>1. IInv => StagingTraceable
  BY DEF IInv
<1> QED BY <1>1, Inductive, PTL

(* Counting and creating are two statements, and a failed copy gives back   *)
(* a row: for any limit and any number of calls the valid pending rows stay *)
(* below the limit plus the calls at a time.                                *)
THEOREM PendingIsBounded == Spec => []PendingBounded
<1>1. IInv => PendingBounded
  <2> SUFFICES ASSUME IInv PROVE PendingBounded
    OBVIOUS
  <2>1. Cardinality(Owing) >= 0 /\ MaxPending \in Nat
    BY SetsFinite
  <2> QED BY <2>1, SetsFinite DEF IInv, RoomLeft, PendingBounded
<1> QED BY <1>1, Inductive, PTL

(* A file whose finalize is over keeps its row and its object: the step of  *)
(* every other call leaves both, and a round deletes no finalized row.      *)
LEMMA ReadyKept ==
    IInv /\ [Next]_vars => [\A f \in Files : Ready(f) => Ready(f)' \/ f \in removed']_vars
<1> SUFFICES ASSUME IInv, [Next]_vars, NEW f \in Files, Ready(f)
             PROVE  Ready(f)' \/ f \in removed'
  OBVIOUS
<1>1. row[f] = "finalized" /\ final[f] /\ ~Doing({"claimed", "uncopied"}, f)
  BY DEF Ready
<1>2. ASSUME NEW r \in Requests, Begins(r) PROVE Ready(f)'
  BY <1>1, <1>2, BeginsSo, OthersStay, CallIs DEF Ready, Doing, IInv
<1>3. ASSUME NEW r \in Requests, GoesOn(r) PROVE Ready(f)'
  <2>1. /\ \A x \in Requests : x # r => req'[x] = req[x]
        /\ req[r].pc # "idle" /\ req[r].file \in Files /\ TouchesItsFile(r)
    BY <1>3, OthersStay, CallIs, GoesOnSo DEF IInv
  <2>2. row'[f] = "finalized"
    <3>1. CASE f # req[r].file
      BY <1>1, <2>1, <3>1 DEF TouchesItsFile
    <3>2. CASE f = req[r].file
      <4>1. req[r].pc \notin {"signing", "claimed", "uncopied"}
        BY <1>1, <3>2 DEF Doing, IInv, Newcomer
      <4> QED BY <1>1, <1>3, <3>2, <4>1 DEF GoesOn, CreateRow, Read, DeleteUnwanted, Refuse,
             Claim, Copy, CopyFails, Revert, DeleteStaging, CreateStored, Cut, IInv, Typed
    <3> QED BY <3>1, <3>2
  <2>3. ~(req'[r].pc \in {"claimed", "uncopied"} /\ req'[r].file = f)
    <3> SUFFICES ASSUME req'[r].pc \in {"claimed", "uncopied"}, req'[r].file = f PROVE FALSE
      OBVIOUS
    <3>1. req[r].file = f /\ req[r].pc \notin {"claimed", "uncopied"}
      BY <1>1, <2>1 DEF Doing, TouchesItsFile
    <3> QED BY <1>1, <1>3, <3>1 DEF GoesOn, CreateRow, Read, DeleteUnwanted, Refuse,
           Claim, Copy, CopyFails, Revert, DeleteStaging, CreateStored, Cut, Move, Return, At,
           Idle, IInv, Typed
  <2>4. ~Doing({"claimed", "uncopied"}, f)'
    BY <1>1, <2>1, <2>3 DEF Doing
  <2> QED BY <1>1, <2>1, <2>2, <2>4 DEF Ready, TouchesItsFile
<1>4. CASE Rest
  BY <1>1, <1>4, RestSo DEF Ready, Doing, IInv, Rest
<1>5. CASE UNCHANGED vars
  BY <1>1, <1>5 DEF vars, Ready, Doing
<1> QED BY <1>2, <1>3, <1>4, <1>5, NextIs

(* A finalized file is stored once and stays stored: a row that says so has *)
(* its object unless a cut or an admin explains it, two calls never copy    *)
(* the same file, and what is ready stays so until an admin deletes it.     *)
THEOREM FinishedFilesStand == Spec => FinishedStands
<1>1. IInv => FinishedIsStored /\ OneCopies
  BY DEF IInv
<1> QED BY <1>1, Inductive, ReadyKept, PTL DEF FinishedStands, ReadyStays, Spec
===============================================================================
