------------------------------ MODULE Uploads ------------------------------
(***************************************************************************)
(* Files of one account in the object store: the signed upload in two      *)
(* steps (sign-upload, the client's PUT to a staging key, finalize), the   *)
(* multipart upload, the admin's delete and the daily retention job        *)
(* (src/src/routes/files.routes.ts, src/src/retention.ts).                 *)
(*                                                                         *)
(* The row of a file lives in the database, its bytes in the object store: *)
(* no transaction covers both, and every statement of either side may fail *)
(* or be the last one its process ran.                                     *)
(***************************************************************************)
EXTENDS Naturals, FiniteSets

CONSTANTS
    Files,       \* the files somebody may upload; each is signed at most once
    Bad,         \* those whose bytes are not what they are signed for
    Requests,    \* calls of the routes that may run at the same time
    MaxPending,  \* MAX_PENDING_UPLOADS
    Batch,       \* UPLOAD_BATCH: rows the retention job takes in one round
    MaxFaults,   \* bound of the model: failed or cut statements
    MaxRemoved   \* bound of the model: files an admin deletes something of

ASSUME UploadAssumption ==
    /\ MaxPending \in Nat \ {0} /\ Batch \in Nat \ {0} /\ MaxFaults \in Nat /\ MaxRemoved \in Nat
    /\ Bad \subseteq Files /\ IsFiniteSet(Files) /\ IsFiniteSet(Requests)
    /\ "-" \notin Files  \* the file of a call that is not running

VARIABLES
    row,      \* UploadObject of a file: its status, or "none"
    age,      \* of the row: 0 valid, 1 past expiresAt, 2 old enough for the retention job
    staging,  \* whether the object at stagingKey exists
    final,    \* whether the object at key exists
    direct,   \* the files that came by the multipart route: their stagingKey is their key
    req,      \* where each call is and the file it is about
    prune,    \* the retention job: its phase, the status it collects, rows taken, rows to delete
    faults,   \* failures so far
    cut,      \* history: files whose finalize was cut after it had claimed the row
    removed   \* history: files an admin deleted

vars == <<row, age, staging, final, direct, req, prune, faults, cut, removed>>

Statuses == {"none", "pending", "finalized", "rejected", "pruned"}
Phases == {"idle", "signing", "storing", "reading", "verified", "unwanted", "refusing",
           "claimed", "uncopied", "copied"}
Calls == [pc: Phases, file: Files \cup {"-"}]
Rounds == [pc: {"idle", "dropping"}, status: {"pending", "rejected"},
           taken: SUBSET Files, gone: SUBSET Files]

Idle == [pc |-> "idle", file |-> "-"]
At(p, f) == [pc |-> p, file |-> f]
NoRound == [pc |-> "idle", status |-> "pending", taken |-> {}, gone |-> {}]

(* Whether some call is in one of the phases ps on file f. *)
Doing(ps, f) == \E r \in Requests : req[r].file = f /\ req[r].pc \in ps

Init ==
    /\ row = [f \in Files |-> "none"] /\ age = [f \in Files |-> 0]
    /\ staging = [f \in Files |-> FALSE] /\ final = [f \in Files |-> FALSE]
    /\ direct = {}
    /\ req = [r \in Requests |-> Idle]
    /\ prune = NoRound /\ faults = 0 /\ cut = {} /\ removed = {}

Move(r, p, f) == req' = [req EXCEPT ![r] = At(p, f)]
Return(r) == req' = [req EXCEPT ![r] = Idle]
Fault == faults < MaxFaults /\ faults' = faults + 1
Unused(f) == row[f] = "none" /\ ~final[f] /\ ~Doing(Phases, f)

-----------------------------------------------------------------------------
(* POST /sign-upload: count the valid pending rows of the account, then   *)
(* create one more. The two statements are not in a transaction.          *)
Pending == {f \in Files : row[f] = "pending" /\ age[f] = 0}

\* Mutant: the limit is compared with > instead of >=.
CountOneMore(r, f) ==
    /\ req[r].pc = "idle" /\ Unused(f)
    /\ Cardinality(Pending) <= MaxPending
    /\ Move(r, "signing", f)
    /\ UNCHANGED <<row, age, staging, final, direct, prune, faults, cut, removed>>

CountPending(r, f) ==
    /\ req[r].pc = "idle" /\ Unused(f)
    /\ Cardinality(Pending) < MaxPending
    /\ Move(r, "signing", f)
    /\ UNCHANGED <<row, age, staging, final, direct, prune, faults, cut, removed>>

CreateRow(r) ==
    /\ req[r].pc = "signing"
    /\ row' = [row EXCEPT ![req[r].file] = "pending"]
    /\ Return(r)
    /\ UNCHANGED <<age, staging, final, direct, prune, faults, cut, removed>>

(* The client sends the bytes to the signed address, as often as it likes  *)
(* and as long as the address is valid, which is until expiresAt of the    *)
(* row, whether or not the file is finalized by then.                      *)
Put(f) ==
    /\ row[f] \in {"pending", "finalized", "rejected"} /\ f \notin direct
    /\ age[f] = 0 /\ ~staging[f]
    /\ staging' = [staging EXCEPT ![f] = TRUE]
    /\ UNCHANGED <<row, age, final, direct, req, prune, faults, cut, removed>>

-----------------------------------------------------------------------------
(* POST /finalize *)

(* The row is read once. A finalized row is answered as done, a rejected,  *)
(* expired or missing one with its error: only the rest goes on.           *)
Find(r, f) ==
    /\ req[r].pc = "idle"
    /\ row[f] = "pending" /\ age[f] = 0
    /\ Move(r, "reading", f)
    /\ UNCHANGED <<row, age, staging, final, direct, prune, faults, cut, removed>>

(* Size, first bytes and content are read from the staging object. Absent  *)
(* or unreadable, the call answers 404 or 503 and the row stays pending.   *)
Read(r) ==
    /\ req[r].pc = "reading"
    /\ \/ Return(r)
       \/ /\ staging[req[r].file]
          /\ Move(r, IF req[r].file \in Bad THEN "unwanted" ELSE "verified", req[r].file)
    /\ UNCHANGED <<row, age, staging, final, direct, prune, faults, cut, removed>>

(* reject(): delete the object, whose failure is swallowed, then mark the  *)
(* row if it still is pending.                                             *)
DeleteUnwanted(r) ==
    /\ req[r].pc = "unwanted"
    /\ \/ staging' = [staging EXCEPT ![req[r].file] = FALSE] /\ UNCHANGED faults
       \/ Fault /\ UNCHANGED staging
    /\ Move(r, "refusing", req[r].file)
    /\ UNCHANGED <<row, age, final, direct, prune, cut, removed>>

Refuse(r) ==
    /\ req[r].pc = "refusing"
    /\ row' = [row EXCEPT ![req[r].file] = IF @ = "pending" THEN "rejected" ELSE @]
    /\ Return(r)
    /\ UNCHANGED <<age, staging, final, direct, prune, faults, cut, removed>>

\* Mutant: the update does not ask for the status pending.
ClaimAnyway(r) ==
    /\ req[r].pc = "verified"
    /\ row' = [row EXCEPT ![req[r].file] = "finalized"]
    /\ Move(r, "claimed", req[r].file)
    /\ UNCHANGED <<age, staging, final, direct, prune, faults, cut, removed>>

(* The conditional update that only one call wins. *)
Claim(r) ==
    /\ req[r].pc = "verified"
    /\ IF row[req[r].file] = "pending"
       THEN /\ row' = [row EXCEPT ![req[r].file] = "finalized"]
            /\ Move(r, "claimed", req[r].file)
       ELSE Return(r) /\ UNCHANGED row
    /\ UNCHANGED <<age, staging, final, direct, prune, faults, cut, removed>>

Copy(r) ==
    /\ req[r].pc = "claimed" /\ staging[req[r].file]
    /\ final' = [final EXCEPT ![req[r].file] = TRUE]
    /\ Move(r, "copied", req[r].file)
    /\ UNCHANGED <<row, age, staging, direct, prune, faults, cut, removed>>

(* The copy fails because the staging object is gone, or the command ends  *)
(* in an error or out of time, in which case the store may have done it.   *)
CopyFails(r) ==
    /\ req[r].pc = "claimed"
    /\ IF staging[req[r].file]
       THEN Fault /\ final' \in {final, [final EXCEPT ![req[r].file] = TRUE]}
       ELSE UNCHANGED <<faults, final>>
    /\ Move(r, "uncopied", req[r].file)
    /\ UNCHANGED <<row, age, staging, direct, prune, cut, removed>>

\* Mutant: a failed copy leaves the row as it is.
RevertNothing(r) ==
    /\ req[r].pc = "uncopied"
    /\ Return(r)
    /\ UNCHANGED <<row, age, staging, final, direct, prune, faults, cut, removed>>

(* The row goes back to pending, whatever its status is. *)
Revert(r) ==
    /\ req[r].pc = "uncopied"
    /\ row' = [row EXCEPT ![req[r].file] = IF @ = "pruned" THEN @ ELSE "pending"]
    /\ Return(r)
    /\ UNCHANGED <<age, staging, final, direct, prune, faults, cut, removed>>

(* The staging object is deleted after the copy; a failure is swallowed. *)
DeleteStaging(r) ==
    /\ req[r].pc = "copied"
    /\ \/ staging' = [staging EXCEPT ![req[r].file] = FALSE] /\ UNCHANGED faults
       \/ Fault /\ UNCHANGED staging
    /\ Return(r)
    /\ UNCHANGED <<row, age, final, direct, prune, cut, removed>>

-----------------------------------------------------------------------------
(* POST /: the multipart upload checks the bytes it holds, stores them     *)
(* under the final key and then creates the row, finalized at once.        *)
Store(r, f) ==
    /\ req[r].pc = "idle" /\ Unused(f) /\ f \notin Bad
    /\ final' = [final EXCEPT ![f] = TRUE] /\ direct' = direct \cup {f}
    /\ Move(r, "storing", f)
    /\ UNCHANGED <<row, age, staging, prune, faults, cut, removed>>

CreateStored(r) ==
    /\ req[r].pc = "storing"
    /\ row' = [row EXCEPT ![req[r].file] = "finalized"]
    /\ Return(r)
    /\ UNCHANGED <<age, staging, final, direct, prune, faults, cut, removed>>

(* DELETE /: an admin deletes any object; no row is looked at. *)
DeleteObject(f) ==
    /\ \/ final[f] /\ final' = [final EXCEPT ![f] = FALSE] /\ UNCHANGED staging
       \/ staging[f] /\ staging' = [staging EXCEPT ![f] = FALSE] /\ UNCHANGED final
    /\ Cardinality(removed \cup {f}) <= MaxRemoved
    /\ removed' = removed \cup {f}
    /\ UNCHANGED <<row, age, direct, req, prune, faults, cut>>

(* A statement on the database fails, or the process of a call dies. *)
Cut(r) ==
    /\ req[r].pc # "idle" /\ Fault
    /\ cut' = IF req[r].pc \in {"claimed", "uncopied"} THEN cut \cup {req[r].file} ELSE cut
    /\ Return(r)
    /\ UNCHANGED <<row, age, staging, final, direct, prune, removed>>

-----------------------------------------------------------------------------
(* pruneOldData: pending rows a day past expiry, rejected rows of thirty   *)
(* days. The object first, then the row, and only if the object is gone.   *)
Collects(s, f) == row[f] = s /\ age[f] = 2

Take(s) ==
    /\ prune.pc = "idle"
    /\ LET old == {f \in Files : Collects(s, f)}
       IN  \E t \in SUBSET old :
              /\ t # {} /\ Cardinality(t) <= Batch
              /\ t = old \/ Cardinality(t) = Batch
              /\ prune' = [pc |-> "dropping", status |-> s, taken |-> t, gone |-> {}]
    /\ UNCHANGED <<row, age, staging, final, direct, req, faults, cut, removed>>

Drop(f) ==
    /\ f \in prune.taken
    /\ staging' = [staging EXCEPT ![f] = FALSE]
    /\ prune' = [prune EXCEPT !.taken = @ \ {f}, !.gone = @ \cup {f}]
    /\ UNCHANGED <<row, age, final, direct, req, faults, cut, removed>>

\* Mutant: a failed delete in the store counts as done, as an earlier version had it.
DropFailsUnseen(f) ==
    /\ f \in prune.taken /\ Fault
    /\ prune' = [prune EXCEPT !.taken = @ \ {f}, !.gone = @ \cup {f}]
    /\ UNCHANGED <<row, age, staging, final, direct, req, cut, removed>>

DropFails(f) ==
    /\ f \in prune.taken /\ Fault
    /\ prune' = [prune EXCEPT !.taken = @ \ {f}]
    /\ UNCHANGED <<row, age, staging, final, direct, req, cut, removed>>

\* Mutant: the list of rows to delete is not emptied between two rounds.
DeleteKeepingList ==
    /\ prune.pc = "dropping" /\ prune.taken = {}
    /\ row' = [f \in Files |-> IF f \in prune.gone /\ Collects(prune.status, f)
                               THEN "pruned" ELSE row[f]]
    /\ age' = [f \in Files |-> IF row'[f] = "pruned" THEN 0 ELSE age[f]]
    /\ prune' = [prune EXCEPT !.pc = "idle"]
    /\ UNCHANGED <<staging, final, direct, req, faults, cut, removed>>

\* Mutant: the rows are deleted by id, whatever became of them since they were read.
DeleteById ==
    /\ prune.pc = "dropping" /\ prune.taken = {}
    /\ row' = [f \in Files |-> IF f \in prune.gone THEN "pruned" ELSE row[f]]
    /\ age' = [f \in Files |-> IF row'[f] = "pruned" THEN 0 ELSE age[f]]
    /\ prune' = NoRound
    /\ UNCHANGED <<staging, final, direct, req, faults, cut, removed>>

DeleteRows ==
    /\ prune.pc = "dropping" /\ prune.taken = {}
    /\ row' = [f \in Files |-> IF f \in prune.gone /\ Collects(prune.status, f)
                               THEN "pruned" ELSE row[f]]
    /\ age' = [f \in Files |-> IF row'[f] = "pruned" THEN 0 ELSE age[f]]
    /\ prune' = NoRound
    /\ UNCHANGED <<staging, final, direct, req, faults, cut, removed>>

(* The worker dies in the middle of a round. *)
CutRound ==
    /\ prune.pc # "idle" /\ Fault
    /\ prune' = NoRound
    /\ UNCHANGED <<row, age, staging, final, direct, req, cut, removed>>

(* Time passes, for a call that is running too. Nothing asks for the age of *)
(* a multipart row.                                                        *)
Pass(f) ==
    /\ row[f] \notin {"none", "pruned"} /\ f \notin direct /\ age[f] < 2
    /\ age' = [age EXCEPT ![f] = @ + 1]
    /\ UNCHANGED <<row, staging, final, direct, req, prune, faults, cut, removed>>

-----------------------------------------------------------------------------
Call(r) ==
    \/ \E f \in Files : CountPending(r, f) \/ Find(r, f) \/ Store(r, f)
    \/ CreateRow(r) \/ Read(r) \/ DeleteUnwanted(r) \/ Refuse(r)
    \/ Claim(r) \/ Copy(r) \/ CopyFails(r) \/ Revert(r) \/ DeleteStaging(r)
    \/ CreateStored(r) \/ Cut(r)

Retention ==
    \/ \E s \in {"pending", "rejected"} : Take(s)
    \/ \E f \in Files : Drop(f) \/ DropFails(f)
    \/ DeleteRows \/ CutRound

Next ==
    \/ \E r \in Requests : Call(r)
    \/ Retention
    \/ \E f \in Files : Put(f) \/ DeleteObject(f) \/ Pass(f)

Spec == Init /\ [][Next]_vars

-----------------------------------------------------------------------------
(* The values the schema and the code allow; a call that is not running is *)
(* about no file, and the retention job starts each round with empty lists. *)
TypeOK ==
    /\ row \in [Files -> Statuses] /\ age \in [Files -> 0..2]
    /\ staging \in [Files -> BOOLEAN] /\ final \in [Files -> BOOLEAN]
    /\ direct \subseteq Files /\ req \in [Requests -> Calls]
    /\ \A r \in Requests : req[r].pc = "idle" <=> req[r].file = "-"
    /\ prune \in Rounds /\ (prune.pc = "idle" => prune.taken \cup prune.gone = {})
    /\ faults \in 0..MaxFaults
    /\ cut \subseteq Files /\ removed \subseteq Files

(* A row that says finalized has its object under the final key, unless a  *)
(* call is copying it this moment, was cut between the claim and the copy, *)
(* or an admin deleted the object: no race of two calls of finalize, no    *)
(* failed copy and no round of the retention job leaves an empty key       *)
(* behind a row that says done.                                            *)
FinishedIsStored ==
    \A f \in Files : row[f] = "finalized" =>
        final[f] \/ f \in cut \cup removed \/ Doing({"claimed", "uncopied"}, f)

(* A file that is finalized, and that no call is still copying, stays so:  *)
(* the retention job, a second finalize and its way back to pending touch  *)
(* neither its row nor its object.                                         *)
Ready(f) == row[f] = "finalized" /\ final[f] /\ ~Doing({"claimed", "uncopied"}, f)

ReadyStays == [][\A f \in Files : Ready(f) => Ready(f)' \/ f \in removed']_vars

(* Two calls of finalize never copy the same file. *)
OneCopies ==
    \A r, q \in Requests : r # q /\ req[r].pc \in {"claimed", "uncopied", "copied"}
                                 /\ req[q].pc \in {"claimed", "uncopied"}
        => req[r].file # req[q].file

(* The row is the only trace of a staging object: none outlives its row,   *)
(* whatever the store refuses and wherever the retention job is cut.       *)
StagingTraceable == \A f \in Files : staging[f] => row[f] \notin {"none", "pruned"}

(* The limit of pending uploads is counted and used in two statements, and *)
(* a failed copy returns a row that was not counted any more: it may be    *)
(* passed, but never by as many as there are calls at a time.              *)
PendingBounded == Cardinality(Pending) < MaxPending + Cardinality(Requests)

(* A finalized file is stored once and stays stored.                       *)
FinishedStands == []FinishedIsStored /\ []OneCopies /\ ReadyStays
=============================================================================
