------------------------- MODULE HanoiCosts_proofs --------------------------
(***************************************************************************)
(* What holds of HanoiCosts for any number of requests, rows and accounts: *)
(* a step is seen by what it does to one request and to the tables.        *)
(***************************************************************************)
EXTENDS HanoiCosts, TLAPS

USE PeopleAssumption, CostAssumption

-----------------------------------------------------------------------------
(* The shape of everything a request carries.                              *)
Tables == UNION {[S -> Row] : S \in SUBSET Rid}
Books == UNION {[S -> Entry] : S \in SUBSET Rid}
Bodies == UNION {[S -> Amount] : S \in SUBSET Rid}
Phase == {"idle", "open", "sent", "page"} \cup PayTx \cup Final
Acts == {"none", "gui", "duyet", "tra", "bo-duyet"}
Calls == [kind : Kinds \cup {"none"}, user : User \cup {NoOne}, payload : Bodies, rev : BOOLEAN,
          act : Acts, rids : SUBSET Rid, to : User \cup {NoOne}, base : Nat,
          rid : Rid \cup {NoOne}, paid : BOOLEAN \cup {Keep}, proof : {"new", "drop", Keep}]
Takings == [there : BOOLEAN, amount : Amount \cup {NoAmount}, approved : BOOLEAN, entry : Entry]

Typed ==
    /\ part \in [status : PartStatus, assignee : User \cup {NoOne}, deleted : BOOLEAN]
    /\ rows \in Tables /\ entries \in Books
    /\ pc \in [Req -> Phase] /\ req \in [Req -> Calls]
    /\ screen \in [Req -> Tables] /\ taken \in [Req -> Takings]
    /\ pending \in [Req -> BOOLEAN]

(* What a request must be to be where it is.                               *)
CallOK(p) ==
    /\ pc[p] = "sent" /\ req[p].kind = "assign" => req[p].to # NoOne
    /\ pc[p] = "sent" /\ req[p].kind \in {"submit", "review"} => req[p].act # "none"
    /\ pc[p] \in {"page"} \cup PayTx => req[p].rid \in Rid
    /\ pc[p] \in {"seeded", "locked"} /\ ~pending[p] => req[p].rid \in DOMAIN entries

LEMMA FirstIsAmount == First \in Amount
BY DEF First

LEMMA SeedTyped == ASSUME NEW old PROVE SeedOf(old) \in Entry
BY DEF SeedOf, Entry, NoProof

LEMMA EmptyTyped == <<>> \in Tables /\ <<>> \in Bodies
<1>1. <<>> \in [{} -> Row] /\ <<>> \in [{} -> Amount]
  OBVIOUS
<1> QED BY <1>1 DEF Tables, Bodies

LEMMA NothingTyped == NoRequest \in Calls /\ NothingTaken \in Takings
<1>1. NoRequest \in Calls
  BY EmptyTyped DEF NoRequest, Calls, Acts
<1>2. NothingTaken \in Takings
  BY SeedTyped DEF NothingTaken, Takings
<1> QED BY <1>1, <1>2

(* Rows with other states, or with one row changed, are rows.              *)
LEMMA TableIntro ==
    ASSUME NEW t, t = [r \in DOMAIN t |-> t[r]], DOMAIN t \subseteq Rid,
           \A r \in DOMAIN t : t[r] \in Row
    PROVE  t \in Tables
<1>1. t \in [DOMAIN t -> Row]
  OBVIOUS
<1> QED BY <1>1 DEF Tables

LEMMA TableElim ==
    ASSUME NEW t \in Tables
    PROVE  /\ t = [r \in DOMAIN t |-> t[r]]
           /\ DOMAIN t \subseteq Rid
           /\ \A r \in DOMAIN t : t[r] \in Row
BY DEF Tables

LEMMA BodyElim ==
    ASSUME NEW t \in Bodies
    PROVE  DOMAIN t \subseteq Rid /\ \A r \in DOMAIN t : t[r] \in Amount
BY DEF Bodies

LEMMA BodyIntro ==
    ASSUME NEW t, t = [r \in DOMAIN t |-> t[r]], DOMAIN t \subseteq Rid,
           \A r \in DOMAIN t : t[r] \in Amount
    PROVE  t \in Bodies
<1>1. t \in [DOMAIN t -> Amount]
  OBVIOUS
<1> QED BY <1>1 DEF Bodies

LEMMA BookElim ==
    ASSUME NEW t \in Books
    PROVE  /\ t = [r \in DOMAIN t |-> t[r]]
           /\ DOMAIN t \subseteq Rid
           /\ \A r \in DOMAIN t : t[r] \in Entry
BY DEF Books

LEMMA BookIntro ==
    ASSUME NEW t, t = [r \in DOMAIN t |-> t[r]], DOMAIN t \subseteq Rid,
           \A r \in DOMAIN t : t[r] \in Entry
    PROVE  t \in Books
<1>1. t \in [DOMAIN t -> Entry]
  OBVIOUS
<1> QED BY <1>1 DEF Books

LEMMA RowStated ==
    ASSUME NEW x \in Row, NEW s \in RowState \cup {Legacy}
    PROVE  /\ [x EXCEPT !.state = s] \in Row
           /\ [x EXCEPT !.state = s].amount = x.amount
           /\ [x EXCEPT !.state = s].state = s
           /\ [x EXCEPT !.state = s].old = x.old
BY DEF Row

LEMMA RowAdded ==
    ASSUME NEW a \in Amount
    PROVE  [amount |-> a, state |-> "dang-lam", old |-> "none"] \in Row
BY DEF Row, RowState, OldMark

LEMMA RowSaved ==
    ASSUME NEW x \in Row, NEW s \in RowState \cup {Legacy}, NEW a \in Amount
    PROVE  /\ [x EXCEPT !.amount = a, !.state = s] \in Row
           /\ [x EXCEPT !.amount = a, !.state = s].amount = a
           /\ [x EXCEPT !.amount = a, !.state = s].state = s
           /\ [x EXCEPT !.amount = a, !.state = s].old = x.old
BY DEF Row

(* A stored row has a state of its own or takes the one of the part.       *)
LEMMA StateTyped ==
    ASSUME Typed, NEW r \in DOMAIN rows
    PROVE  StateOf(r) \in RowState
<1>1. rows[r] \in Row
  BY TableElim DEF Typed
<1>2. FromPart(part.status) \in RowState
  BY DEF FromPart, RowState
<1> QED BY <1>1, <1>2 DEF StateOf, Row

LEMMA SummaryTyped ==
    ASSUME NEW t, NEW b, NEW e \in PartStatus
    PROVE  Summary(t, b, e) \in PartStatus
BY DEF Summary, PartStatus

(* Showing the states changes nothing else.                                *)
LEMMA ShownTyped ==
    ASSUME Typed
    PROVE  /\ Materialised \in Tables
           /\ DOMAIN Materialised = DOMAIN rows
           /\ \A r \in DOMAIN rows : /\ Materialised[r].state = StateOf(r)
                                     /\ Materialised[r].amount = rows[r].amount
                                     /\ Materialised[r].old = rows[r].old
<1>1. \A r \in DOMAIN rows : rows[r] \in Row /\ rows[r].amount \in Amount
  BY TableElim DEF Typed, Row
<1>2. DOMAIN rows \subseteq Rid
  BY TableElim DEF Typed
<1>3. DOMAIN Materialised = DOMAIN rows
  BY DEF Materialised
<1>4. ASSUME NEW r \in DOMAIN rows
      PROVE  /\ Materialised[r] \in Row
             /\ Materialised[r].state = StateOf(r)
             /\ Materialised[r].amount = rows[r].amount
             /\ Materialised[r].old = rows[r].old
  <2>1. StateOf(r) \in RowState \cup {Legacy}
    BY StateTyped
  <2>2. Materialised[r] = [rows[r] EXCEPT !.state = StateOf(r)]
    BY DEF Materialised
  <2>3. rows[r] \in Row
    BY <1>1
  <2> QED BY <2>1, <2>2, <2>3, RowStated
<1>5. Materialised = [r \in DOMAIN Materialised |-> Materialised[r]]
  BY DEF Materialised
<1>6. Materialised \in Tables
  BY <1>2, <1>3, <1>4, <1>5, TableIntro
<1> QED BY <1>3, <1>4, <1>6
-----------------------------------------------------------------------------
(* The requests stay typed, whatever a step does to the tables.            *)
Workshop ==
    /\ pc \in [Req -> Phase] /\ req \in [Req -> Calls]
    /\ screen \in [Req -> Tables] /\ taken \in [Req -> Takings]
    /\ pending \in [Req -> BOOLEAN]
    /\ \A p \in Req : CallOK(p)

TablesTyped ==
    /\ part \in [status : PartStatus, assignee : User \cup {NoOne}, deleted : BOOLEAN]
    /\ rows \in Tables /\ entries \in Books

Shaped == TablesTyped /\ Workshop

LEMMA ShapedIsTyped == Shaped => Typed
BY DEF Shaped, TablesTyped, Workshop, Typed

LEMMA FinishTyped ==
    ASSUME Workshop, NEW p \in Req, NEW result \in Final, Finish(p, result),
           DOMAIN entries \subseteq DOMAIN entries'
    PROVE  Workshop'
<1>1. /\ pc' \in [Req -> Phase] /\ req' \in [Req -> Calls]
      /\ screen' \in [Req -> Tables] /\ taken' \in [Req -> Takings]
      /\ pending' \in [Req -> BOOLEAN]
  BY NothingTyped, EmptyTyped DEF Workshop, Finish, Phase
<1>2. ASSUME NEW q \in Req PROVE CallOK(q)'
  <2>1. pc'[p] = result
    BY DEF Finish, Workshop
  <2>2. q # p => pc'[q] = pc[q] /\ req'[q] = req[q] /\ pending'[q] = pending[q]
    BY DEF Finish, Workshop
  <2> QED BY <2>1, <2>2 DEF CallOK, Workshop, Final, PayTx
<1> QED BY <1>1, <1>2 DEF Workshop

LEMMA RollBackTyped ==
    ASSUME Shaped, NEW p \in Req, RollBack(p) PROVE Shaped'
BY FinishTyped DEF Shaped, RollBack, Final, db, TablesTyped

(* A request moves on within its handler.                                  *)
LEMMA MoveTyped ==
    ASSUME Shaped, NEW p \in Req, NEW at \in Phase, NEW r \in Calls, NEW k \in Takings,
           NEW b \in BOOLEAN,
           UNCHANGED <<db, screen>>,
           pc' = [pc EXCEPT ![p] = at], req' = [req EXCEPT ![p] = r],
           taken' = [taken EXCEPT ![p] = k], pending' = [pending EXCEPT ![p] = b],
           at = "sent" /\ r.kind = "assign" => r.to # NoOne,
           at = "sent" /\ r.kind \in {"submit", "review"} => r.act # "none",
           at \in {"page"} \cup PayTx => r.rid \in Rid,
           at \in {"seeded", "locked"} /\ ~b => r.rid \in DOMAIN entries
    PROVE  Shaped'
<1>1. /\ pc' \in [Req -> Phase] /\ req' \in [Req -> Calls]
      /\ screen' \in [Req -> Tables] /\ taken' \in [Req -> Takings]
      /\ pending' \in [Req -> BOOLEAN]
  BY DEF Shaped, Workshop
<1>2. ASSUME NEW q \in Req PROVE CallOK(q)'
  <2>1. pc'[p] = at /\ req'[p] = r /\ pending'[p] = b
    BY DEF Shaped, Workshop
  <2>2. /\ q # p => pc'[q] = pc[q] /\ req'[q] = req[q] /\ pending'[q] = pending[q]
        /\ entries' = entries
    BY DEF Shaped, Workshop, db
  <2> QED BY <2>1, <2>2 DEF CallOK, Workshop, Shaped
<1> QED BY <1>1, <1>2 DEF Workshop, Shaped, TablesTyped, db

(* What a client sends is made of the rows it loaded.                      *)
LEMMA EditsTyped ==
    ASSUME NEW same \in Bodies, NEW pl \in EditsOf(same)
    PROVE  pl \in Bodies
<1>1. /\ same = [r \in DOMAIN same |-> same[r]]
      /\ DOMAIN same \subseteq Rid /\ \A r \in DOMAIN same : same[r] \in Amount
  BY BodyElim DEF Bodies
<1>2. CASE pl = same
  BY <1>2
<1>3. CASE pl \in {[same EXCEPT ![r] = a] : r \in DOMAIN same, a \in Amount}
  BY <1>1, <1>3, BodyIntro
<1>4. CASE pl \in {Restrict(same, DOMAIN same \ {r}) : r \in DOMAIN same}
  BY <1>1, <1>4, BodyIntro DEF Restrict
<1>5. CASE pl \in {[x \in DOMAIN same \cup {r} |-> IF x = r THEN First ELSE same[x]]
                      : r \in Rid \ DOMAIN same}
  <2>1. PICK r \in Rid \ DOMAIN same :
            pl = [x \in DOMAIN same \cup {r} |-> IF x = r THEN First ELSE same[x]]
    BY <1>5
  <2> QED BY <1>1, <2>1, BodyIntro, FirstIsAmount
<1> QED BY <1>2, <1>3, <1>4, <1>5 DEF EditsOf

LEMMA PayloadsTyped ==
    ASSUME NEW t \in Tables
    PROVE  PayloadsOf(t) \subseteq Bodies
<1> DEFINE same == [r \in DOMAIN t |-> t[r].amount]
<1>1. DOMAIN same \subseteq Rid /\ \A r \in DOMAIN same : same[r] \in Amount
  BY TableElim DEF Row
<1>2. same \in Bodies
  BY <1>1, BodyIntro
<1> QED BY <1>2, EditsTyped DEF PayloadsOf

LEMMA SendTyped ==
    ASSUME Shaped, NEW p \in Req, NEW r \in Calls, NEW allowed \in BOOLEAN, Send(p, r, allowed),
           r.kind = "assign" => r.to # NoOne,
           r.kind \in {"submit", "review"} => r.act # "none"
    PROVE  Shaped'
<1>1. CASE allowed /\ ~part.deleted
  <2>1. /\ taken[p] \in Takings /\ pending[p] \in BOOLEAN /\ "sent" \in Phase
        /\ taken = [taken EXCEPT ![p] = taken[p]] /\ pending = [pending EXCEPT ![p] = pending[p]]
    BY DEF Shaped, Workshop, Phase
  <2>2. "sent" \notin {"page"} \cup PayTx
    BY DEF PayTx
  <2> QED BY <1>1, <2>1, <2>2, MoveTyped DEF Send
<1>2. CASE ~(allowed /\ ~part.deleted)
  BY <1>2, RollBackTyped DEF Send
<1> QED BY <1>1, <1>2

LEMMA OpenTyped == ASSUME Shaped, NEW p \in Req, Open(p) PROVE Shaped'
<1>1. PICK u \in User : req' = [req EXCEPT ![p].user = u]
  BY DEF Open
<1>2. [req[p] EXCEPT !.user = u] \in Calls
  <2>1. req[p] \in Calls
    BY DEF Shaped, Workshop
  <2> QED BY <2>1 DEF Calls
<1>3. req' = [req EXCEPT ![p] = [req[p] EXCEPT !.user = u]]
  BY <1>1
<1>4. /\ pc' \in [Req -> Phase] /\ req' \in [Req -> Calls]
      /\ screen' \in [Req -> Tables] /\ taken' \in [Req -> Takings]
      /\ pending' \in [Req -> BOOLEAN]
  BY <1>2, <1>3, ShownTyped, ShapedIsTyped DEF Shaped, Workshop, Open, Phase
<1>5. ASSUME NEW q \in Req PROVE CallOK(q)'
  <2>1. pc'[p] = "open"
    BY DEF Open, Shaped, Workshop
  <2>2. /\ q # p => pc'[q] = pc[q] /\ req'[q] = req[q]
        /\ pending' = pending /\ entries' = entries
    BY <1>3 DEF Open, Shaped, Workshop, db
  <2> QED BY <2>1, <2>2 DEF CallOK, Workshop, Shaped, PayTx
<1> QED BY <1>4, <1>5 DEF Workshop, Shaped, TablesTyped, Open, db

LEMMA SendsTyped ==
    ASSUME Shaped, NEW p \in Req,
           \/ SendFill(p) \/ SendSave(p) \/ SendReview(p) \/ SendSubmit(p)
           \/ SendAssign(p) \/ SendDelete(p)
    PROVE  Shaped'
<1>1. req[p] \in Calls /\ screen[p] \in Tables /\ NoRequest \in Calls
  BY NothingTyped DEF Shaped, Workshop
<1>2. CASE SendFill(p)
  <2>1. PICK pl \in PayloadsOf(screen[p]), b \in Revs :
          Send(p, [req[p] EXCEPT !.kind = "fill", !.payload = pl, !.rev = b],
               part.assignee = req[p].user)
    BY <1>2 DEF SendFill
  <2>2. pl \in Bodies /\ "fill" \in Kinds /\ b \in BOOLEAN
    BY <1>1, <1>2, PayloadsTyped DEF SendFill
  <2> DEFINE r == [req[p] EXCEPT !.kind = "fill", !.payload = pl, !.rev = b]
  <2>3. r \in Calls /\ r.kind = "fill"
    BY <1>1, <2>2 DEF Calls
  <2> QED BY <2>1, <2>3, SendTyped
<1>3. CASE SendSave(p)
  <2>1. PICK pl \in PayloadsOf(screen[p]) :
          Send(p, [req[p] EXCEPT !.kind = "save", !.payload = pl], TRUE)
    BY <1>3 DEF SendSave
  <2>2. pl \in Bodies /\ "save" \in Kinds
    BY <1>1, <1>3, PayloadsTyped DEF SendSave
  <2> DEFINE r == [req[p] EXCEPT !.kind = "save", !.payload = pl]
  <2>3. r \in Calls /\ r.kind = "save"
    BY <1>1, <2>2 DEF Calls
  <2> QED BY <2>1, <2>3, SendTyped
<1>4. CASE SendReview(p)
  <2>1. PICK act \in {"duyet", "tra", "bo-duyet"}, rids \in SUBSET DOMAIN screen[p] :
          Send(p, [req[p] EXCEPT !.kind = "review", !.act = act, !.rids = rids],
               /\ part.assignee # req[p].user
               /\ act = "bo-duyet" => rids # {})
    BY <1>4 DEF SendReview
  <2>2. rids \in SUBSET Rid /\ "review" \in Kinds
    BY <1>1, <1>4, TableElim DEF SendReview
  <2> DEFINE r == [req[p] EXCEPT !.kind = "review", !.act = act, !.rids = rids]
  <2>3. r \in Calls /\ r.kind = "review" /\ r.act # "none"
    BY <1>1, <2>2 DEF Calls, Acts
  <2> QED BY <2>1, <2>3, SendTyped
<1>5. CASE SendSubmit(p)
  <2>1. PICK rids \in SUBSET Rid, u \in Fillers :
          Send(p, [[NoRequest EXCEPT !.act = "gui", !.rids = rids]
                     EXCEPT !.kind = "submit", !.user = u], part.assignee = u)
    BY <1>5 DEF SendSubmit, SendFrom
  <2>2. "submit" \in Kinds
    BY <1>5 DEF SendSubmit, SendFrom
  <2> DEFINE r == [[NoRequest EXCEPT !.act = "gui", !.rids = rids]
                     EXCEPT !.kind = "submit", !.user = u]
  <2> DEFINE shown == [NoRequest EXCEPT !.act = "gui", !.rids = rids]
  <2>4. shown \in Calls /\ shown.act = "gui"
    BY <1>1 DEF Calls, Acts
  <2> HIDE DEF shown
  <2>5. [shown EXCEPT !.kind = "submit", !.user = u] \in Calls
    BY <2>2, <2>4 DEF Calls
  <2>6. LET c == [shown EXCEPT !.kind = "submit", !.user = u]
        IN  c.kind = "submit" /\ c.act # "none"
    BY <2>4 DEF Calls
  <2>3. r \in Calls /\ r.kind = "submit" /\ r.act # "none"
    BY <2>5, <2>6 DEF shown
  <2> QED BY <2>1, <2>3, SendTyped
<1>6. CASE SendAssign(p)
  <2>1. PICK who \in Fillers, u \in Managers :
          Send(p, [[NoRequest EXCEPT !.to = who] EXCEPT !.kind = "assign", !.user = u], TRUE)
    BY <1>6 DEF SendAssign, SendFrom
  <2>2. "assign" \in Kinds
    BY <1>6 DEF SendAssign, SendFrom
  <2> DEFINE r == [[NoRequest EXCEPT !.to = who] EXCEPT !.kind = "assign", !.user = u]
  <2>3. r \in Calls /\ r.kind = "assign" /\ r.to # NoOne
    BY <1>1, <2>2 DEF Calls
  <2> QED BY <2>1, <2>3, SendTyped
<1>7. CASE SendDelete(p)
  <2>1. PICK u \in Editors : Send(p, [NoRequest EXCEPT !.kind = "delete", !.user = u], TRUE)
    BY <1>7 DEF SendDelete, SendFrom
  <2>2. "delete" \in Kinds
    BY <1>7 DEF SendDelete, SendFrom
  <2> DEFINE r == [NoRequest EXCEPT !.kind = "delete", !.user = u]
  <2>3. r \in Calls /\ r.kind = "delete"
    BY <1>1, <2>2 DEF Calls
  <2> QED BY <2>1, <2>3, SendTyped
<1> QED BY <1>2, <1>3, <1>4, <1>5, <1>6, <1>7

-----------------------------------------------------------------------------
(* The rows a save, a review or an assignment writes.                      *)
LEMMA MergedFacts ==
    ASSUME Shaped, NEW p \in Req
    PROVE  /\ Merged(p) \in Tables
           /\ DOMAIN Merged(p) = DOMAIN req[p].payload
           /\ \A r \in DOMAIN Merged(p) :
                /\ Merged(p)[r].amount = req[p].payload[r]
                /\ Merged(p)[r].state = IF r \in DOMAIN rows THEN StateOf(r) ELSE "dang-lam"
                /\ Merged(p)[r].old = IF r \in DOMAIN rows THEN rows[r].old ELSE "none"
<1>1. req[p].payload \in Bodies
  BY DEF Shaped, Workshop, Calls
<1>2. /\ DOMAIN req[p].payload \subseteq Rid
      /\ \A r \in DOMAIN req[p].payload : req[p].payload[r] \in Amount
  BY <1>1, BodyElim
<1>3. DOMAIN Merged(p) = DOMAIN req[p].payload
  BY DEF Merged
<1>4. ASSUME NEW r \in DOMAIN req[p].payload, r \in DOMAIN rows
      PROVE  /\ Merged(p)[r] \in Row
             /\ Merged(p)[r].amount = req[p].payload[r]
             /\ Merged(p)[r].state = StateOf(r)
             /\ Merged(p)[r].old = rows[r].old
  <2>1. rows[r] \in Row
    BY <1>4, TableElim DEF Shaped, TablesTyped
  <2>2. StateOf(r) \in RowState \cup {Legacy}
    BY <1>4, StateTyped, ShapedIsTyped
  <2>3. Merged(p)[r] = [rows[r] EXCEPT !.amount = req[p].payload[r], !.state = StateOf(r)]
    BY <1>4 DEF Merged, Kept
  <2>4. req[p].payload[r] \in Amount
    BY <1>2
  <2> DEFINE x == rows[r]  s == StateOf(r)  a == req[p].payload[r]
  <2>5. x \in Row /\ s \in RowState \cup {Legacy} /\ a \in Amount
    BY <2>1, <2>2, <2>4
  <2>6. Merged(p)[r] = [x EXCEPT !.amount = a, !.state = s]
    BY <2>3
  <2> HIDE DEF x, s, a
  <2>7. /\ Merged(p)[r] \in Row /\ Merged(p)[r].amount = a
        /\ Merged(p)[r].state = s /\ Merged(p)[r].old = x.old
    BY <2>5, <2>6 DEF Row
  <2> QED BY <2>7 DEF x, s, a
<1>5. ASSUME NEW r \in DOMAIN req[p].payload, r \notin DOMAIN rows
      PROVE  /\ Merged(p)[r] \in Row
             /\ Merged(p)[r].amount = req[p].payload[r]
             /\ Merged(p)[r].state = "dang-lam"
             /\ Merged(p)[r].old = "none"
  <2>1. Merged(p)[r] = [amount |-> req[p].payload[r], state |-> "dang-lam", old |-> "none"]
    BY <1>5 DEF Merged
  <2>2. req[p].payload[r] \in Amount
    BY <1>2
  <2> DEFINE a == req[p].payload[r]
  <2>3. a \in Amount /\ Merged(p)[r] = [amount |-> a, state |-> "dang-lam", old |-> "none"]
    BY <2>1, <2>2
  <2> HIDE DEF a
  <2>4. /\ Merged(p)[r] \in Row /\ Merged(p)[r].amount = a
        /\ Merged(p)[r].state = "dang-lam" /\ Merged(p)[r].old = "none"
    BY <2>3, RowAdded
  <2> QED BY <2>4 DEF a
<1>6. Merged(p) = [r \in DOMAIN Merged(p) |-> Merged(p)[r]]
  BY <1>3 DEF Merged
<1>7. Merged(p) \in Tables
  BY <1>2, <1>3, <1>4, <1>5, <1>6, TableIntro
<1> QED BY <1>3, <1>4, <1>5, <1>7

Judged(act, hit) ==
    [r \in DOMAIN rows |->
        IF r \in hit THEN [rows[r] EXCEPT !.state = TargetState(act)] ELSE Materialised[r]]

LEMMA JudgedFacts ==
    ASSUME Shaped, NEW act \in Acts \ {"none"}, NEW hit
    PROVE  /\ Judged(act, hit) \in Tables
           /\ DOMAIN Judged(act, hit) = DOMAIN rows
           /\ \A r \in DOMAIN rows :
                /\ Judged(act, hit)[r].amount = rows[r].amount
                /\ Judged(act, hit)[r].state =
                      IF r \in hit THEN TargetState(act) ELSE StateOf(r)
                /\ Judged(act, hit)[r].old = rows[r].old
<1>1. TargetState(act) \in RowState
  BY DEF TargetState, RowState, Acts
<1>2. DOMAIN Judged(act, hit) = DOMAIN rows /\ DOMAIN rows \subseteq Rid
  BY TableElim DEF Judged, Shaped, TablesTyped
<1>3. ASSUME NEW r \in DOMAIN rows
      PROVE  /\ Judged(act, hit)[r] \in Row
             /\ Judged(act, hit)[r].amount = rows[r].amount
             /\ Judged(act, hit)[r].state = IF r \in hit THEN TargetState(act) ELSE StateOf(r)
             /\ Judged(act, hit)[r].old = rows[r].old
  <2>1. CASE r \in hit
    <3>1. rows[r] \in Row
      BY TableElim DEF Shaped, TablesTyped
    <3>2. Judged(act, hit)[r] = [rows[r] EXCEPT !.state = TargetState(act)]
      BY <2>1 DEF Judged
    <3> QED BY <1>1, <2>1, <3>1, <3>2, RowStated
  <2>2. CASE r \notin hit
    <3>1. Judged(act, hit)[r] = Materialised[r]
      BY <2>2 DEF Judged
    <3>2. Materialised[r] \in Row
      BY ShownTyped, ShapedIsTyped, TableElim
    <3> QED BY <2>2, <3>1, <3>2, ShownTyped, ShapedIsTyped
  <2> QED BY <2>1, <2>2
<1>4. Judged(act, hit) = [r \in DOMAIN Judged(act, hit) |-> Judged(act, hit)[r]]
  BY <1>2 DEF Judged
<1>5. Judged(act, hit) \in Tables
  BY <1>2, <1>3, <1>4, TableIntro
<1> QED BY <1>2, <1>3, <1>5

LEMMA PartFields ==
    ASSUME NEW x \in [status : PartStatus, assignee : User \cup {NoOne}, deleted : BOOLEAN],
           NEW s \in PartStatus
    PROVE  /\ [x EXCEPT !.status = s]
                \in [status : PartStatus, assignee : User \cup {NoOne}, deleted : BOOLEAN]
           /\ [x EXCEPT !.status = s].status = s
           /\ [x EXCEPT !.status = s].assignee = x.assignee
           /\ [x EXCEPT !.status = s].deleted = x.deleted
OBVIOUS

LEMMA SaveTyped ==
    ASSUME Shaped, NEW p \in Req, NEW locked, NEW e \in PartStatus, SaveRows(p, locked, e)
    PROVE  Shaped'
<1>1. CASE RollBack(p)
  BY <1>1, RollBackTyped
<1>2. CASE /\ rows' = Merged(p)
           /\ part' = [part EXCEPT !.status = Summary(rows', part.assignee # NoOne, e)]
           /\ UNCHANGED entries
           /\ Finish(p, "ok")
  <2>1. Summary(rows', part.assignee # NoOne, e) \in PartStatus
    BY SummaryTyped
  <2>2. TablesTyped'
    BY <1>2, <2>1, PartFields, MergedFacts DEF Shaped, TablesTyped
  <2> QED BY <1>2, <2>2, FinishTyped DEF Shaped, Final
<1> QED BY <1>1, <1>2 DEF SaveRows

LEMMA ChangeTyped ==
    ASSUME Shaped, NEW p \in Req, req[p].act # "none", ChangeStates(p)
    PROVE  Shaped'
<1> DEFINE act == req[p].act
           hit == Acted(act, req[p].rids)
<1>1. CASE RollBack(p)
  BY <1>1, RollBackTyped
<1>2. CASE /\ rows' = Judged(act, hit)
           /\ part' = [part EXCEPT !.status =
                          Summary(rows', part.assignee # NoOne, EmptyStatus(act))]
           /\ UNCHANGED entries
           /\ Finish(p, "ok")
  <2>1. act \in Acts \ {"none"} /\ EmptyStatus(act) \in PartStatus
    BY DEF Shaped, Workshop, Calls, EmptyStatus, PartStatus
  <2>2. Summary(rows', part.assignee # NoOne, EmptyStatus(act)) \in PartStatus
    BY <2>1, SummaryTyped
  <2>3. rows' \in Tables
    BY <1>2, <2>1, JudgedFacts
  <2>4. TablesTyped'
    BY <1>2, <2>2, <2>3, PartFields DEF Shaped, TablesTyped
  <2> QED BY <1>2, <2>4, FinishTyped DEF Shaped, Final
<1> QED BY <1>1, <1>2 DEF ChangeStates, Judged

LEMMA WritersTyped ==
    ASSUME Shaped, NEW p \in Req,
           \/ CommitFill(p) \/ CommitSave(p) \/ CommitSubmit(p) \/ CommitReview(p)
           \/ CommitAssign(p) \/ CommitDelete(p)
    PROVE  Shaped'
<1>1. CASE CommitFill(p)
  BY <1>1, RollBackTyped, SaveTyped DEF CommitFill, PartStatus
<1>2. CASE CommitSave(p)
  BY <1>2, SaveTyped DEF CommitSave, PartStatus
<1>3. CASE CommitSubmit(p) \/ CommitReview(p)
  <2>1. req[p].act # "none"
    BY <1>3 DEF CommitSubmit, CommitReview, Writes, Shaped, Workshop, CallOK
  <2> QED BY <1>3, <2>1, RollBackTyped, ChangeTyped DEF CommitSubmit, CommitReview
<1>4. CASE CommitAssign(p)
  <2>1. AssignedRows \in Tables
    BY ShownTyped, ShapedIsTyped DEF AssignedRows, Shaped, TablesTyped
  <2>2. AssignedStatus \in PartStatus
    BY SummaryTyped DEF AssignedStatus, PartStatus
  <2>3. req[p].to \in User \cup {NoOne}
    BY DEF Shaped, Workshop, Calls
  <2>4. TablesTyped'
    BY <1>4, <2>1, <2>2, <2>3 DEF CommitAssign, Shaped, TablesTyped
  <2> QED BY <1>4, <2>4, FinishTyped DEF CommitAssign, Shaped, Final
<1>5. CASE CommitDelete(p)
  <2>1. CASE RollBack(p)
    BY <2>1, RollBackTyped
  <2>2. CASE /\ part' = [part EXCEPT !.deleted = TRUE]
             /\ UNCHANGED <<rows, entries>>
             /\ Finish(p, "ok")
    <3>1. TablesTyped'
      BY <2>2 DEF Shaped, TablesTyped
    <3> QED BY <2>2, <3>1, FinishTyped DEF Shaped, Final
  <2> QED BY <1>5, <2>1, <2>2 DEF CommitDelete
<1> QED BY <1>1, <1>2, <1>3, <1>4, <1>5

-----------------------------------------------------------------------------
(* The accountants.                                                        *)
LEMMA OpenPageTyped == ASSUME Shaped, NEW p \in Req, OpenPage(p) PROVE Shaped'
<1>1. PICK r \in DOMAIN rows \cup DOMAIN entries,
           paid \in {TRUE, FALSE, Keep}, proof \in {"new", "drop", Keep} :
        req' = [req EXCEPT ![p] = [NoRequest EXCEPT !.kind = "pay", !.rid = r,
                         !.base = VersionOf(r), !.paid = paid, !.proof = proof]]
  BY DEF OpenPage
<1>2. r \in Rid
  BY TableElim, BookElim DEF Shaped, TablesTyped
<1>3. VersionOf(r) \in Nat
  BY BookElim DEF VersionOf, Shaped, TablesTyped, Entry
<1> DEFINE c == [NoRequest EXCEPT !.kind = "pay", !.rid = r,
                    !.base = VersionOf(r), !.paid = paid, !.proof = proof]
<1>4. "pay" \in Kinds /\ NoRequest \in Calls
  BY NothingTyped DEF OpenPage
<1>5. c \in Calls /\ c.kind = "pay" /\ c.rid = r
  BY <1>2, <1>3, <1>4 DEF Calls
<1>6. /\ taken[p] \in Takings /\ pending[p] \in BOOLEAN /\ "page" \in Phase
      /\ taken = [taken EXCEPT ![p] = taken[p]] /\ pending = [pending EXCEPT ![p] = pending[p]]
  BY DEF Shaped, Workshop, Phase
<1> HIDE DEF c
<1>7. req' = [req EXCEPT ![p] = c] /\ pc' = [pc EXCEPT ![p] = "page"]
  BY <1>1 DEF c, OpenPage
<1>8. /\ taken' = [taken EXCEPT ![p] = taken[p]] /\ pending' = [pending EXCEPT ![p] = pending[p]]
      /\ UNCHANGED <<db, screen>>
  BY <1>6 DEF OpenPage
<1>9. c.rid \in Rid
  BY <1>2, <1>5
<1> QED BY <1>5, <1>6, <1>7, <1>8, <1>9, MoveTyped

LEMMA TakingFields ==
    ASSUME NEW k \in Takings, NEW t \in BOOLEAN, NEW a \in BOOLEAN,
           NEW m \in Amount \cup {NoAmount}, NEW e \in Entry
    PROVE  /\ [k EXCEPT !.there = t, !.approved = a, !.amount = m] \in Takings
           /\ [k EXCEPT !.entry = e] \in Takings
BY DEF Takings

(* An entry whose current proof is the only one that is not retired.       *)
Sound(e) == e.live = {e.proof} \ {NoProof} /\ (~e.paid => e.proof = NoProof)

LEMMA RetireFacts ==
    ASSUME NEW e \in Entry
    PROVE  /\ Retire(e) \in Entry /\ Retire(e).proof = NoProof
           /\ Retire(e).paid = e.paid /\ Retire(e).amount = e.amount
           /\ Retire(e).version = e.version /\ Retire(e).made = e.made
           /\ Sound(e) => Retire(e).live = {}
BY DEF Retire, Entry, NoProof, Sound

(* The tick: what is paid, was paid or is paid now at the amount taken.    *)
LEMMA TickedFacts ==
    ASSUME NEW p, NEW e \in Entry, taken[p].amount \in Amount \cup {NoAmount}
    PROVE  /\ Ticked(p, e) \in Entry
           /\ Ticked(p, e).version = e.version
           /\ Sound(e) => Sound(Ticked(p, e))
           /\ Ticked(p, e).paid /\ ~e.paid =>
                 req[p].paid = TRUE /\ Ticked(p, e).amount = taken[p].amount
<1>1. CASE req[p].paid = TRUE
  <2>1. Ticked(p, e) = [e EXCEPT !.paid = TRUE, !.amount = taken[p].amount]
    BY <1>1 DEF Ticked
  <2> QED BY <1>1, <2>1 DEF Entry, Sound
<1>2. CASE req[p].paid # TRUE /\ req[p].paid = FALSE /\ e.paid
  <2>1. Ticked(p, e) = [Retire(e) EXCEPT !.paid = FALSE, !.amount = NoAmount]
    BY <1>2 DEF Ticked
  <2> DEFINE x == Retire(e)
  <2>2. x \in Entry /\ x.version = e.version /\ x.proof = NoProof /\ (Sound(e) => x.live = {})
    BY RetireFacts
  <2> HIDE DEF x
  <2>3. Ticked(p, e) = [x EXCEPT !.paid = FALSE, !.amount = NoAmount]
    BY <2>1 DEF x
  <2> QED BY <2>2, <2>3 DEF Entry, Sound
<1>3. CASE req[p].paid # TRUE /\ ~(req[p].paid = FALSE /\ e.paid)
  <2>1. Ticked(p, e) = e
    BY <1>3 DEF Ticked
  <2> QED BY <2>1
<1> QED BY <1>1, <1>2, <1>3

(* The proof: a new one becomes the current one, the old one is retired.   *)
LEMMA ProvenFacts ==
    ASSUME NEW p, NEW e \in Entry, req[p].proof = "new" => e.paid
    PROVE  /\ Proven(p, e) \in Entry
           /\ Proven(p, e).version = e.version
           /\ Sound(e) => Sound(Proven(p, e))
           /\ Proven(p, e).paid = e.paid /\ Proven(p, e).amount = e.amount
<1> DEFINE x == Retire(e)
<1>1. /\ x \in Entry /\ x.proof = NoProof /\ x.paid = e.paid /\ x.amount = e.amount
      /\ x.version = e.version /\ (Sound(e) => x.live = {})
  BY RetireFacts
<1>2. CASE req[p].proof = "new"
  <2> DEFINE n == e.made + 1
  <2>1. n \in Nat /\ n # NoProof
    BY DEF Entry, NoProof
  <2>2. Proven(p, e) = [x EXCEPT !.made = n, !.proof = n, !.live = x.live \cup {n}]
    BY <1>2 DEF Proven
  <2> HIDE DEF x, n
  <2> DEFINE all == x.live \cup {n}
  <2>4. all \in SUBSET Nat
    BY <1>1, <2>1 DEF Entry
  <2>5. Proven(p, e) = [x EXCEPT !.made = n, !.proof = n, !.live = all]
    BY <2>2
  <2> HIDE DEF all
  <2>3. /\ Proven(p, e) \in Entry
        /\ Proven(p, e).version = x.version /\ Proven(p, e).paid = x.paid
        /\ Proven(p, e).amount = x.amount /\ Proven(p, e).proof = n
        /\ Proven(p, e).live = all
    BY <1>1, <2>1, <2>4, <2>5 DEF Entry
  <2> QED BY <1>1, <1>2, <2>1, <2>3 DEF Sound, all
<1>3. CASE req[p].proof = "drop" /\ e.proof # NoProof
  <2>1. Proven(p, e) = x
    BY <1>3 DEF Proven
  <2> HIDE DEF x
  <2> QED BY <1>1, <2>1 DEF Sound
<1>4. CASE req[p].proof # "new" /\ ~(req[p].proof = "drop" /\ e.proof # NoProof)
  <2>1. Proven(p, e) = e
    BY <1>4 DEF Proven
  <2> QED BY <2>1
<1> QED BY <1>2, <1>3, <1>4

(* The entry a transaction writes.                                         *)
Written(p) == [Proven(p, Ticked(p, taken[p].entry)) EXCEPT !.version = @ + 1]

LEMMA WrittenFacts ==
    ASSUME NEW p, taken[p] \in Takings, MayPay(p)
    PROVE  /\ Written(p) \in Entry
           /\ Written(p).version = taken[p].entry.version + 1
           /\ Sound(taken[p].entry) => Sound(Written(p))
           /\ Written(p).paid /\ ~taken[p].entry.paid =>
                 req[p].paid = TRUE /\ Written(p).amount = taken[p].amount
<1> DEFINE e == taken[p].entry  t == Ticked(p, e)  y == Proven(p, t)
<1>1. e \in Entry /\ taken[p].amount \in Amount \cup {NoAmount}
  BY DEF Takings
<1>2. req[p].proof = "new" => t.paid
  BY DEF MayPay
<1>3. /\ t \in Entry /\ t.version = e.version /\ (Sound(e) => Sound(t))
      /\ t.paid /\ ~e.paid => req[p].paid = TRUE /\ t.amount = taken[p].amount
  BY <1>1, TickedFacts
<1>4. /\ y \in Entry /\ y.version = t.version /\ (Sound(t) => Sound(y))
      /\ y.paid = t.paid /\ y.amount = t.amount
  BY <1>2, <1>3, ProvenFacts
<1>5. Written(p) = [y EXCEPT !.version = y.version + 1]
  BY DEF Written
<1> HIDE DEF y
<1>6. /\ Written(p) \in Entry /\ Written(p).version = y.version + 1
      /\ Written(p).paid = y.paid /\ Written(p).amount = y.amount
      /\ Written(p).proof = y.proof /\ Written(p).live = y.live
  BY <1>4, <1>5 DEF Entry
<1> QED BY <1>3, <1>4, <1>6 DEF Sound

LEMMA TakeTyped == ASSUME Shaped, NEW p \in Req, TakeShare(p) PROVE Shaped'
<1> DEFINE r == req[p].rid
           there == r \in DOMAIN rows
           approved == there /\ StateOf(r) = "da-duyet"
           amount == IF there THEN rows[r].amount ELSE NoAmount
           k == [taken[p] EXCEPT !.there = there, !.approved = approved, !.amount = amount]
           at == IF r \in DOMAIN entries THEN "seeded" ELSE "seeding"
<1>1. CASE RollBack(p)
  BY <1>1, RollBackTyped
<1>2. CASE /\ pc' = [pc EXCEPT ![p] = at]
           /\ taken' = [taken EXCEPT ![p].there = there, ![p].approved = approved,
                          ![p].amount = amount]
           /\ UNCHANGED <<db, req, screen, pending>>
  <2>1. r \in Rid
    BY DEF TakeShare, Shaped, Workshop, CallOK, PayTx
  <2>2. there => rows[r].amount \in Amount
    BY TableElim DEF Shaped, TablesTyped, Row
  <2>3. taken[p] \in Takings /\ req[p] \in Calls /\ pending[p] \in BOOLEAN
    BY DEF Shaped, Workshop
  <2>4. k \in Takings
    <3>1. there \in BOOLEAN /\ approved \in BOOLEAN
      OBVIOUS
    <3>2. amount \in Amount \cup {NoAmount}
      BY <2>2
    <3> HIDE DEF there, approved, amount
    <3> QED BY <2>3, <3>1, <3>2 DEF Takings
  <2>5. taken' = [taken EXCEPT ![p] = k]
    BY <1>2
  <2>6. /\ at \in Phase /\ at # "sent" /\ at # "locked"
        /\ at = "seeded" => r \in DOMAIN entries
    BY DEF Phase, PayTx
  <2> HIDE DEF k, at
  <2>7. /\ pc' = [pc EXCEPT ![p] = at]
        /\ req' = [req EXCEPT ![p] = req[p]] /\ pending' = [pending EXCEPT ![p] = pending[p]]
        /\ UNCHANGED <<db, screen>>
    BY <1>2 DEF Shaped, Workshop
  <2> QED BY <2>1, <2>3, <2>4, <2>5, <2>6, <2>7, MoveTyped
<1> QED BY <1>1, <1>2 DEF TakeShare

LEMMA StepsTyped ==
    ASSUME Shaped, NEW p \in Req, Seed(p) \/ LockEntry(p) PROVE Shaped'
<1>1. taken[p] \in Takings /\ req[p] \in Calls /\ pending[p] \in BOOLEAN /\ req[p].rid \in Rid
  BY DEF Shaped, Workshop, Seed, LockEntry, CallOK, PayTx
<1>2. "seeded" \in Phase /\ "locked" \in Phase
  BY DEF Phase, PayTx
<1>3. CASE Seed(p)
  <2> DEFINE b == req[p].rid \notin DOMAIN entries
  <2>1. b \in BOOLEAN /\ (~b => req[p].rid \in DOMAIN entries)
    OBVIOUS
  <2>2. /\ pc' = [pc EXCEPT ![p] = "seeded"] /\ pending' = [pending EXCEPT ![p] = b]
        /\ req' = [req EXCEPT ![p] = req[p]] /\ taken' = [taken EXCEPT ![p] = taken[p]]
        /\ UNCHANGED <<db, screen>>
    BY <1>3 DEF Shaped, Workshop, Seed
  <2> HIDE DEF b
  <2> QED BY <1>1, <1>2, <2>1, <2>2, MoveTyped
<1>4. CASE LockEntry(p)
  <2> DEFINE e == IF pending[p] THEN SeedOf(rows[req[p].rid].old) ELSE entries[req[p].rid]
             k == [taken[p] EXCEPT !.entry = e]
  <2>1. taken' = [taken EXCEPT ![p] = k]
    BY <1>4 DEF LockEntry
  <2>2. SeedOf(rows[req[p].rid].old) \in Entry
    BY SeedTyped
  <2>3. k \in Takings
    <3>1. CASE pending[p]
      <4>1. e \in Entry
        BY <2>2, <3>1
      <4> QED BY <1>1, <4>1 DEF Takings
    <3>2. CASE ~pending[p]
      <4>1. e \in Entry
        BY <1>4, <3>2, BookElim DEF LockEntry, Shaped, TablesTyped, Workshop, CallOK
      <4> QED BY <1>1, <4>1 DEF Takings
    <3> QED BY <1>1, <3>1, <3>2
  <2> HIDE DEF k
  <2>5. ~pending[p] => req[p].rid \in DOMAIN entries
    BY <1>4 DEF LockEntry, Shaped, Workshop, CallOK
  <2>4. /\ pc' = [pc EXCEPT ![p] = "locked"] /\ pending' = [pending EXCEPT ![p] = pending[p]]
        /\ req' = [req EXCEPT ![p] = req[p]]
        /\ UNCHANGED <<db, screen>>
    BY <1>4 DEF Shaped, Workshop, LockEntry
  <2> QED BY <1>1, <1>2, <2>1, <2>3, <2>4, <2>5, MoveTyped
<1> QED BY <1>3, <1>4

(* What a payment writes: one entry, and the transaction is over.          *)
Paying(p) ==
    /\ pc[p] = "locked" /\ MayPay(p)
    /\ DOMAIN entries' = DOMAIN entries \cup {req[p].rid}
    /\ entries'[req[p].rid] = Written(p)
    /\ \A x \in DOMAIN entries \ {req[p].rid} : entries'[x] = entries[x]
    /\ entries' = [x \in DOMAIN entries' |-> entries'[x]]
    /\ UNCHANGED <<part, rows>>
    /\ Finish(p, "ok")

LEMMA PayKinds ==
    ASSUME NEW p \in Req, CommitPay(p) PROVE RollBack(p) \/ Paying(p)
<1>1. CASE ~MayPay(p)
  BY <1>1 DEF CommitPay
<1>2. CASE MayPay(p)
  <2>1. /\ entries' = [x \in DOMAIN entries \cup {req[p].rid} |->
                         IF x = req[p].rid THEN Written(p) ELSE entries[x]]
        /\ UNCHANGED <<part, rows>> /\ Finish(p, "ok")
    BY <1>2 DEF CommitPay, Written
  <2> QED BY <1>2, <2>1 DEF Paying, CommitPay
<1> QED BY <1>1, <1>2

LEMMA PayTyped == ASSUME Shaped, NEW p \in Req, CommitPay(p) PROVE Shaped'
<1>1. CASE Paying(p)
  <2>1. Written(p) \in Entry
    BY <1>1, WrittenFacts DEF Paying, Shaped, Workshop
  <2>2. req[p].rid \in Rid
    BY <1>1 DEF Paying, Shaped, Workshop, CallOK, PayTx
  <2>3. entries' = [x \in DOMAIN entries' |-> entries'[x]]
    BY <1>1 DEF Paying
  <2>4. entries' \in Books
    BY <1>1, <2>1, <2>2, <2>3, BookElim, BookIntro DEF Paying, Shaped, TablesTyped
  <2> QED BY <1>1, <2>4, FinishTyped DEF Paying, Shaped, TablesTyped, Final
<1> QED BY <1>1, PayKinds, RollBackTyped

LEMMA InitShaped == Init => Shaped
<1> SUFFICES ASSUME Init PROVE Shaped
  OBVIOUS
<1>1. PICK S \in SUBSET Rid, old \in OldMark :
         /\ rows \in [S -> [amount : {First}, state : InitStates, old : {old}]]
         /\ \E T \in SUBSET S : entries \in [T -> StartEntries(old)]
  BY DEF Init
<1>2. rows \in Tables
  <2>1. [amount : {First}, state : InitStates, old : {old}] \subseteq Row
    BY FirstIsAmount DEF Row
  <2>2. rows \in [S -> Row]
    BY <1>1, <2>1
  <2> QED BY <2>2 DEF Tables
<1>3. entries \in Books
  <2>1. PICK T \in SUBSET S : entries \in [T -> StartEntries(old)]
    BY <1>1
  <2>2. StartEntries(old) \subseteq Entry
    <3> DEFINE x == SeedOf("none")
               y == [x EXCEPT !.paid = TRUE, !.version = 1, !.amount = First]
    <3>1. x \in Entry /\ SeedOf(old) \in Entry
      BY SeedTyped
    <3> HIDE DEF x
    <3>2. y \in Entry
      BY <3>1, FirstIsAmount DEF Entry
    <3> QED BY <3>1, <3>2 DEF StartEntries, x
  <2>3. entries \in [T -> Entry]
    BY <2>1, <2>2
  <2> QED BY <2>3 DEF Books
<1>4. part \in [status : PartStatus, assignee : User \cup {NoOne}, deleted : BOOLEAN]
  BY DEF Init
<1>5. /\ pc \in [Req -> Phase] /\ req \in [Req -> Calls]
      /\ screen \in [Req -> Tables] /\ taken \in [Req -> Takings]
      /\ pending \in [Req -> BOOLEAN]
  BY NothingTyped, EmptyTyped DEF Init, Phase
<1>6. \A p \in Req : CallOK(p)
  BY DEF Init, CallOK, PayTx
<1> QED BY <1>2, <1>3, <1>4, <1>5, <1>6 DEF Shaped, TablesTyped, Workshop

LEMMA NextShaped == ASSUME Shaped, [Next]_vars PROVE Shaped'
<1>1. CASE UNCHANGED vars
  BY <1>1 DEF vars, db, Shaped, TablesTyped, Workshop, CallOK
<1>2. ASSUME NEW p \in Req, Request(p) PROVE Shaped'
  BY <1>2, OpenTyped, SendsTyped, WritersTyped DEF Request
<1>3. ASSUME NEW p \in Req, Account(p) PROVE Shaped'
  BY <1>3, OpenPageTyped, TakeTyped, StepsTyped, PayTyped, RollBackTyped DEF Account, FailPay
<1> QED BY <1>1, <1>2, <1>3 DEF Next, AllServed

LEMMA ShapedInvariant == Spec => []Shaped
BY InitShaped, NextShaped, PTL DEF Spec

(* Types, for any number of rows and requests: in particular the status of *)
(* the part is one the lists know, whatever the rows went through.         *)
THEOREM TypesAreKept == Spec => []TypeOK
<1>1. Shaped => TypeOK
  <2> SUFFICES ASSUME Shaped PROVE TypeOK
    OBVIOUS
  <2>1. DOMAIN rows \subseteq Rid /\ rows \in [DOMAIN rows -> Row]
    BY DEF Shaped, TablesTyped, Tables
  <2>2. DOMAIN entries \subseteq Rid /\ entries \in [DOMAIN entries -> Entry]
    BY DEF Shaped, TablesTyped, Books
  <2> QED BY <2>1, <2>2 DEF Shaped, TablesTyped, Workshop, TypeOK, Phase
<1> QED BY <1>1, ShapedInvariant, PTL

-----------------------------------------------------------------------------
(* A step by what it does: to one request, and to the rows or one entry.   *)
Others(p) ==
    \A q \in Req \ {p} : /\ pc'[q] = pc[q] /\ req'[q] = req[q]
                         /\ taken'[q] = taken[q] /\ pending'[q] = pending[q]

Quiet(p) ==
    /\ UNCHANGED db
    /\ pc'[p] \notin PayTx \cup {"ok"}
    /\ ~pending'[p] \/ (pc[p] \notin PayTx /\ pending'[p] = pending[p])
    /\ taken'[p] \in {taken[p], NothingTaken}

Shared(p) ==
    LET r == req[p].rid
        there == r \in DOMAIN rows
    IN /\ pc[p] = "page" /\ ~part.deleted
       /\ there \/ r \in DOMAIN entries
       /\ pc'[p] = IF r \in DOMAIN entries THEN "seeded" ELSE "seeding"
       /\ taken'[p].there <=> there
       /\ taken'[p].entry = taken[p].entry
       /\ taken'[p].approved <=> there /\ StateOf(r) = "da-duyet"
       /\ there => taken'[p].amount = rows[r].amount
       /\ req'[p] = req[p] /\ pending'[p] = pending[p]
       /\ UNCHANGED db

Seeded(p) ==
    /\ pc[p] = "seeding" /\ pc'[p] = "seeded"
    /\ \A q \in Req : pending[q] => req[q].rid # req[p].rid
    /\ pending'[p] => req[p].rid \notin DOMAIN entries
    /\ taken'[p] = taken[p] /\ req'[p] = req[p]
    /\ UNCHANGED db

Locked(p) ==
    /\ pc[p] = "seeded" /\ pc'[p] = "locked"
    /\ EntryFree(p)
    /\ taken'[p].there = taken[p].there /\ taken'[p].amount = taken[p].amount
    /\ taken'[p].approved = taken[p].approved
    /\ taken'[p].entry = IF pending[p] THEN SeedOf(rows[req[p].rid].old)
                         ELSE entries[req[p].rid]
    /\ req'[p] = req[p] /\ pending'[p] = pending[p]
    /\ UNCHANGED db

Over(p) == /\ pc[p] = "sent" /\ NoShare(p) /\ UNCHANGED entries
           /\ pc'[p] = "ok" /\ ~pending'[p] /\ taken'[p] = NothingTaken

Saves(p) ==
    /\ req[p].kind \in {"fill", "save"}
    /\ ~Repriced(p) /\ ~PaidLost(p)
    /\ ~LockedLost(p, IF req[p].kind = "save" /\ req[p].user \in Managers THEN {"da-duyet"}
                      ELSE {"da-duyet", "cho-duyet"})
    /\ rows' = Merged(p)
    /\ \E e \in PartStatus :
          part' = [part EXCEPT !.status = Summary(rows', part.assignee # NoOne, e)]

Judges(p) ==
    LET act == req[p].act IN
    /\ req[p].kind \in {"submit", "review"} /\ act # "none"
    /\ req[p].kind = "review" => part.assignee # req[p].user
    /\ ~part.deleted
    /\ rows' = Judged(act, Acted(act, req[p].rids))
    /\ \E e \in PartStatus :
          part' = [part EXCEPT !.status = Summary(rows', part.assignee # NoOne, e)]

Assigns(p) ==
    /\ req[p].kind = "assign" /\ req[p].to # NoOne
    /\ rows' = AssignedRows
    /\ part' = [part EXCEPT !.assignee = req[p].to, !.status = AssignedStatus]

Deletes(p) ==
    /\ req[p].kind = "delete"
    /\ ~part.deleted /\ \A r \in Rid : ~Paid(r)
    /\ part' = [part EXCEPT !.deleted = TRUE]
    /\ UNCHANGED rows

RowWrite(p) == Over(p) /\ (Saves(p) \/ Judges(p) \/ Assigns(p) \/ Deletes(p))

StepOf(p) ==
    /\ Others(p)
    /\ Quiet(p) \/ Shared(p) \/ Seeded(p) \/ Locked(p) \/ RowWrite(p) \/ Paying(p)

LEMMA FinishEffect ==
    ASSUME Shaped, NEW p \in Req, NEW result, Finish(p, result)
    PROVE  Others(p) /\ pc'[p] = result /\ ~pending'[p] /\ taken'[p] = NothingTaken
BY DEF Finish, Shaped, Workshop, Others

LEMMA RollBackEffect ==
    ASSUME Shaped, NEW p \in Req, RollBack(p) PROVE StepOf(p)
<1>1. /\ Others(p) /\ pc'[p] = "refused" /\ ~pending'[p] /\ UNCHANGED db
      /\ taken'[p] = NothingTaken
  BY FinishEffect DEF RollBack
<1> QED BY <1>1 DEF StepOf, Quiet, PayTx

LEMMA SendEffect ==
    ASSUME Shaped, NEW p \in Req, NEW r, NEW a, Send(p, r, a), pc[p] \notin PayTx
    PROVE  StepOf(p)
<1>1. CASE /\ req' = [req EXCEPT ![p] = r]
           /\ pc' = [pc EXCEPT ![p] = "sent"]
           /\ UNCHANGED <<db, screen, taken, pending>>
  BY <1>1 DEF StepOf, Others, Quiet, Shaped, Workshop, PayTx
<1> QED BY <1>1, RollBackEffect DEF Send

LEMMA RequestsEffect ==
    ASSUME Shaped, NEW p \in Req,
           \/ Open(p) \/ SendFill(p) \/ SendSave(p) \/ SendReview(p) \/ SendSubmit(p)
           \/ SendAssign(p) \/ SendDelete(p) \/ OpenPage(p)
    PROVE  StepOf(p)
<1>1. CASE Open(p) \/ OpenPage(p)
  <2>1. Others(p) /\ UNCHANGED db /\ pending' = pending /\ taken' = taken
    BY <1>1 DEF Open, OpenPage, Others, Shaped, Workshop
  <2>2. pc[p] = "idle" /\ pc'[p] \in {"open", "page"}
    BY <1>1 DEF Open, OpenPage, Shaped, Workshop
  <2> QED BY <2>1, <2>2 DEF StepOf, Quiet, PayTx
<1>2. CASE SendFill(p) \/ SendSave(p) \/ SendReview(p)
  <2>1. pc[p] \notin PayTx
    BY <1>2 DEF SendFill, SendSave, SendReview, PayTx
  <2> QED BY <1>2, <2>1, SendEffect DEF SendFill, SendSave, SendReview
<1>3. CASE SendSubmit(p) \/ SendAssign(p) \/ SendDelete(p)
  <2>1. pc[p] \notin PayTx
    BY <1>3 DEF SendSubmit, SendAssign, SendDelete, SendFrom, PayTx
  <2> QED BY <1>3, <2>1, SendEffect DEF SendSubmit, SendAssign, SendDelete, SendFrom
<1> QED BY <1>1, <1>2, <1>3

LEMMA SaveEffect ==
    ASSUME Shaped, NEW p \in Req, pc[p] = "sent", NoShare(p), NEW e \in PartStatus,
           req[p].kind \in {"fill", "save"},
           SaveRows(p, IF req[p].kind = "save" /\ req[p].user \in Managers THEN {"da-duyet"}
                       ELSE {"da-duyet", "cho-duyet"}, e)
    PROVE  StepOf(p)
<1> DEFINE locked == IF req[p].kind = "save" /\ req[p].user \in Managers THEN {"da-duyet"}
                     ELSE {"da-duyet", "cho-duyet"}
<1>1. CASE RollBack(p)
  BY <1>1, RollBackEffect
<1>2. CASE /\ ~(Repriced(p) \/ PaidLost(p) \/ LockedLost(p, locked))
           /\ rows' = Merged(p)
           /\ part' = [part EXCEPT !.status = Summary(rows', part.assignee # NoOne, e)]
           /\ UNCHANGED entries
           /\ Finish(p, "ok")
  <2>1. Saves(p)
    BY <1>2 DEF Saves
  <2>2. Others(p) /\ Over(p)
    BY <1>2, FinishEffect DEF Over
  <2> QED BY <2>1, <2>2 DEF StepOf, RowWrite
<1> QED BY <1>1, <1>2 DEF SaveRows

LEMMA ChangeEffect ==
    ASSUME Shaped, NEW p \in Req, pc[p] = "sent", NoShare(p), req[p].act # "none",
           req[p].kind \in {"submit", "review"},
           req[p].kind = "review" => part.assignee # req[p].user,
           ChangeStates(p)
    PROVE  StepOf(p)
<1> DEFINE act == req[p].act  hit == Acted(act, req[p].rids)
<1>1. CASE RollBack(p)
  BY <1>1, RollBackEffect
<1>2. CASE /\ ~part.deleted
           /\ rows' = Judged(act, hit)
           /\ part' = [part EXCEPT !.status =
                          Summary(rows', part.assignee # NoOne, EmptyStatus(act))]
           /\ UNCHANGED entries
           /\ Finish(p, "ok")
  <2>1. EmptyStatus(act) \in PartStatus
    BY DEF EmptyStatus, PartStatus
  <2>2. Judges(p)
    BY <1>2, <2>1 DEF Judges
  <2>3. Others(p) /\ Over(p)
    BY <1>2, FinishEffect DEF Over
  <2> QED BY <2>2, <2>3 DEF StepOf, RowWrite
<1> QED BY <1>1, <1>2 DEF ChangeStates, Judged

LEMMA WritersEffect ==
    ASSUME Shaped, NEW p \in Req,
           \/ CommitFill(p) \/ CommitSave(p) \/ CommitSubmit(p) \/ CommitReview(p)
           \/ CommitAssign(p) \/ CommitDelete(p)
    PROVE  StepOf(p)
<1>1. CASE CommitFill(p)
  <2>1. pc[p] = "sent" /\ NoShare(p) /\ req[p].kind = "fill" /\ "assigned" \in PartStatus
    BY <1>1 DEF CommitFill, Writes, PartStatus
  <2> QED BY <1>1, <2>1, RollBackEffect, SaveEffect DEF CommitFill
<1>2. CASE CommitSave(p)
  <2>1. /\ pc[p] = "sent" /\ NoShare(p) /\ req[p].kind = "save"
        /\ "assigned" \in PartStatus /\ "null" \in PartStatus
    BY <1>2 DEF CommitSave, Writes, PartStatus
  <2> QED BY <1>2, <2>1, SaveEffect DEF CommitSave
<1>3. CASE CommitSubmit(p)
  <2>1. pc[p] = "sent" /\ NoShare(p) /\ req[p].kind = "submit" /\ req[p].act # "none"
    BY <1>3 DEF CommitSubmit, Writes, Shaped, Workshop, CallOK
  <2> QED BY <1>3, <2>1, RollBackEffect, ChangeEffect DEF CommitSubmit
<1>4. CASE CommitReview(p)
  <2>1. pc[p] = "sent" /\ NoShare(p) /\ req[p].kind = "review" /\ req[p].act # "none"
    BY <1>4 DEF CommitReview, Writes, Shaped, Workshop, CallOK
  <2> QED BY <1>4, <2>1, RollBackEffect, ChangeEffect DEF CommitReview, MayReview
<1>5. CASE CommitAssign(p)
  <2>1. pc[p] = "sent" /\ NoShare(p) /\ req[p].kind = "assign" /\ req[p].to # NoOne
    BY <1>5 DEF CommitAssign, Writes, Shaped, Workshop, CallOK
  <2>2. Others(p) /\ Over(p)
    BY <1>5, <2>1, FinishEffect DEF CommitAssign, Over
  <2> QED BY <1>5, <2>1, <2>2 DEF CommitAssign, Assigns, StepOf, RowWrite
<1>6. CASE CommitDelete(p)
  <2>1. pc[p] = "sent" /\ NoShare(p) /\ req[p].kind = "delete"
    BY <1>6 DEF CommitDelete, Writes
  <2>2. CASE RollBack(p)
    BY <2>2, RollBackEffect
  <2>3. CASE /\ ~(part.deleted \/ \E r \in Rid : Paid(r))
             /\ part' = [part EXCEPT !.deleted = TRUE]
             /\ UNCHANGED <<rows, entries>>
             /\ Finish(p, "ok")
    <3>1. Others(p) /\ Over(p)
      BY <2>1, <2>3, FinishEffect DEF Over
    <3> QED BY <2>1, <2>3, <3>1 DEF Deletes, StepOf, RowWrite
  <2> QED BY <1>6, <2>2, <2>3 DEF CommitDelete
<1> QED BY <1>1, <1>2, <1>3, <1>4, <1>5, <1>6

LEMMA AccountsEffect ==
    ASSUME Shaped, NEW p \in Req,
           TakeShare(p) \/ Seed(p) \/ LockEntry(p) \/ CommitPay(p) \/ FailPay(p)
    PROVE  StepOf(p)
<1>1. CASE TakeShare(p)
  <2>1. CASE RollBack(p)
    BY <2>1, RollBackEffect
  <2>2. CASE ~RollBack(p)
    <3> DEFINE r == req[p].rid
               there == r \in DOMAIN rows
               approved == there /\ StateOf(r) = "da-duyet"
               amount == IF there THEN rows[r].amount ELSE NoAmount
    <3>1. /\ pc[p] = "page" /\ ~part.deleted /\ (there \/ r \in DOMAIN entries)
          /\ pc' = [pc EXCEPT ![p] = IF r \in DOMAIN entries THEN "seeded" ELSE "seeding"]
          /\ taken' = [taken EXCEPT ![p].there = there, ![p].approved = approved,
                          ![p].amount = amount]
          /\ UNCHANGED <<db, req, screen, pending>>
      BY <1>1, <2>2 DEF TakeShare
    <3>2. taken[p] \in Takings /\ pc[p] \in Phase
      BY DEF Shaped, Workshop
    <3>3. /\ taken'[p].there = there /\ taken'[p].entry = taken[p].entry
          /\ taken'[p].approved = approved /\ taken'[p].amount = amount
      <4>1. taken'[p] = [taken[p] EXCEPT !.there = there, !.approved = approved,
                                         !.amount = amount]
        BY <3>1 DEF Shaped, Workshop
      <4> HIDE DEF there, approved, amount
      <4> QED BY <3>2, <4>1 DEF Takings
    <3>4. Others(p)
      BY <3>1 DEF Others, Shaped, Workshop
    <3>5. Shared(p)
      BY <3>1, <3>3 DEF Shared, Shaped, Workshop
    <3> QED BY <3>4, <3>5 DEF StepOf
  <2> QED BY <2>1, <2>2
<1>2. CASE Seed(p)
  BY <1>2 DEF Seed, Seeded, StepOf, Others, Shaped, Workshop
<1>3. CASE LockEntry(p)
  <2> DEFINE e == IF pending[p] THEN SeedOf(rows[req[p].rid].old) ELSE entries[req[p].rid]
  <2>1. taken' = [taken EXCEPT ![p].entry = e] /\ taken[p] \in Takings
    BY <1>3 DEF LockEntry, Shaped, Workshop
  <2> HIDE DEF e
  <2>2. /\ taken'[p].there = taken[p].there /\ taken'[p].amount = taken[p].amount
        /\ taken'[p].approved = taken[p].approved /\ taken'[p].entry = e
    BY <2>1 DEF Takings, Shaped, Workshop
  <2>3. Others(p)
    BY <1>3 DEF LockEntry, Others, Shaped, Workshop
  <2>4. Locked(p)
    BY <1>3, <2>2 DEF LockEntry, Locked, e, Shaped, Workshop
  <2> QED BY <2>3, <2>4 DEF StepOf
<1>4. CASE CommitPay(p)
  BY <1>4, PayKinds, RollBackEffect, FinishEffect DEF StepOf, Paying
<1>5. CASE FailPay(p)
  BY <1>5, RollBackEffect DEF FailPay
<1> QED BY <1>1, <1>2, <1>3, <1>4, <1>5

LEMMA StepKinds ==
    ASSUME Shaped, [Next]_vars
    PROVE  UNCHANGED vars \/ \E p \in Req : StepOf(p)
BY RequestsEffect, WritersEffect, AccountsEffect DEF Next, Request, Account, AllServed

-----------------------------------------------------------------------------
(* The summary.                                                            *)
LEMMA EmptyTable == ASSUME NEW t \in Tables, DOMAIN t = {} PROVE t = <<>>
<1>1. t \in [{} -> Row]
  BY DEF Tables
<1>2. <<>> \in [{} -> Row]
  OBVIOUS
<1> QED BY <1>1, <1>2

(* What is said of a part without rows is not asked when it has some.      *)
LEMMA SummaryOfRows ==
    ASSUME NEW t \in Tables, t # <<>>, NEW b, NEW d, NEW e
    PROVE  Summary(t, b, d) = Summary(t, b, e)
<1>1. DOMAIN t # {}
  BY EmptyTable
<1>2. States(t) # {}
  <2>1. PICK r \in DOMAIN t : TRUE
    BY <1>1
  <2> DEFINE x == IF t[r].state = Legacy THEN FromPart("null") ELSE t[r].state
  <2>2. x \in States(t)
    BY DEF States
  <2> QED BY <2>2
<1> QED BY <1>2 DEF Summary

LEMMA NextSummary ==
    ASSUME Shaped, Shaped', SummaryMatches, [Next]_vars PROVE SummaryMatches'
<1>1. CASE UNCHANGED vars \/ UNCHANGED <<part, rows>>
  BY <1>1 DEF vars, db, SummaryMatches
<1>2. ASSUME NEW p \in Req, StepOf(p), ~UNCHANGED <<part, rows>>
      PROVE SummaryMatches'
  <2>1. RowWrite(p)
    BY <1>2 DEF StepOf, Quiet, Shared, Seeded, Locked, Paying, db
  <2>2. part \in [status : PartStatus, assignee : User \cup {NoOne}, deleted : BOOLEAN]
    BY DEF Shaped, TablesTyped
  <2>3. rows' \in Tables
    BY DEF Shaped, TablesTyped
  <2>4. CASE Saves(p) \/ Judges(p)
    <3>1. PICK e \in PartStatus :
            part' = [part EXCEPT !.status = Summary(rows', part.assignee # NoOne, e)]
      BY <2>4 DEF Saves, Judges
    <3>2. /\ part'.status = Summary(rows', part.assignee # NoOne, e)
          /\ part'.assignee = part.assignee
      BY <2>2, <3>1
    <3> QED BY <2>3, <3>2, SummaryOfRows DEF SummaryMatches
  <2>5. CASE Assigns(p)
    <3>1. CASE part.deleted
      <4>1. part'.deleted
        BY <2>2, <2>5, <3>1 DEF Assigns
      <4> QED BY <4>1 DEF SummaryMatches
    <3>2. CASE ~part.deleted
      <4>1. part'.status = Summary(rows', TRUE, "assigned") /\ part'.assignee # NoOne
        BY <2>2, <2>5, <3>2 DEF Assigns, AssignedStatus
      <4>2. Summary(rows', TRUE, "assigned") = Summary(rows', part'.assignee # NoOne, "assigned")
        BY <4>1 DEF Summary
      <4> QED BY <2>3, <4>1, <4>2, SummaryOfRows DEF SummaryMatches
    <3> QED BY <3>1, <3>2
  <2>6. CASE Deletes(p)
    <3>1. part'.deleted
      BY <2>2, <2>6 DEF Deletes
    <3> QED BY <3>1 DEF SummaryMatches
  <2> QED BY <2>1, <2>4, <2>5, <2>6 DEF RowWrite
<1> QED BY <1>1, <1>2, StepKinds

(* hnStatus is the summary of the rows: every save, review, submission and *)
(* assignment, in any order, writes both.                                  *)
THEOREM StatusIsSummary == Spec => []SummaryMatches
<1>1. Init => SummaryMatches
  BY DEF Init, SummaryMatches
<1> QED BY <1>1, NextSummary, ShapedInvariant, PTL DEF Spec

-----------------------------------------------------------------------------
(* Accounting: the entry a transaction has locked is the current one.      *)
Booked ==
    /\ \A r \in DOMAIN entries : Sound(entries[r])
    /\ \A p \in Req : Sound(taken[p].entry)
    /\ \A p \in Req : pending[p] =>
          /\ pc[p] \in {"seeded", "locked"}
          /\ req[p].rid \notin DOMAIN entries
    /\ \A p \in Req : pc[p] = "locked" => taken[p].entry.version = VersionOf(req[p].rid)
    /\ \A p, q \in Req :
          /\ pending[p] /\ pending[q] /\ req[p].rid = req[q].rid => p = q
          /\ pc[p] = "locked" /\ pc[q] = "locked" /\ req[p].rid = req[q].rid => p = q

LEMMA SeedSound == ASSUME NEW old PROVE Sound(SeedOf(old)) /\ SeedOf(old).version = 0
<1>1. CASE old = "paid"
  <2>1. SeedOf(old).paid /\ SeedOf(old).proof = 1 /\ SeedOf(old).live = {1}
    BY <1>1 DEF SeedOf
  <2> QED BY <2>1 DEF Sound, NoProof, SeedOf
<1>2. CASE old # "paid"
  <2>1. ~SeedOf(old).paid /\ SeedOf(old).proof = NoProof /\ SeedOf(old).live = {}
    BY <1>2 DEF SeedOf
  <2> QED BY <2>1 DEF Sound, SeedOf
<1> QED BY <1>1, <1>2

LEMMA SeedPaid == ASSUME NEW old PROVE SeedOf(old).paid <=> old = "paid"
BY DEF SeedOf

LEMMA InitBooked == Init => Booked
<1> SUFFICES ASSUME Init PROVE Booked
  OBVIOUS
<1>1. PICK old \in OldMark : \E S \in SUBSET Rid : \E T \in SUBSET S :
         entries \in [T -> StartEntries(old)]
  BY DEF Init
<1>2. ASSUME NEW x \in StartEntries(old) PROVE Sound(x)
  <2>1. CASE x = SeedOf(old)
    BY <2>1, SeedSound
  <2>2. CASE x = [SeedOf("none") EXCEPT !.paid = TRUE, !.version = 1, !.amount = First]
    BY <2>2 DEF SeedOf, Sound, NoProof
  <2> QED BY <2>1, <2>2 DEF StartEntries
<1>3. \A r \in DOMAIN entries : Sound(entries[r])
  BY <1>1, <1>2
<1>4. \A p \in Req : taken[p] = NothingTaken /\ pc[p] = "idle" /\ pending[p] = FALSE
  BY DEF Init
<1>5. Sound(NothingTaken.entry)
  BY SeedSound DEF NothingTaken
<1> QED BY <1>3, <1>4, <1>5 DEF Booked

LEMMA NextBooked ==
    ASSUME Shaped, Shaped', Booked, [Next]_vars PROVE Booked'
<1>1. CASE UNCHANGED vars
  BY <1>1 DEF vars, db, Booked, VersionOf
<1>2. ASSUME NEW p \in Req, StepOf(p) PROVE Booked'
  <2> USE <1>2
  <2>1. CASE Paying(p)
    <3> DEFINE r == req[p].rid
    <3>1. pc'[p] = "ok" /\ ~pending'[p] /\ taken'[p] = NothingTaken /\ Others(p)
      BY <2>1, FinishEffect DEF Paying, Finish, Shaped, Workshop
    <3>2. Sound(entries'[r])
      <4>1. Sound(taken[p].entry) /\ taken[p] \in Takings /\ MayPay(p)
        BY <2>1 DEF Booked, Paying, Shaped, Workshop
      <4>2. Sound(Written(p))
        BY <4>1, WrittenFacts
      <4>3. entries'[r] = Written(p)
        BY <2>1 DEF Paying
      <4> QED BY <4>2, <4>3
    <3>3. \A x \in DOMAIN entries' : Sound(entries'[x])
      BY <2>1, <3>2 DEF Paying, Booked
    <3>4. Sound(NothingTaken.entry)
      BY SeedSound DEF NothingTaken
    <3>5. \A q \in Req : Sound(taken'[q].entry)
      BY <3>1, <3>4 DEF Booked, Others
    <3>6. ASSUME NEW q \in Req, pending'[q]
          PROVE  pc'[q] \in {"seeded", "locked"} /\ req'[q].rid \notin DOMAIN entries'
      <4>1. q # p /\ pending[q] /\ pc'[q] = pc[q] /\ req'[q] = req[q]
        BY <3>1, <3>6 DEF Others
      <4>2. pc[q] \in {"seeded", "locked"} /\ req[q].rid \notin DOMAIN entries
        BY <4>1 DEF Booked
      <4>3. req[q].rid # r
        <5>1. CASE pending[p]
          BY <4>1, <5>1 DEF Booked
        <5>2. CASE ~pending[p]
          <6>1. r \in DOMAIN entries
            BY <2>1, <5>2 DEF Paying, Shaped, Workshop, CallOK
          <6> QED BY <4>2, <6>1
        <5> QED BY <5>1, <5>2
      <4> QED BY <2>1, <4>1, <4>2, <4>3 DEF Paying
    <3>7. ASSUME NEW q \in Req, pc'[q] = "locked"
          PROVE  (taken[q].entry.version = VersionOf(req[q].rid))'
      <4>1. q # p /\ pc[q] = "locked" /\ req'[q] = req[q] /\ taken'[q] = taken[q]
        BY <3>1, <3>7 DEF Others
      <4>2. req[q].rid # r
        BY <2>1, <4>1 DEF Booked, Paying
      <4>3. /\ req[q].rid \in DOMAIN entries' <=> req[q].rid \in DOMAIN entries
            /\ req[q].rid \in DOMAIN entries => entries'[req[q].rid] = entries[req[q].rid]
        BY <2>1, <4>2 DEF Paying
      <4> QED BY <4>1, <4>3 DEF Booked, VersionOf
    <3>8. \A q, s \in Req :
            /\ pending'[q] /\ pending'[s] /\ req'[q].rid = req'[s].rid => q = s
            /\ pc'[q] = "locked" /\ pc'[s] = "locked" /\ req'[q].rid = req'[s].rid => q = s
      BY <3>1 DEF Booked, Others
    <3> QED BY <3>3, <3>5, <3>6, <3>7, <3>8 DEF Booked
  <2>2. CASE UNCHANGED entries
    <3>2. ASSUME NEW q \in Req \ {p}
          PROVE  /\ pc'[q] = pc[q] /\ req'[q] = req[q]
                 /\ taken'[q] = taken[q] /\ pending'[q] = pending[q]
      BY DEF StepOf, Others
    <3>3. CASE Locked(p)
      <4>1. taken'[p].entry = IF pending[p] THEN SeedOf(rows[req[p].rid].old)
                              ELSE entries[req[p].rid]
        BY <3>3 DEF Locked
      <4>2. ~pending[p] => req[p].rid \in DOMAIN entries
        BY <3>3 DEF Locked, Shaped, Workshop, CallOK
      <4>3. pending[p] => req[p].rid \notin DOMAIN entries
        BY DEF Booked
      <4>4. /\ Sound(taken'[p].entry)
            /\ taken'[p].entry.version = VersionOf(req[p].rid)
        BY <4>1, <4>2, <4>3, SeedSound DEF Booked, VersionOf
      <4>5. \A q \in Req \ {p} : pc[q] = "locked" => req[q].rid # req[p].rid
        BY <3>3 DEF Locked, EntryFree
      <4>6. /\ pc'[p] = "locked" /\ req'[p] = req[p] /\ pending'[p] = pending[p]
        BY <3>3 DEF Locked
      <4> QED BY <2>2, <3>2, <4>4, <4>5, <4>6 DEF Booked, VersionOf
    <3>4. CASE Seeded(p)
      <4>1. /\ pc'[p] = "seeded" /\ req'[p] = req[p] /\ taken'[p] = taken[p]
            /\ pending'[p] => req[p].rid \notin DOMAIN entries
            /\ \A q \in Req : pending[q] => req[q].rid # req[p].rid
        BY <3>4 DEF Seeded
      <4> QED BY <2>2, <3>2, <4>1 DEF Booked, VersionOf
    <3>5. CASE Shared(p)
      <4>1. /\ pc[p] = "page" /\ pc'[p] \in {"seeded", "seeding"} /\ pending'[p] = pending[p]
            /\ taken'[p].entry = taken[p].entry /\ req'[p] = req[p]
        BY <3>5 DEF Shared
      <4>2. ~pending[p]
        BY <4>1 DEF Booked
      <4> QED BY <2>2, <3>2, <4>1, <4>2 DEF Booked, VersionOf
    <3>6. CASE Quiet(p) \/ RowWrite(p)
      <4>1. pc'[p] # "locked" /\ ~pending'[p]
        BY <3>6 DEF Quiet, RowWrite, Over, PayTx, Booked
      <4>2. Sound(taken'[p].entry)
        BY <3>6, SeedSound DEF Quiet, RowWrite, Over, NothingTaken, Booked
      <4> QED BY <2>2, <3>2, <4>1, <4>2 DEF Booked, VersionOf
    <3> QED BY <2>1, <3>3, <3>4, <3>5, <3>6 DEF StepOf
  <2> QED BY <2>1, <2>2 DEF StepOf, Quiet, Shared, Seeded, Locked, RowWrite, Over, db
<1> QED BY <1>1, <1>2, StepKinds

LEMMA BookedInvariant == Spec => []Booked
<1>1. Shaped /\ Shaped' /\ Booked /\ [Next]_vars => Booked'
  BY NextBooked
<1> QED BY <1>1, InitBooked, ShapedInvariant, PTL DEF Spec

LEMMA NothingOverwritten ==
    ASSUME Shaped, Booked, [Next]_vars, NEW p \in Req, pc[p] = "locked", pc'[p] = "ok"
    PROVE  VersionOf(req[p].rid) = req[p].base
<1>1. PICK q \in Req : StepOf(q)
  <2>1. ~UNCHANGED vars
    BY DEF vars
  <2> QED BY <2>1, StepKinds
<1>2. q = p
  BY <1>1 DEF StepOf, Others
<1>3. Paying(p)
  BY <1>1, <1>2 DEF StepOf, Quiet, Shared, Seeded, Locked, RowWrite, Over
<1> QED BY <1>3 DEF Paying, MayPay, Booked

(* Of any number of accountants on one row, none overwrites what another   *)
(* wrote after the page was loaded; the current proof is never a retired   *)
(* one, and a row that is not paid has none.                               *)
THEOREM EntriesAreRecords == Spec => EntryIsRecord
<1>1. Booked => ProofsConsistent
  BY DEF Booked, ProofsConsistent, Sound
<1>2. Shaped /\ Booked /\ [Next]_vars
        => [\A p \in Req : pc[p] = "locked" /\ pc'[p] = "ok" =>
              VersionOf(req[p].rid) = req[p].base]_vars
  BY NothingOverwritten
<1> QED BY <1>1, <1>2, BookedInvariant, ShapedInvariant, PTL
        DEF Spec, EntryIsRecord, NoLostEntry

-----------------------------------------------------------------------------
(* Under FOR SHARE what an accountant has read of the row stays true, and a *)
(* paid row is in the quote, and the quote not in the recycle bin.         *)
Current ==
    \A p \in Req : pc[p] \in PayTx =>
        /\ ~part.deleted
        /\ taken[p].there <=> req[p].rid \in DOMAIN rows
        /\ taken[p].there => /\ taken[p].amount = rows[req[p].rid].amount
                             /\ taken[p].approved <=> StateOf(req[p].rid) = "da-duyet"
        /\ pc[p] = "seeding" \/ pending[p] => taken[p].there
        /\ pc[p] = "locked" =>
              (taken[p].entry.paid <=> Paid(req[p].rid))
PaidThere == \A r \in Rid : Paid(r) => r \in DOMAIN rows /\ ~part.deleted

LEMMA RowPaid == 
    ASSUME Shaped, NEW p \in Req, RowWrite(p)
    PROVE  /\ \A r \in Rid : Paid(r)' => Paid(r)
           /\ \A r \in Rid : Paid(r) => r \in DOMAIN rows' \/ r \notin DOMAIN rows
           /\ \A r \in Rid : Paid(r) => part'.deleted = part.deleted
<1>1. UNCHANGED entries
  BY DEF RowWrite, Over
<1>2. part \in [status : PartStatus, assignee : User \cup {NoOne}, deleted : BOOLEAN]
  BY DEF Shaped, TablesTyped
<1>3. CASE Saves(p)
  <2>1. rows' = Merged(p)
    BY <1>3 DEF Saves
  <2>2. \A r \in DOMAIN rows' : rows'[r].old = "paid" => r \in DOMAIN rows /\ rows[r].old = "paid"
    BY <2>1, MergedFacts
  <2>3. \A r \in DOMAIN rows : Paid(r) => r \in DOMAIN rows'
    BY <1>3, <2>1, MergedFacts DEF Saves, PaidLost
  <2>4. part'.deleted = part.deleted
    BY <1>2, <1>3 DEF Saves
  <2> QED BY <1>1, <2>2, <2>3, <2>4 DEF Paid
<1>4. CASE Judges(p)
  <2>1. rows' = Judged(req[p].act, Acted(req[p].act, req[p].rids)) /\ req[p].act \in Acts \ {"none"}
    BY <1>4 DEF Judges, Shaped, Workshop, Calls
  <2>2. DOMAIN rows' = DOMAIN rows /\ \A r \in DOMAIN rows : rows'[r].old = rows[r].old
    BY <2>1, JudgedFacts
  <2>3. part'.deleted = part.deleted
    BY <1>2, <1>4 DEF Judges
  <2> QED BY <1>1, <2>2, <2>3 DEF Paid
<1>5. CASE Assigns(p)
  <2>1. DOMAIN rows' = DOMAIN rows /\ \A r \in DOMAIN rows : rows'[r].old = rows[r].old
    BY <1>5, ShownTyped, ShapedIsTyped DEF Assigns, AssignedRows
  <2>2. part'.deleted = part.deleted
    BY <1>2, <1>5 DEF Assigns
  <2> QED BY <1>1, <2>1, <2>2 DEF Paid
<1>6. CASE Deletes(p)
  BY <1>1, <1>6 DEF Deletes, Paid
<1> QED BY <1>3, <1>4, <1>5, <1>6 DEF RowWrite

(* The other rows' entries are as before a payment.                        *)
LEMMA PayingKeeps ==
    ASSUME NEW p \in Req, Paying(p), NEW r, r # req[p].rid
    PROVE  Paid(r)' <=> Paid(r)
BY DEF Paying, Paid

LEMMA NextCurrent ==
    ASSUME Shaped, Booked, Current, [Next]_vars PROVE Current'
<1>1. CASE UNCHANGED vars
  BY <1>1 DEF vars, db, Current, Paid, StateOf
<1>2. ASSUME NEW p \in Req, StepOf(p) PROVE Current'
  <2>1. ASSUME NEW q \in Req \ {p}
        PROVE  /\ pc'[q] = pc[q] /\ req'[q] = req[q]
               /\ taken'[q] = taken[q] /\ pending'[q] = pending[q]
    BY <1>2 DEF StepOf, Others
  <2>2. CASE Quiet(p)
    BY <2>1, <2>2 DEF Quiet, Current, db, Paid, StateOf
  <2>3. CASE RowWrite(p)
    <3>1. pc'[p] = "ok" /\ \A q \in Req : pc[q] \notin PayTx
      BY <2>3 DEF RowWrite, Over, NoShare
    <3>2. \A q \in Req : pc'[q] \notin PayTx
      BY <2>1, <3>1 DEF PayTx
    <3> QED BY <3>2 DEF Current
  <2>4. CASE Paying(p)
    <3>1. pc'[p] = "ok" /\ UNCHANGED <<part, rows>>
      BY <2>4, FinishEffect DEF Paying
    <3>2. \A q \in Req \ {p} : pc[q] = "locked" => req[q].rid # req[p].rid
      BY <2>4 DEF Booked, Paying
    <3>3. \A q \in Req \ {p} : pc[q] = "locked" =>
             (req[q].rid \in DOMAIN entries' <=> req[q].rid \in DOMAIN entries)
             /\ (req[q].rid \in DOMAIN entries => entries'[req[q].rid] = entries[req[q].rid])
      BY <2>4, <3>2 DEF Paying
    <3>4. ASSUME NEW q \in Req \ {p}, pc'[q] = "locked"
          PROVE  (taken[q].entry.paid <=> Paid(req[q].rid))'
      <4>1. (taken[q].entry.paid <=> Paid(req[q].rid)) /\ pc[q] = "locked"
        BY <2>1, <3>4 DEF Current, PayTx
      <4> QED BY <2>1, <3>1, <3>3, <4>1 DEF Paid
    <3>5. ASSUME NEW q \in Req \ {p}, pc'[q] \in PayTx
          PROVE  /\ ~part'.deleted
                 /\ taken'[q].there <=> req'[q].rid \in DOMAIN rows'
                 /\ taken'[q].there => /\ taken'[q].amount = rows'[req'[q].rid].amount
                                       /\ (taken[q].approved <=> StateOf(req[q].rid) = "da-duyet")'
                 /\ pc'[q] = "seeding" \/ pending'[q] => taken'[q].there
      BY <2>1, <3>1, <3>5 DEF Current, StateOf
    <3> QED BY <3>1, <3>4, <3>5 DEF Current, PayTx
  <2>5. CASE Shared(p)
    <3>1. ~pending[p]
      BY <2>5 DEF Shared, Booked
    <3> QED BY <2>1, <2>5, <3>1 DEF Shared, Current, db, Paid, StateOf
  <2>6. CASE Seeded(p)
    BY <2>1, <2>6 DEF Seeded, Current, db, Paid, StateOf, PayTx
  <2>7. CASE Locked(p)
    <3>1. pc[p] \in PayTx /\ (pending[p] => req[p].rid \notin DOMAIN entries)
      BY <2>7 DEF Locked, PayTx, Booked
    <3>2. ~pending[p] => req[p].rid \in DOMAIN entries
      BY <2>7 DEF Locked, Shaped, Workshop, CallOK
    <3>3. taken'[p].entry.paid <=> Paid(req[p].rid)
      <4>1. CASE pending[p]
        <5>1. req[p].rid \in DOMAIN rows
          BY <3>1, <4>1 DEF Current
        <5>2. taken'[p].entry.paid <=> rows[req[p].rid].old = "paid"
          BY <2>7, <4>1, SeedPaid DEF Locked
        <5> QED BY <3>1, <4>1, <5>1, <5>2 DEF Paid
      <4>2. CASE ~pending[p]
        BY <2>7, <3>2, <4>2 DEF Locked, Paid
      <4> QED BY <4>1, <4>2
    <3>4. /\ UNCHANGED <<part, rows, entries>> /\ req'[p] = req[p] /\ pending'[p] = pending[p]
          /\ taken'[p].there = taken[p].there /\ taken'[p].amount = taken[p].amount
          /\ taken'[p].approved = taken[p].approved /\ pc'[p] = "locked"
      BY <2>7 DEF Locked, db
    <3>5. /\ ~part.deleted
          /\ taken[p].there <=> req[p].rid \in DOMAIN rows
          /\ taken[p].there => /\ taken[p].amount = rows[req[p].rid].amount
                               /\ taken[p].approved <=> StateOf(req[p].rid) = "da-duyet"
          /\ pending[p] => taken[p].there
      BY <3>1 DEF Current
    <3>6. \A q \in Req \ {p} : pc'[q] \in PayTx =>
            /\ taken[q].there <=> req[q].rid \in DOMAIN rows
            /\ taken[q].there => /\ taken[q].amount = rows[req[q].rid].amount
                                 /\ taken[q].approved <=> StateOf(req[q].rid) = "da-duyet"
            /\ pc[q] = "seeding" \/ pending[q] => taken[q].there
            /\ pc[q] = "locked" => (taken[q].entry.paid <=> Paid(req[q].rid))
      BY <2>1 DEF Current
    <3> QED BY <2>1, <3>3, <3>4, <3>5, <3>6 DEF Current, Paid, StateOf
  <2> QED BY <1>2, <2>2, <2>3, <2>4, <2>5, <2>6, <2>7 DEF StepOf
<1> QED BY <1>1, <1>2, StepKinds

(* What is written as paid was paid already, or is a row that is approved. *)
LEMMA PayingPaid ==
    ASSUME Shaped, Booked, Current, NEW p \in Req, Paying(p)
    PROVE  /\ entries'[req[p].rid].paid /\ ~Paid(req[p].rid) =>
                /\ req[p].rid \in DOMAIN rows /\ StateOf(req[p].rid) = "da-duyet"
                /\ entries'[req[p].rid].amount = rows[req[p].rid].amount
           /\ ~part.deleted
<1> DEFINE r == req[p].rid
<1>1. /\ taken[p].there <=> r \in DOMAIN rows
      /\ taken[p].there => /\ taken[p].amount = rows[r].amount
                           /\ taken[p].approved <=> StateOf(r) = "da-duyet"
      /\ taken[p].entry.paid <=> Paid(r)
      /\ ~part.deleted
  BY DEF Paying, Current, PayTx
<1>2. taken[p] \in Takings /\ MayPay(p) /\ entries'[r] = Written(p)
  BY DEF Paying, Shaped, Workshop
<1>3. Written(p).paid /\ ~taken[p].entry.paid =>
         req[p].paid = TRUE /\ Written(p).amount = taken[p].amount
  BY <1>2, WrittenFacts
<1>4. req[p].paid = TRUE /\ ~taken[p].entry.paid => taken[p].there /\ taken[p].approved
  BY <1>2 DEF MayPay
<1> QED BY <1>1, <1>2, <1>3, <1>4

LEMMA NextPaidThere ==
    ASSUME Shaped, Booked, Current, PaidThere, [Next]_vars
    PROVE  /\ PaidThere'
           /\ \A r \in Rid : Paid(r) \/ Paid(r)' => r \in DOMAIN rows' /\ ~part'.deleted
<1>1. CASE UNCHANGED db
  BY <1>1 DEF db, PaidThere, Paid
<1>2. ASSUME NEW p \in Req, StepOf(p), ~UNCHANGED db
      PROVE  /\ \A r \in Rid : Paid(r)' => r \in DOMAIN rows' /\ ~part'.deleted
             /\ \A r \in Rid : Paid(r) => r \in DOMAIN rows' /\ ~part'.deleted
  <2>1. CASE RowWrite(p)
    BY <2>1, RowPaid DEF PaidThere
  <2>2. CASE Paying(p)
    <3>1. UNCHANGED <<part, rows>>
      BY <2>2 DEF Paying
    <3>2. ASSUME NEW r \in Rid, Paid(r)' PROVE r \in DOMAIN rows /\ ~part.deleted
      <4>1. CASE Paid(r)
        BY <4>1 DEF PaidThere
      <4>2. CASE ~Paid(r)
        <5>1. r = req[p].rid
          BY <2>2, <3>2, <4>2, PayingKeeps
        <5>2. entries'[r].paid
          BY <2>2, <3>2, <5>1 DEF Paying, Paid
        <5> QED BY <2>2, <4>2, <5>1, <5>2, PayingPaid
      <4> QED BY <4>1, <4>2
    <3> QED BY <3>1, <3>2 DEF PaidThere
  <2> QED BY <1>2, <2>1, <2>2 DEF StepOf, Quiet, Shared, Seeded, Locked
<1>3. UNCHANGED vars => UNCHANGED db
  BY DEF vars
<1> QED BY <1>1, <1>2, <1>3, StepKinds DEF PaidThere

LEMMA AmountKept ==
    ASSUME Shaped, [Next]_vars, NEW r \in DOMAIN rows \cap DOMAIN rows',
           Paid(r), rows'[r].amount # rows[r].amount
    PROVE  \E p \in Req : (Does(p, "fill") \/ Does(p, "save")) /\ req[p].user \in Payers
<1>1. PICK p \in Req : StepOf(p)
  BY StepKinds DEF vars, db
<1>2. RowWrite(p)
  BY <1>1 DEF StepOf, Quiet, Shared, Seeded, Locked, Paying, db
<1>3. ~Judges(p)
  <2> SUFFICES ASSUME Judges(p) PROVE FALSE
    OBVIOUS
  <2>1. rows' = Judged(req[p].act, Acted(req[p].act, req[p].rids)) /\ req[p].act \in Acts \ {"none"}
    BY DEF Judges, Shaped, Workshop, Calls
  <2> QED BY <2>1, JudgedFacts
<1>4. ~Assigns(p) /\ ~Deletes(p)
  BY ShownTyped, ShapedIsTyped DEF Assigns, AssignedRows, Deletes
<1>5. Saves(p)
  BY <1>2, <1>3, <1>4 DEF RowWrite
<1>6. rows'[r].amount = req[p].payload[r] /\ r \in DOMAIN req[p].payload
  BY <1>5, MergedFacts DEF Saves
<1>7. req[p].user \in Payers
  BY <1>5, <1>6 DEF Saves, Repriced
<1> QED BY <1>2, <1>5, <1>7 DEF Does, RowWrite, Over, Saves

LEMMA AsApproved ==
    ASSUME Shaped, Booked, Current, [Next]_vars, NEW r \in DOMAIN entries',
           entries'[r].paid, ~Paid(r)
    PROVE  /\ r \in DOMAIN rows' /\ StateOf(r)' = "da-duyet"
           /\ entries'[r].amount = rows'[r].amount
<1>1. PICK p \in Req : Paying(p)
  <2>1. entries' # entries
    BY DEF Paid
  <2> QED BY <2>1, StepKinds
          DEF vars, db, StepOf, Quiet, Shared, Seeded, Locked, RowWrite, Over
<1>2. r = req[p].rid
  BY <1>1 DEF Paying, Paid
<1>3. UNCHANGED <<part, rows>>
  BY <1>1 DEF Paying
<1> QED BY <1>1, <1>2, <1>3, PayingPaid DEF StateOf

LEMMA PaidInvariant == Spec => [](Current /\ PaidThere)
<1>1. Init => Current /\ PaidThere
  <2> SUFFICES ASSUME Init PROVE Current /\ PaidThere
    OBVIOUS
  <2>1. DOMAIN entries \subseteq DOMAIN rows /\ ~part.deleted
    BY DEF Init
  <2> QED BY <2>1 DEF Init, Current, PaidThere, Paid, PayTx
<1>2. Shaped /\ Booked /\ (Current /\ PaidThere) /\ [Next]_vars => (Current /\ PaidThere)'
  BY NextCurrent, NextPaidThere
<1> QED BY <1>1, <1>2, ShapedInvariant, BookedInvariant, PTL DEF Spec

(* For any number of accountants, editors and deletions at once: a paid    *)
(* row stays, at the amount paid, and was approved when it was paid.       *)
THEOREM PaymentsStand == Spec => PaidStands
<1>1. Shaped /\ Booked /\ (Current /\ PaidThere) /\ [Next]_vars
        => [\A r \in Rid : Paid(r) \/ Paid(r)' => r \in DOMAIN rows' /\ ~part'.deleted]_vars
  BY NextPaidThere
<1>2. Shaped /\ [Next]_vars
        => [\A r \in DOMAIN rows \cap DOMAIN rows' :
              Paid(r) /\ rows'[r].amount # rows[r].amount =>
                 \E p \in Req : (Does(p, "fill") \/ Does(p, "save")) /\ req[p].user \in Payers]_vars
  BY AmountKept
<1>3. Shaped /\ Booked /\ (Current /\ PaidThere) /\ [Next]_vars
        => [\A r \in DOMAIN entries' :
              entries'[r].paid /\ ~Paid(r) =>
                 /\ r \in DOMAIN rows' /\ StateOf(r)' = "da-duyet"
                 /\ entries'[r].amount = rows'[r].amount]_vars
  BY AsApproved
<1> QED BY <1>1, <1>2, <1>3, ShapedInvariant, BookedInvariant, PaidInvariant, PTL
        DEF Spec, PaidStands, PaidRowStays, PaidAmountKept, PaidAsApproved

-----------------------------------------------------------------------------
(* Reviews.                                                                *)
LEMMA StatesKept ==
    ASSUME Shaped, [Next]_vars, NEW r \in DOMAIN rows \cap DOMAIN rows',
           ~part.deleted, StateOf(r)' # StateOf(r)
    PROVE  \E p \in Req : /\ Does(p, "submit") \/ Does(p, "review")
                          /\ req[p].rids # {} => r \in req[p].rids
<1>1. PICK p \in Req : StepOf(p)
  BY StepKinds DEF vars, db, StateOf
<1>2. RowWrite(p)
  BY <1>1 DEF StepOf, Quiet, Shared, Seeded, Locked, Paying, db, StateOf
<1>3. StateOf(r) # Legacy
  BY StateTyped, ShapedIsTyped DEF RowState, Legacy
<1>4. rows'[r].state # StateOf(r) \/ ~UNCHANGED <<part, rows>>
  BY <1>3 DEF StateOf
<1>5. ~Saves(p)
  <2> SUFFICES ASSUME Saves(p) PROVE FALSE
    OBVIOUS
  <2>1. rows'[r].state = StateOf(r)
    BY MergedFacts DEF Saves
  <2> QED BY <1>3, <2>1 DEF StateOf
<1>6. ~Assigns(p)
  <2> SUFFICES ASSUME Assigns(p) PROVE FALSE
    OBVIOUS
  <2>1. rows'[r].state = StateOf(r)
    BY ShownTyped, ShapedIsTyped DEF Assigns, AssignedRows
  <2> QED BY <1>3, <2>1 DEF StateOf
<1>7. ~Deletes(p)
  <2> SUFFICES ASSUME Deletes(p) PROVE FALSE
    OBVIOUS
  <2>1. rows' = rows /\ part'.status = part.status
    BY DEF Deletes, Shaped, TablesTyped
  <2> QED BY <2>1 DEF StateOf
<1>8. Judges(p)
  BY <1>2, <1>5, <1>6, <1>7 DEF RowWrite
<1>9. req[p].rids # {} => r \in req[p].rids
  <2> SUFFICES ASSUME req[p].rids # {}, r \notin req[p].rids PROVE FALSE
    OBVIOUS
  <2>1. /\ rows' = Judged(req[p].act, Acted(req[p].act, req[p].rids))
        /\ req[p].act \in Acts \ {"none"}
    BY <1>8 DEF Judges, Shaped, Workshop, Calls
  <2>2. r \notin Acted(req[p].act, req[p].rids)
    BY DEF Acted
  <2>3. rows'[r].state = StateOf(r)
    BY <2>1, <2>2, JudgedFacts
  <2> QED BY <1>3, <2>3 DEF StateOf
<1> QED BY <1>2, <1>8, <1>9 DEF Does, RowWrite, Over, Judges

LEMMA RowsLocked ==
    ASSUME Shaped, [Next]_vars, NEW r \in DOMAIN rows,
           r \notin DOMAIN rows' \/ rows'[r].amount # rows[r].amount
    PROVE  /\ StateOf(r) # "da-duyet"
           /\ StateOf(r) = "cho-duyet" =>
                 \E p \in Req : Does(p, "save") /\ req[p].user \in Managers
<1>1. PICK p \in Req : StepOf(p)
  BY StepKinds DEF vars, db
<1>2. RowWrite(p)
  BY <1>1 DEF StepOf, Quiet, Shared, Seeded, Locked, Paying, db
<1>3. ~Judges(p)
  <2> SUFFICES ASSUME Judges(p) PROVE FALSE
    OBVIOUS
  <2>1. rows' = Judged(req[p].act, Acted(req[p].act, req[p].rids)) /\ req[p].act \in Acts \ {"none"}
    BY DEF Judges, Shaped, Workshop, Calls
  <2> QED BY <2>1, JudgedFacts
<1>4. ~Assigns(p) /\ ~Deletes(p)
  BY ShownTyped, ShapedIsTyped DEF Assigns, AssignedRows, Deletes
<1>5. Saves(p)
  BY <1>2, <1>3, <1>4 DEF RowWrite
<1>6. r \notin DOMAIN req[p].payload \/ req[p].payload[r] # rows[r].amount
  BY <1>5, MergedFacts DEF Saves
<1> DEFINE locked == IF req[p].kind = "save" /\ req[p].user \in Managers THEN {"da-duyet"}
                     ELSE {"da-duyet", "cho-duyet"}
<1>7. StateOf(r) \notin locked
  BY <1>5, <1>6 DEF Saves, LockedLost, Kept
<1> QED BY <1>2, <1>5, <1>7 DEF Does, RowWrite, Over, Saves

LEMMA NotOneself ==
    ASSUME Shaped, [Next]_vars, NEW p \in Req, Does(p, "review")
    PROVE  part.assignee # req[p].user
<1>1. PICK q \in Req : StepOf(q)
  BY StepKinds DEF vars, Does
<1>2. q = p
  BY <1>1 DEF StepOf, Others, Does
<1>3. RowWrite(p)
  BY <1>1, <1>2 DEF StepOf, Quiet, Shared, Seeded, Locked, Paying, Does
<1> QED BY <1>3 DEF RowWrite, Saves, Judges, Assigns, Deletes, Does

(* A review stands until the next one: no save, payment or new assignment  *)
(* changes the state of a row, an approved row keeps its amount, and the   *)
(* one the part is assigned to never reviews it.                           *)
THEOREM ReviewsStand == Spec => ReviewStands
<1>1. Shaped /\ [Next]_vars
        => [\A r \in DOMAIN rows \cap DOMAIN rows' :
              ~part.deleted /\ StateOf(r)' # StateOf(r) =>
                 \E p \in Req : /\ Does(p, "submit") \/ Does(p, "review")
                                /\ req[p].rids # {} => r \in req[p].rids]_vars
  BY StatesKept
<1>2. Shaped /\ [Next]_vars
        => [\A r \in DOMAIN rows :
              r \notin DOMAIN rows' \/ rows'[r].amount # rows[r].amount =>
                 /\ StateOf(r) # "da-duyet"
                 /\ StateOf(r) = "cho-duyet" =>
                       \E p \in Req : Does(p, "save") /\ req[p].user \in Managers]_vars
  BY RowsLocked
<1>3. Shaped /\ [Next]_vars
        => [\A p \in Req : Does(p, "review") => part.assignee # req[p].user]_vars
  BY NotOneself
<1> QED BY <1>1, <1>2, <1>3, ShapedInvariant, PTL
        DEF Spec, ReviewStands, ReviewStateKept, LockedRowKept, NoSelfApproval
=============================================================================
