------------------------- MODULE InvoiceSplit_proofs -------------------------
(***************************************************************************)
(* What holds of InvoiceSplit for any number of pages and of invoices, any *)
(* invoice numbers and any days of payment.                                *)
(***************************************************************************)
EXTENDS InvoiceSplit, FiniteSetTheorems, SequenceTheorems, WellFoundedInduction, TLAPS

USE SplitAssumption

(***************************************************************************)
(* The inductive invariant.                                                *)
(***************************************************************************)
IInv == TypeOK /\ HeldIsIdle /\ NumberShared

LEMMA Shape ==
    ASSUME TypeOK
    PROVE  /\ Len(pages) \in 1..MaxPages /\ Len(pages) \in Nat
           /\ pages \in [1..Len(pages) -> Pages] /\ DOMAIN pages = 1..Len(pages)
BY DEF TypeOK

-----------------------------------------------------------------------------
(***************************************************************************)
(* Invoices.                                                               *)
(***************************************************************************)

\* What the key of a page says: no invoice, the invoice of a group, or the
\* page's own.
LEMMA Invoice ==
    ASSUME NEW n \in Nat, NEW ps \in [1..n -> Pages], NEW i \in 1..n
    PROVE  /\ Held(ps, i) <=> IsSplit(ps) /\ (ps[i].hold # "none" \/ ps[i].group = 0)
           /\ Grouped(ps, i) <=> IsSplit(ps) /\ ps[i].hold = "none" /\ ps[i].group # 0
           /\ Grouped(ps, i) => InvoiceNumber(ps, i) = ps[i].group
           /\ ~IsSplit(ps) => InvoiceNumber(ps, i) = ps[i].code
           /\ Held(ps, i) <=> InvoiceNumber(ps, i) = 0
<1>1. /\ ps[i].hold \in Holds /\ ps[i].group \in 0..MaxGroup /\ ps[i].code \in 1..MaxCode
  BY DEF Pages
<1>2. CASE ~IsSplit(ps)
  <2>1. Key(ps, i) = <<"sheet", ps[i].code>>
    BY <1>2 DEF Key, KeyOf
  <2> QED BY <1>1, <1>2, <2>1 DEF Held, Grouped, InvoiceNumber
<1>3. CASE IsSplit(ps) /\ ps[i].hold = "skip"
  <2>1. Key(ps, i) = <<"skip", 0>>
    BY <1>3 DEF Key, KeyOf
  <2> QED BY <1>3, <2>1 DEF Held, Grouped, InvoiceNumber
<1>4. CASE IsSplit(ps) /\ ps[i].hold # "skip" /\ (ps[i].hold = "later" \/ ps[i].group = 0)
  <2>1. Key(ps, i) = <<"later", 0>>
    BY <1>4 DEF Key, KeyOf
  <2> QED BY <1>4, <2>1 DEF Held, Grouped, InvoiceNumber
<1>5. CASE IsSplit(ps) /\ ps[i].hold = "none" /\ ps[i].group # 0
  <2>1. Key(ps, i) = <<"group", ps[i].group>>
    BY <1>5 DEF Key, KeyOf
  <2> QED BY <1>5, <2>1 DEF Held, Grouped, InvoiceNumber
<1> QED BY <1>1, <1>2, <1>3, <1>4, <1>5 DEF Holds

\* The pages of one invoice, or of one box, have one key.
LEMMA Mates ==
    ASSUME NEW ps, NEW i \in DOMAIN ps
    PROVE  /\ i \in Together(ps, i) /\ Together(ps, i) \subseteq DOMAIN ps
           /\ Counted(ps, i) \subseteq Together(ps, i)
           /\ \A j \in DOMAIN ps : j \in Together(ps, i) <=> Key(ps, j) = Key(ps, i)
           /\ \A j \in Together(ps, i) :
                 /\ Together(ps, j) = Together(ps, i) /\ Counted(ps, j) = Counted(ps, i)
                 /\ Held(ps, j) <=> Held(ps, i)
                 /\ Grouped(ps, j) <=> Grouped(ps, i)
                 /\ InvoiceNumber(ps, j) = InvoiceNumber(ps, i)
BY DEF Together, Counted, Held, Grouped, InvoiceNumber, Key

\* Pages of an invoice, by what they carry.
LEMMA MatesAre ==
    ASSUME NEW n \in Nat, NEW ps \in [1..n -> Pages], NEW i \in 1..n, NEW j \in 1..n,
           ~Held(ps, i)
    PROVE  /\ IsSplit(ps) => (j \in Together(ps, i) <=>
                                 ps[j].hold = "none" /\ ps[j].group = ps[i].group)
           /\ ~IsSplit(ps) => (j \in Together(ps, i) <=> ps[j].code = ps[i].code)
<1>1. /\ DOMAIN ps = 1..n /\ ps[i] \in Pages /\ ps[j] \in Pages
      /\ j \in Together(ps, i) <=> Key(ps, j) = Key(ps, i)
  BY Mates
<1>2. CASE ~IsSplit(ps)
  BY <1>1, <1>2 DEF Key, KeyOf
<1>3. CASE IsSplit(ps)
  <2>1. ps[i].hold = "none" /\ ps[i].group # 0
    BY <1>3, Invoice
  <2>2. Key(ps, i) = <<"group", ps[i].group>>
    BY <1>3, <2>1 DEF Key, KeyOf
  <2>3. ps[j].hold \in Holds
    BY <1>1 DEF Pages
  <2>4. CASE ps[j].hold = "none" /\ ps[j].group # 0
    BY <1>1, <1>3, <2>1, <2>2, <2>4 DEF Key, KeyOf
  <2>5. CASE ~(ps[j].hold = "none" /\ ps[j].group # 0)
    BY <1>1, <1>3, <2>1, <2>2, <2>3, <2>5 DEF Key, KeyOf, Holds
  <2> QED BY <2>4, <2>5
<1> QED BY <1>2, <1>3

\* The invoices follow from the marks and the codes alone.
SameMarks(ps, qs) ==
    /\ DOMAIN qs = DOMAIN ps
    /\ \A i \in DOMAIN ps : /\ qs[i].code = ps[i].code /\ qs[i].group = ps[i].group
                            /\ qs[i].hold = ps[i].hold

LEMMA SameInvoices ==
    ASSUME NEW ps, NEW qs, SameMarks(ps, qs)
    PROVE  /\ IsSplit(qs) <=> IsSplit(ps)
           /\ \A i \in DOMAIN ps :
                 /\ Key(qs, i) = Key(ps, i) /\ InvoiceNumber(qs, i) = InvoiceNumber(ps, i)
                 /\ Held(qs, i) <=> Held(ps, i)
                 /\ Grouped(qs, i) <=> Grouped(ps, i)
                 /\ Together(qs, i) = Together(ps, i)
<1>1. IsSplit(qs) <=> IsSplit(ps)
  BY DEF SameMarks, IsSplit
<1>2. ASSUME NEW i \in DOMAIN ps PROVE Key(qs, i) = Key(ps, i)
  BY <1>1, <1>2 DEF SameMarks, Key, KeyOf
<1>3. ASSUME NEW i \in DOMAIN ps PROVE Together(qs, i) = Together(ps, i)
  <2>1. DOMAIN qs = DOMAIN ps
    BY DEF SameMarks
  <2>2. \A j \in DOMAIN ps : j \in Together(qs, i) <=> j \in Together(ps, i)
    BY <1>2, <2>1, Mates
  <2> QED BY <2>1, <2>2, Mates
<1> QED BY <1>1, <1>2, <1>3 DEF Held, Grouped, InvoiceNumber

-----------------------------------------------------------------------------
(***************************************************************************)
(* What a split writes.                                                    *)
(***************************************************************************)

LEMMA SmallestOf == ASSUME NEW S \in SUBSET Nat, S # {} PROVE Min(S) \in S
<1> DEFINE R == {ss \in Nat \X Nat : ss[1] < ss[2]}
<1>1. IsWellFoundedOn(R, Nat)
  BY NatLessThanWellFounded DEF OpToRel
<1>2. \A a, b \in Nat : a < b => <<a, b>> \in R
  OBVIOUS
<1> HIDE DEF R
<1>3. PICK x \in S : \A y \in S : <<y, x>> \notin R
  BY <1>1, WFMin, Zenon
<1>4. ASSUME NEW y \in S PROVE x =< y
  <2>1. x \in Nat /\ y \in Nat
    OBVIOUS
  <2>2. ~ (y < x)
    BY <1>2, <1>3, <2>1, Zenon
  <2> QED BY <2>1, <2>2
<1> QED BY <1>4, Zenon DEF Min

\* The first value given is one of the values, unless none is given.
LEMMA First ==
    ASSUME NEW C \in SUBSET Nat, NEW values, DOMAIN values = C
    PROVE  \/ FirstGiven(values) = None /\ \A j \in C : values[j] = None
           \/ \E j \in C : values[j] # None /\ FirstGiven(values) = values[j]
<1> DEFINE S == {j \in C : values[j] # None}
<1>1. CASE S = {}
  BY <1>1 DEF FirstGiven
<1>2. CASE S # {}
  <2>1. Min(S) \in S
    BY <1>2, SmallestOf
  <2>2. FirstGiven(values) = values[Min(S)]
    BY <1>2 DEF FirstGiven
  <2> QED BY <2>1, <2>2
<1> QED BY <1>1, <1>2

\* What one page of an invoice is given.
NumberOf(ps, i) == FirstGiven([j \in Counted(ps, i) |-> ps[j].no])
PaidOf(ps, i) == FirstGiven([j \in Counted(ps, i) |-> ps[j].paid])

LEMMA GivenOf ==
    ASSUME NEW n \in Nat, NEW ps \in [1..n -> Pages], NEW i \in 1..n
    PROVE  /\ \/ NumberOf(ps, i) = None /\ \A j \in Counted(ps, i) : ps[j].no = None
              \/ \E j \in Counted(ps, i) : ps[j].no # None /\ NumberOf(ps, i) = ps[j].no
           /\ \/ PaidOf(ps, i) = None /\ \A j \in Counted(ps, i) : ps[j].paid = None
              \/ \E j \in Counted(ps, i) : ps[j].paid # None /\ PaidOf(ps, i) = ps[j].paid
           /\ NumberOf(ps, i) \in Numbers \cup {None} /\ PaidOf(ps, i) \in Days \cup {None}
<1> DEFINE C == Counted(ps, i)
           nos == [j \in C |-> ps[j].no]
           days == [j \in C |-> ps[j].paid]
<1>1. C \subseteq 1..n /\ C \in SUBSET Nat
  BY Mates
<1>2. \A j \in C : ps[j].no \in Numbers \cup {None} /\ ps[j].paid \in Days \cup {None}
  BY <1>1 DEF Pages
<1>3. \/ FirstGiven(nos) = None /\ \A j \in C : nos[j] = None
      \/ \E j \in C : nos[j] # None /\ FirstGiven(nos) = nos[j]
  BY <1>1, First
<1>4. \/ FirstGiven(days) = None /\ \A j \in C : days[j] = None
      \/ \E j \in C : days[j] # None /\ FirstGiven(days) = days[j]
  BY <1>1, First
<1>5. NumberOf(ps, i) = FirstGiven(nos) /\ PaidOf(ps, i) = FirstGiven(days)
  BY DEF NumberOf, PaidOf
<1>6. \A j \in C : nos[j] = ps[j].no /\ days[j] = ps[j].paid
  OBVIOUS
<1> HIDE DEF C, nos, days
<1>7. \/ NumberOf(ps, i) = None /\ \A j \in C : ps[j].no = None
      \/ \E j \in C : ps[j].no # None /\ NumberOf(ps, i) = ps[j].no
  BY <1>3, <1>5, <1>6
<1>8. \/ PaidOf(ps, i) = None /\ \A j \in C : ps[j].paid = None
      \/ \E j \in C : ps[j].paid # None /\ PaidOf(ps, i) = ps[j].paid
  BY <1>4, <1>5, <1>6
<1>9. NumberOf(ps, i) \in Numbers \cup {None} /\ PaidOf(ps, i) \in Days \cup {None}
  BY <1>2, <1>7, <1>8
<1> QED BY <1>7, <1>8, <1>9 DEF C

LEMMA OneDayGiven ==
    ASSUME NEW n \in Nat, NEW ps \in [1..n -> Pages], NEW i \in 1..n, i \in Counted(ps, i),
           \A j \in Counted(ps, i) : ps[j].paid = ps[i].paid
    PROVE  PaidOf(ps, i) = ps[i].paid
<1>1. \/ PaidOf(ps, i) = None /\ \A j \in Counted(ps, i) : ps[j].paid = None
      \/ \E j \in Counted(ps, i) : ps[j].paid # None /\ PaidOf(ps, i) = ps[j].paid
  BY GivenOf
<1> QED BY <1>1

\* A merge writes the pages of the invoices, and neither marks nor pages
\* that are not counted.
LEMMA MergedSo ==
    ASSUME NEW n \in Nat, NEW ps \in [1..n -> Pages], NEW ms, ms = Merged(ps)
    PROVE  /\ ms \in [1..n -> Pages] /\ SameMarks(ps, ms)
           /\ \A i \in 1..n :
                /\ ms[i].rejected = ps[i].rejected
                /\ Hidden(ms[i]) <=> Hidden(ps[i])
                /\ Counted(ms, i) = Counted(ps, i)
                /\ IF Grouped(ps, i) /\ i \in Counted(ps, i)
                   THEN ms[i].no = NumberOf(ps, i) /\ ms[i].paid = PaidOf(ps, i)
                   ELSE ms[i].no = ps[i].no /\ ms[i].paid = ps[i].paid
<1>1. \A i \in 1..n :
        ms[i] = IF Grouped(ps, i) /\ i \in Counted(ps, i)
                THEN [ps[i] EXCEPT !.no = NumberOf(ps, i), !.paid = PaidOf(ps, i)]
                ELSE ps[i]
  BY DEF Merged, NumberOf, PaidOf
<1>2. DOMAIN ms = 1..n /\ ms = [i \in 1..n |-> ms[i]]
  BY DEF Merged
<1>3. ASSUME NEW i \in 1..n
      PROVE  /\ ms[i] \in Pages /\ ms[i].rejected = ps[i].rejected
             /\ ms[i].code = ps[i].code /\ ms[i].group = ps[i].group /\ ms[i].hold = ps[i].hold
             /\ IF Grouped(ps, i) /\ i \in Counted(ps, i)
                THEN ms[i].no = NumberOf(ps, i) /\ ms[i].paid = PaidOf(ps, i)
                ELSE ms[i].no = ps[i].no /\ ms[i].paid = ps[i].paid
  <2>1. NumberOf(ps, i) \in Numbers \cup {None} /\ PaidOf(ps, i) \in Days \cup {None}
    BY GivenOf
  <2> QED BY <1>1, <2>1 DEF Pages
<1>4. ms \in [1..n -> Pages] /\ SameMarks(ps, ms)
  BY <1>2, <1>3 DEF SameMarks
<1>5. ASSUME NEW i \in 1..n PROVE Hidden(ms[i]) <=> Hidden(ps[i])
  <2>1. CASE Grouped(ps, i) /\ i \in Counted(ps, i)
    <3>1. ~Hidden(ps[i])
      BY <2>1 DEF Counted
    <3>2. (ps[i].no # None => ms[i].no # None) /\ (ps[i].paid # None => ms[i].paid # None)
      BY <1>3, <2>1, GivenOf
    <3> QED BY <1>3, <3>1, <3>2 DEF Hidden
  <2>2. CASE ~(Grouped(ps, i) /\ i \in Counted(ps, i))
    BY <1>3, <2>2 DEF Hidden
  <2> QED BY <2>1, <2>2
<1>6. ASSUME NEW i \in 1..n PROVE Counted(ms, i) = Counted(ps, i)
  <2>1. Together(ms, i) = Together(ps, i) /\ Together(ps, i) \subseteq 1..n
    BY <1>4, SameInvoices, Mates
  <2> QED BY <1>5, <2>1 DEF Counted
<1> QED BY <1>3, <1>4, <1>5, <1>6

\* Marking changes marks only.
LEMMA MarkedSo ==
    ASSUME NEW n \in 1..MaxPages, NEW ps \in [1..n -> Pages], NEW split \in Splits[n],
           NEW new, new = Marked(ps, split)
    PROVE  /\ new \in [1..n -> Pages]
           /\ \A i \in 1..n : /\ new[i].code = ps[i].code /\ new[i].rejected = ps[i].rejected
                              /\ new[i].no = ps[i].no /\ new[i].paid = ps[i].paid
                              /\ new[i].group = split[i].group /\ new[i].hold = split[i].hold
                              /\ new[i].group = 0 \/ new[i].hold = "none"
                              /\ Hidden(new[i]) <=> Hidden(ps[i])
<1> DEFINE marks == {Mark(g, "none") : g \in 1..MaxGroup} \cup {Mark(0, "later"), Mark(0, "skip")}
<1>1. split \in [1..n -> marks] \cup {[i \in 1..n |-> Mark(0, "none")]}
  BY DEF Splits, FullSplits
<1>2. ASSUME NEW i \in 1..n
      PROVE  /\ split[i].group \in 0..MaxGroup /\ split[i].hold \in Holds
             /\ split[i].group = 0 \/ split[i].hold = "none"
  <2>1. split[i] \in marks \cup {Mark(0, "none")}
    BY <1>1
  <2>2. \A m \in marks \cup {Mark(0, "none")} :
          /\ m.group \in 0..MaxGroup /\ m.hold \in Holds
          /\ m.group = 0 \/ m.hold = "none"
    BY DEF Mark, Holds
  <2> QED BY <2>1, <2>2
<1>3. /\ DOMAIN new = 1..n /\ new = [i \in 1..n |-> new[i]]
      /\ \A i \in 1..n :
            new[i] = [ps[i] EXCEPT !.group = split[i].group, !.hold = split[i].hold]
  BY DEF Marked
<1> HIDE DEF marks
<1>4. ASSUME NEW i \in 1..n
      PROVE  /\ new[i] \in Pages
             /\ new[i].code = ps[i].code /\ new[i].rejected = ps[i].rejected
             /\ new[i].no = ps[i].no /\ new[i].paid = ps[i].paid
             /\ new[i].group = split[i].group /\ new[i].hold = split[i].hold
  <2> DEFINE g == split[i].group
             h == split[i].hold
             p == ps[i]
  <2>1. p \in Pages /\ g \in 0..MaxGroup /\ h \in Holds
    BY <1>2
  <2>2. new[i] = [p EXCEPT !.group = g, !.hold = h]
    BY <1>3
  <2> HIDE DEF g, h, p
  <2>3. /\ new[i] \in Pages
        /\ new[i].code = p.code /\ new[i].rejected = p.rejected
        /\ new[i].no = p.no /\ new[i].paid = p.paid
        /\ new[i].group = g /\ new[i].hold = h
    BY <2>1, <2>2 DEF Pages
  <2> QED BY <2>3 DEF g, h, p
<1>5. new \in [1..n -> Pages]
  BY <1>3, <1>4
<1>6. ASSUME NEW i \in 1..n
      PROVE  (new[i].group = 0 \/ new[i].hold = "none") /\ (Hidden(new[i]) <=> Hidden(ps[i]))
  BY <1>2, <1>4 DEF Hidden
<1> QED BY <1>4, <1>5, <1>6

\* Two values of a set of at most one are equal.
LEMMA OneAtMost ==
    ASSUME NEW S, IsFiniteSet(S), Cardinality(S) =< 1, NEW a \in S, NEW b \in S
    PROVE  a = b
<1> SUFFICES ASSUME a # b PROVE FALSE
  OBVIOUS
<1> DEFINE A == {a}
           B == A \cup {b}
<1>1. IsFiniteSet(A) /\ Cardinality(A) = 1 /\ b \notin A
  BY FS_Singleton
<1>2. B \in SUBSET S
  OBVIOUS
<1> HIDE DEF A
<1>3. Cardinality(B) = Cardinality(A) + 1
  BY <1>1, FS_AddElement, Zenon
<1> HIDE DEF B
<1>4. Cardinality(B) =< Cardinality(S) /\ Cardinality(S) \in Nat
  BY <1>2, FS_Subset, FS_CardinalityType
<1> QED BY <1>1, <1>3, <1>4

\* The pages of an invoice that a split makes were paid on one day.
LEMMA DayShared ==
    ASSUME NEW n \in Nat, NEW ps \in [1..n -> Pages], OneDay(ps), NEW i \in 1..n,
           ~Held(ps, i), NEW j \in Counted(ps, i), NEW k \in Counted(ps, i)
    PROVE  ps[j].paid = ps[k].paid
<1> DEFINE C == Counted(ps, i)
           S == {ps[x].paid : x \in C}
           f == [x \in C |-> ps[x].paid]
<1>1. IsFiniteSet(C)
  <2>1. IsFiniteSet(1..n)
    BY FS_Interval
  <2>2. C \in SUBSET (1..n)
    BY Mates
  <2> HIDE DEF C
  <2> QED BY <2>1, <2>2, FS_Subset
<1>2. f \in Surjection(C, S)
  BY DEF Surjection
<1>3. IsFiniteSet(S)
  BY <1>1, <1>2, FS_Surjection
<1>4. Cardinality(S) =< 1
  BY DEF OneDay
<1>5. ps[j].paid \in S /\ ps[k].paid \in S
  OBVIOUS
<1> HIDE DEF S
<1> QED BY <1>3, <1>4, <1>5, OneAtMost

\* What a split leaves: the pages with their codes, refusals and payments,
\* every issued invoice as it was, no number or payment in a box, and one
\* number on the pages of an invoice.
LEMMA DivideSo ==
    ASSUME IInv, NEW split \in Splits[Len(pages)], Divide(split)
    PROVE  /\ Len(pages') = Len(pages) /\ pages' \in [1..Len(pages) -> Pages]
           /\ \A i \in 1..Len(pages) :
                /\ pages'[i].code = pages[i].code /\ pages'[i].rejected = pages[i].rejected
                /\ pages'[i].group = 0 \/ pages'[i].hold = "none"
                /\ pages'[i].paid = pages[i].paid
                /\ Held(pages', i) => pages'[i].no = None /\ pages'[i].paid = None
                /\ pages[i].no # None =>
                     /\ InvoiceNumber(pages', i) = InvoiceNumber(pages, i)
                     /\ Counted(pages', i) = Counted(pages, i)
                /\ Grouped(pages', i) =>
                     \A j \in Together(pages', i) :
                        ~pages[i].rejected /\ ~pages[j].rejected => pages'[i].no = pages'[j].no
<1> DEFINE n == Len(pages)
           new == Marked(pages, split)
<1>0. n \in 1..MaxPages /\ n \in Nat /\ pages \in [1..n -> Pages] /\ DOMAIN pages = 1..n
  BY Shape DEF IInv
<1>1. Allowed(pages, new) /\ pages' = Merged(new)
  BY DEF Divide
<1>2. /\ new \in [1..n -> Pages]
      /\ \A i \in 1..n : /\ new[i].code = pages[i].code /\ new[i].rejected = pages[i].rejected
                         /\ new[i].no = pages[i].no /\ new[i].paid = pages[i].paid
                         /\ new[i].group = 0 \/ new[i].hold = "none"
                         /\ Hidden(new[i]) <=> Hidden(pages[i])
  BY <1>0, MarkedSo
<1> HIDE DEF n, new
<1>3. /\ pages' \in [1..n -> Pages] /\ SameMarks(new, pages')
      /\ \A i \in 1..n :
           /\ pages'[i].rejected = new[i].rejected
           /\ Counted(pages', i) = Counted(new, i)
           /\ IF Grouped(new, i) /\ i \in Counted(new, i)
              THEN pages'[i].no = NumberOf(new, i) /\ pages'[i].paid = PaidOf(new, i)
              ELSE pages'[i].no = new[i].no /\ pages'[i].paid = new[i].paid
  BY <1>0, <1>1, <1>2, MergedSo
<1>4. /\ DOMAIN new = 1..n /\ DOMAIN pages' = 1..n
      /\ \A i \in 1..n :
           /\ InvoiceNumber(pages', i) = InvoiceNumber(new, i)
           /\ Held(pages', i) <=> Held(new, i)
           /\ Grouped(pages', i) <=> Grouped(new, i)
           /\ Together(pages', i) = Together(new, i)
  BY <1>2, <1>3, SameInvoices
<1>5. Len(pages') = n
  BY <1>0, <1>3
<1>6. ASSUME NEW i \in 1..n PROVE pages'[i].paid = pages[i].paid
  <2>1. CASE Grouped(new, i) /\ i \in Counted(new, i)
    <3>1. ~Held(new, i) /\ OneDay(new)
      BY <1>1, <2>1 DEF Grouped, Held, Allowed
    <3>2. \A j \in Counted(new, i) : new[j].paid = new[i].paid
      BY <1>0, <1>2, <2>1, <3>1, DayShared
    <3>3. PaidOf(new, i) = new[i].paid
      BY <1>0, <1>2, <2>1, <3>2, OneDayGiven
    <3> QED BY <1>2, <1>3, <2>1, <3>3
  <2>2. CASE ~(Grouped(new, i) /\ i \in Counted(new, i))
    BY <1>2, <1>3, <2>2
  <2> QED BY <2>1, <2>2
<1>7. ASSUME NEW i \in 1..n, pages[i].no # None
      PROVE  /\ ~Held(pages, i)
             /\ InvoiceNumber(new, i) = InvoiceNumber(pages, i)
             /\ Counted(new, i) = Counted(pages, i)
  <2>1. ~Held(pages, i)
    BY <1>0, <1>7 DEF IInv, HeldIsIdle
  <2> QED BY <1>0, <1>1, <1>7, <2>1 DEF Allowed, IssuedKept
<1>8. ASSUME NEW i \in 1..n, Held(pages', i) PROVE pages'[i].no = None /\ pages'[i].paid = None
  <2>1. Held(new, i) /\ ~Grouped(new, i)
    BY <1>4, <1>8 DEF Held, Grouped
  <2>2. new[i].paid = None
    BY <1>1, <1>4, <2>1 DEF Allowed, PaidNotHeld
  <2>3. new[i].no = None
    <3> SUFFICES ASSUME pages[i].no # None PROVE FALSE
      BY <1>2
    <3>1. ~Held(pages, i) /\ InvoiceNumber(new, i) = InvoiceNumber(pages, i)
      BY <1>7
    <3>2. InvoiceNumber(new, i) = 0 /\ InvoiceNumber(pages, i) # 0
      BY <1>0, <1>2, <2>1, <3>1, Invoice
    <3> QED BY <3>1, <3>2
  <2> QED BY <1>3, <2>1, <2>2, <2>3
<1>9. ASSUME NEW i \in 1..n, Grouped(pages', i), NEW j \in Together(pages', i),
             ~pages[i].rejected, ~pages[j].rejected
      PROVE  pages'[i].no = pages'[j].no
  <2>1. i \in 1..n /\ j \in 1..n /\ j \in Together(new, i) /\ i \in Together(new, i)
    BY <1>4, <1>9, Mates
  <2>2. ~Hidden(new[i]) /\ ~Hidden(new[j])
    BY <1>2, <1>9, <2>1 DEF Hidden
  <2>3. i \in Counted(new, i) /\ j \in Counted(new, i) /\ Counted(new, j) = Counted(new, i)
    BY <1>4, <2>1, <2>2, Mates DEF Counted
  <2>4. Grouped(new, i) /\ Grouped(new, j)
    BY <1>4, <1>9, <2>1, Mates
  <2>5. pages'[i].no = NumberOf(new, i) /\ pages'[j].no = NumberOf(new, j)
    BY <1>3, <2>1, <2>3, <2>4
  <2> QED BY <2>3, <2>5 DEF NumberOf
<1>10. ASSUME NEW i \in 1..n
       PROVE  /\ pages'[i].code = pages[i].code /\ pages'[i].rejected = pages[i].rejected
              /\ pages'[i].group = 0 \/ pages'[i].hold = "none"
  BY <1>2, <1>3, <1>4 DEF SameMarks
<1> QED BY <1>3, <1>4, <1>5, <1>6, <1>7, <1>8, <1>9, <1>10 DEF n

-----------------------------------------------------------------------------
(***************************************************************************)
(* What the editor's save leaves.                                          *)
(***************************************************************************)

\* A page of the payload is one that was there, or the last is new.
Payload(carry, n) ==
    /\ carry \in [1..n -> 0..Len(pages)] /\ Len(carry) = n
    /\ \A j, k \in 1..n : carry[j] = carry[k] => j = k
    /\ \A k \in 1..n : carry[k] = 0 => k = n

LEMMA LenOf ==
    ASSUME NEW n \in Nat, NEW S, NEW f \in [1..n -> S]
    PROVE  Len(f) = n /\ DOMAIN f = 1..n
OBVIOUS

LEMMA AppendOf ==
    ASSUME NEW n \in Nat, NEW f \in [1..n -> 0..n]
    PROVE  /\ Append(f, 0) \in [1..(n + 1) -> 0..n] /\ Append(f, 0)[n + 1] = 0
           /\ \A k \in 1..n : Append(f, 0)[k] = f[k]
<1>1. f \in Seq(0..n) /\ Len(f) = n
  BY LenOf
<1> DEFINE S == 0..n
           g == Append(f, 0)
<1>2. f \in Seq(S) /\ 0 \in S
  BY <1>1
<1> HIDE DEF S
<1>3. /\ g \in Seq(S) /\ Len(g) = Len(f) + 1 /\ g[Len(f) + 1] = 0
      /\ \A k \in 1..Len(f) : g[k] = f[k]
  BY <1>2, AppendProperties
<1> HIDE DEF g
<1>4. g \in [1..Len(g) -> S]
  BY <1>3, LenProperties, Zenon
<1>5. /\ g \in [1..(n + 1) -> 0..n] /\ g[n + 1] = 0
      /\ \A k \in 1..n : g[k] = f[k]
  BY <1>1, <1>3, <1>4 DEF S
<1> QED BY <1>5 DEF g

LEMMA CarryIs ==
    ASSUME TypeOK, NEW carry \in Carries
    PROVE  \E n \in 1..MaxPages : Payload(carry, n)
<1> DEFINE m == Len(pages)
           same == [k \in DOMAIN pages |-> k]
           without(i) == [k \in 1..(m - 1) |-> IF k < i THEN k ELSE k + 1]
<1>0. m \in 1..MaxPages /\ m \in Nat /\ DOMAIN pages = 1..m
  BY Shape
<1>1. CASE carry = same
  <2>1. carry \in [1..m -> 0..m] /\ \A k \in 1..m : carry[k] = k
    BY <1>0, <1>1
  <2>2. Len(carry) = m
    BY <1>0, <2>1, LenOf
  <2>3. Payload(carry, m)
    <3>1. \A j, k \in 1..m : carry[j] = carry[k] => j = k
      BY <2>1
    <3>2. \A k \in 1..m : carry[k] # 0
      BY <1>0, <2>1
    <3> QED BY <2>1, <2>2, <3>1, <3>2 DEF Payload
  <2> QED BY <1>0, <2>3
<1>2. ASSUME m > 1, NEW i \in 1..m, carry = without(i) PROVE \E n \in 1..MaxPages : Payload(carry, n)
  <2>1. m - 1 \in 1..MaxPages
    BY <1>0, <1>2
  <2>2. \A k \in 1..(m - 1) : carry[k] = IF k < i THEN k ELSE k + 1
    BY <1>2
  <2>3. carry \in [1..(m - 1) -> 0..m]
    BY <1>0, <1>2
  <2> DEFINE n == m - 1
  <2>4. Len(carry) = n
    <3>1. n \in Nat /\ carry \in [1..n -> 0..m]
      BY <1>0, <2>1, <2>3
    <3> HIDE DEF n
    <3> QED BY <3>1, LenOf
  <2>5. Payload(carry, n)
    <3>1. \A j, k \in 1..n : carry[j] = carry[k] => j = k
      BY <1>0, <2>2
    <3>2. \A k \in 1..n : carry[k] # 0
      BY <1>0, <2>2
    <3> QED BY <2>3, <2>4, <3>1, <3>2 DEF Payload
  <2> QED BY <2>1, <2>5
<1>3. CASE m < MaxPages /\ carry = Append(same, 0)
  <2>1. same \in [1..m -> 0..m] /\ 0 \in 0..m /\ \A k \in 1..m : same[k] = k
    BY <1>0
  <2> DEFINE n == m + 1
  <2>2. n \in 1..MaxPages /\ n \in Nat /\ \A k \in 1..n : k \in 1..m \/ k = n
    BY <1>0, <1>3
  <2>3. /\ carry \in [1..n -> 0..m] /\ carry[n] = 0
        /\ \A k \in 1..m : carry[k] = k
    <3>1. m \in Nat /\ carry = Append(same, 0)
      BY <1>0, <1>3
    <3> HIDE DEF m, same
    <3>2. same \in [1..m -> 0..m]
      BY <2>1
    <3>3. /\ Append(same, 0) \in [1..(m + 1) -> 0..m] /\ Append(same, 0)[m + 1] = 0
          /\ \A k \in 1..m : Append(same, 0)[k] = same[k]
      BY <3>1, <3>2, AppendOf, Zenon
    <3> QED BY <2>1, <3>1, <3>3
  <2> HIDE DEF n
  <2>4. Len(carry) = n
    BY <2>2, <2>3, LenOf
  <2>5. Payload(carry, n)
    <3>1. \A k \in 1..n : carry[k] = 0 => k = n
      BY <1>0, <2>2, <2>3
    <3>2. \A j, k \in 1..n : carry[j] = carry[k] => j = k
      BY <1>0, <2>2, <2>3
    <3> QED BY <2>3, <2>4, <3>1, <3>2 DEF Payload
  <2> QED BY <2>2, <2>5
<1>4. \/ carry = same
      \/ m > 1 /\ \E i \in 1..m : carry = without(i)
      \/ m < MaxPages /\ carry = Append(same, 0)
  BY <1>0 DEF Carries
<1> HIDE DEF same, without, m
<1> QED BY <1>1, <1>2, <1>3, <1>4

\* What a save writes: the carried pages with all but their codes, and an
\* empty new page behind the codes given so far.
Saved(carry, renumber, n) ==
    /\ n \in 1..MaxPages /\ carry \in [1..n -> 0..Len(pages)]
    /\ \A j, k \in 1..n : carry[j] = carry[k] => j = k
    /\ pages' \in [1..n -> Pages] /\ Len(pages') = n /\ DOMAIN pages' = 1..n
    /\ \A k \in 1..n : IF carry[k] # 0
         THEN LET p == pages[carry[k]] IN
              /\ pages'[k].group = p.group /\ pages'[k].hold = p.hold /\ pages'[k].no = p.no
              /\ pages'[k].paid = p.paid /\ pages'[k].rejected = p.rejected
              /\ ~renumber => pages'[k].code = p.code
         ELSE /\ pages'[k].group = 0 /\ pages'[k].hold = "none" /\ pages'[k].no = None
              /\ pages'[k].paid = None /\ pages'[k].rejected = FALSE
              /\ ~renumber => pages'[k].code = seq + 1
    /\ \A k \in 1..n : pages'[k].code =< seq'
    /\ \A j, k \in 1..n : pages'[j].code = pages'[k].code => j = k
    /\ renumber => \A i \in 1..Len(pages) : pages[i].no = None /\ pages[i].paid = None

LEMMA SaveSo ==
    ASSUME TypeOK, NEW carry \in Carries, NEW renumber \in BOOLEAN, Save(carry, renumber)
    PROVE  (\E n \in 1..MaxPages : Saved(carry, renumber, n)) /\ seq' \in 0..MaxCode
<1>1. PICK n \in 1..MaxPages : Payload(carry, n)
  BY CarryIs
<1> DEFINE m == Len(pages)
           code(k) == IF renumber THEN k ELSE CodeOf(carry, k)
           fresh == Cardinality({k \in DOMAIN carry : carry[k] = 0})
<1>2. /\ n \in Nat /\ m \in Nat /\ carry \in [1..n -> 0..m] /\ Len(carry) = n /\ DOMAIN carry = 1..n
      /\ \A j, k \in 1..n : carry[j] = carry[k] => j = k
      /\ \A k \in 1..n : carry[k] = 0 => k = n
      /\ pages \in [1..m -> Pages] /\ DOMAIN pages = 1..m
  BY <1>1, Shape DEF Payload
<1>3. /\ seq \in 0..MaxCode
      /\ \A i \in 1..m : pages[i].code =< seq /\ pages[i].code \in 1..MaxCode
      /\ \A i, j \in 1..m : pages[i].code = pages[j].code => i = j
  BY <1>2 DEF TypeOK, Pages
<1>4. /\ pages' = [k \in 1..n |-> Carried(carry, k, code(k))]
      /\ seq' = (IF renumber THEN n ELSE seq + fresh) /\ seq' =< MaxCode
  BY <1>2 DEF Save
<1>5. \A k \in 1..n : carry[k] = 0 => Cardinality({j \in 1..k : carry[j] = 0}) = 1 /\ fresh = 1
  <2> SUFFICES ASSUME NEW k \in 1..n, carry[k] = 0
               PROVE  Cardinality({j \in 1..k : carry[j] = 0}) = 1 /\ fresh = 1
    OBVIOUS
  <2>1. k = n
    BY <1>2
  <2>2. {j \in 1..k : carry[j] = 0} = {n} /\ {j \in DOMAIN carry : carry[j] = 0} = {n}
    BY <1>2, <2>1
  <2> QED BY <2>2, FS_Singleton
<1>6. fresh \in {0, 1}
  <2>1. CASE \E k \in 1..n : carry[k] = 0
    BY <1>5, <2>1
  <2>2. CASE ~\E k \in 1..n : carry[k] = 0
    <3>1. {k \in DOMAIN carry : carry[k] = 0} = {}
      BY <1>2, <2>2
    <3> QED BY <3>1, FS_EmptySet
  <2> QED BY <2>1, <2>2
<1> HIDE DEF fresh
<1>7. seq' \in Nat /\ seq' \in 0..MaxCode
  BY <1>2, <1>3, <1>4, <1>6
<1>8. ASSUME NEW k \in 1..n
      PROVE  /\ code(k) \in 1..MaxCode /\ code(k) =< seq'
             /\ ~renumber => code(k) = IF carry[k] # 0 THEN pages[carry[k]].code ELSE seq + 1
             /\ renumber => code(k) = k
  <2>1. CASE renumber
    BY <1>2, <1>4, <1>7, <2>1
  <2>2. CASE ~renumber /\ carry[k] # 0
    BY <1>2, <1>3, <1>4, <1>6, <2>2 DEF CodeOf
  <2>3. CASE ~renumber /\ carry[k] = 0
    <3>1. code(k) = seq + 1 /\ seq' = seq + 1
      BY <1>4, <1>5, <2>3 DEF CodeOf
    <3> QED BY <1>3, <1>7, <2>3, <3>1
  <2> QED BY <2>1, <2>2, <2>3
<1>9. \A j, k \in 1..n : code(j) = code(k) => j = k
  <2> SUFFICES ASSUME NEW j \in 1..n, NEW k \in 1..n, code(j) = code(k), ~renumber PROVE j = k
    BY <1>8
  <2>4. seq \in Nat
    BY <1>3
  <2> HIDE DEF code
  <2>0. \A i \in 1..n : carry[i] # 0 => carry[i] \in 1..m
    BY <1>2
  <2>1. carry[j] # 0 => carry[j] \in 1..m /\ code(j) =< seq
    BY <1>3, <1>8, <2>0
  <2>2. carry[k] # 0 => carry[k] \in 1..m /\ code(k) =< seq
    BY <1>3, <1>8, <2>0
  <2>3. carry[j] = carry[k]
    <3>1. CASE carry[j] # 0 /\ carry[k] # 0
      BY <1>3, <1>8, <2>1, <2>2, <3>1
    <3>2. CASE carry[j] = 0 \/ carry[k] = 0
      BY <1>8, <2>1, <2>2, <2>4, <3>2
    <3> QED BY <3>1, <3>2
  <2> QED BY <1>2, <2>3
<1> HIDE DEF code
<1>10. ASSUME NEW k \in 1..n
       PROVE  /\ pages'[k] \in Pages /\ pages'[k].code = code(k)
              /\ IF carry[k] # 0
                 THEN LET p == pages[carry[k]] IN
                      /\ pages'[k].group = p.group /\ pages'[k].hold = p.hold
                      /\ pages'[k].no = p.no /\ pages'[k].paid = p.paid
                      /\ pages'[k].rejected = p.rejected
                 ELSE /\ pages'[k].group = 0 /\ pages'[k].hold = "none" /\ pages'[k].no = None
                      /\ pages'[k].paid = None /\ pages'[k].rejected = FALSE
  <2>1. code(k) \in 1..MaxCode /\ pages'[k] = Carried(carry, k, code(k))
    BY <1>4, <1>8
  <2>2. CASE carry[k] # 0
    <3>1. pages[carry[k]] \in Pages /\ pages'[k] = [pages[carry[k]] EXCEPT !.code = code(k)]
      BY <1>2, <2>1, <2>2 DEF Carried
    <3> QED BY <2>1, <2>2, <3>1 DEF Pages
  <2>3. CASE carry[k] = 0
    <3>1. pages'[k] = NewPage(code(k))
      BY <2>1, <2>3 DEF Carried
    <3> QED BY <2>1, <2>3, <3>1 DEF NewPage, Pages, Holds
  <2> QED BY <2>2, <2>3
<1>11. pages' \in [1..n -> Pages] /\ DOMAIN pages' = 1..n
  BY <1>4, <1>10
<1>12. Len(pages') = n
  BY <1>2, <1>11
<1>13. renumber => \A i \in 1..m : pages[i].no = None /\ pages[i].paid = None
  BY <1>2 DEF Save, MayRenumber
<1>14. \A k \in 1..n : IF carry[k] # 0
         THEN LET p == pages[carry[k]] IN
              /\ pages'[k].group = p.group /\ pages'[k].hold = p.hold /\ pages'[k].no = p.no
              /\ pages'[k].paid = p.paid /\ pages'[k].rejected = p.rejected
              /\ ~renumber => pages'[k].code = p.code
         ELSE /\ pages'[k].group = 0 /\ pages'[k].hold = "none" /\ pages'[k].no = None
              /\ pages'[k].paid = None /\ pages'[k].rejected = FALSE
              /\ ~renumber => pages'[k].code = seq + 1
  BY <1>8, <1>10
<1>15. /\ \A k \in 1..n : pages'[k].code =< seq'
       /\ \A j, k \in 1..n : pages'[j].code = pages'[k].code => j = k
  <2>1. \A k \in 1..n : pages'[k].code = code(k) /\ code(k) =< seq'
    BY <1>8, <1>10
  <2> QED BY <1>9, <2>1
<1>16. Saved(carry, renumber, n)
  BY <1>2, <1>11, <1>12, <1>13, <1>14, <1>15, Zenon DEF Saved
<1> QED BY <1>7, <1>16

-----------------------------------------------------------------------------
(***************************************************************************)
(* What the other writers leave.                                           *)
(***************************************************************************)

\* One field of some pages is written.
WroteNumber(S, n) ==
    /\ pages' \in [1..Len(pages) -> Pages] /\ SameMarks(pages, pages')
    /\ \A j \in 1..Len(pages) :
          /\ pages'[j].rejected = pages[j].rejected /\ pages'[j].paid = pages[j].paid
          /\ pages'[j].no = IF j \in S THEN n ELSE pages[j].no
    /\ UNCHANGED <<seq, status, editor>>
WrotePaid(S, d) ==
    /\ pages' \in [1..Len(pages) -> Pages] /\ SameMarks(pages, pages')
    /\ \A j \in 1..Len(pages) :
          /\ pages'[j].rejected = pages[j].rejected /\ pages'[j].no = pages[j].no
          /\ pages'[j].paid = IF j \in S THEN d ELSE pages[j].paid
    /\ UNCHANGED <<seq, status, editor>>
WroteRejected ==
    /\ pages' \in [1..Len(pages) -> Pages] /\ SameMarks(pages, pages')
    /\ \A j \in 1..Len(pages) :
          pages'[j].no = pages[j].no /\ pages'[j].paid = pages[j].paid
    /\ UNCHANGED <<seq, status, editor>>

LEMMA NumberSo ==
    ASSUME TypeOK, NEW S, NEW n \in Numbers \cup {None}, UNCHANGED <<seq, status, editor>>,
           pages' = [j \in DOMAIN pages |->
                       IF j \in S THEN [pages[j] EXCEPT !.no = n] ELSE pages[j]]
    PROVE  WroteNumber(S, n)
<1>1. pages \in [1..Len(pages) -> Pages] /\ DOMAIN pages = 1..Len(pages)
  BY Shape
<1>2. ASSUME NEW j \in 1..Len(pages)
      PROVE  /\ pages'[j] \in Pages
             /\ pages'[j].rejected = pages[j].rejected /\ pages'[j].paid = pages[j].paid
             /\ pages'[j].no = IF j \in S THEN n ELSE pages[j].no
             /\ pages'[j].code = pages[j].code /\ pages'[j].group = pages[j].group
             /\ pages'[j].hold = pages[j].hold
  <2> DEFINE p == pages[j]
  <2>1. p \in Pages /\ pages'[j] = IF j \in S THEN [p EXCEPT !.no = n] ELSE p
    BY <1>1
  <2> HIDE DEF p
  <2>2. /\ pages'[j] \in Pages /\ pages'[j].rejected = p.rejected /\ pages'[j].paid = p.paid
        /\ pages'[j].no = IF j \in S THEN n ELSE p.no
        /\ pages'[j].code = p.code /\ pages'[j].group = p.group /\ pages'[j].hold = p.hold
    BY <2>1 DEF Pages
  <2> QED BY <2>2 DEF p
<1>3. pages' \in [1..Len(pages) -> Pages] /\ SameMarks(pages, pages')
  <2>1. DOMAIN pages' = 1..Len(pages) /\ pages' = [j \in 1..Len(pages) |-> pages'[j]]
    BY <1>1
  <2> QED BY <1>1, <1>2, <2>1 DEF SameMarks
<1> QED BY <1>2, <1>3 DEF WroteNumber

LEMMA PaidSo ==
    ASSUME TypeOK, NEW S, NEW d \in Days \cup {None}, UNCHANGED <<seq, status, editor>>,
           pages' = [j \in DOMAIN pages |->
                       IF j \in S THEN [pages[j] EXCEPT !.paid = d] ELSE pages[j]]
    PROVE  WrotePaid(S, d)
<1>1. pages \in [1..Len(pages) -> Pages] /\ DOMAIN pages = 1..Len(pages)
  BY Shape
<1>2. ASSUME NEW j \in 1..Len(pages)
      PROVE  /\ pages'[j] \in Pages
             /\ pages'[j].rejected = pages[j].rejected /\ pages'[j].no = pages[j].no
             /\ pages'[j].paid = IF j \in S THEN d ELSE pages[j].paid
             /\ pages'[j].code = pages[j].code /\ pages'[j].group = pages[j].group
             /\ pages'[j].hold = pages[j].hold
  <2> DEFINE p == pages[j]
  <2>1. p \in Pages /\ pages'[j] = IF j \in S THEN [p EXCEPT !.paid = d] ELSE p
    BY <1>1
  <2> HIDE DEF p
  <2>2. /\ pages'[j] \in Pages /\ pages'[j].rejected = p.rejected /\ pages'[j].no = p.no
        /\ pages'[j].paid = IF j \in S THEN d ELSE p.paid
        /\ pages'[j].code = p.code /\ pages'[j].group = p.group /\ pages'[j].hold = p.hold
    BY <2>1 DEF Pages
  <2> QED BY <2>2 DEF p
<1>3. pages' \in [1..Len(pages) -> Pages] /\ SameMarks(pages, pages')
  <2>1. DOMAIN pages' = 1..Len(pages) /\ pages' = [j \in 1..Len(pages) |-> pages'[j]]
    BY <1>1
  <2> QED BY <1>1, <1>2, <2>1 DEF SameMarks
<1> QED BY <1>2, <1>3 DEF WrotePaid

LEMMA DecideSo ==
    ASSUME TypeOK, NEW i \in DOMAIN pages, NEW r \in BOOLEAN, Decide(i, r)
    PROVE  WroteRejected
<1>1. pages \in [1..Len(pages) -> Pages] /\ DOMAIN pages = 1..Len(pages)
  BY Shape
<1>2. ASSUME NEW j \in 1..Len(pages)
      PROVE  /\ pages'[j] \in Pages
             /\ pages'[j].no = pages[j].no /\ pages'[j].paid = pages[j].paid
             /\ pages'[j].code = pages[j].code /\ pages'[j].group = pages[j].group
             /\ pages'[j].hold = pages[j].hold
  <2> DEFINE p == pages[j]
  <2>1. p \in Pages /\ pages'[j] = IF j = i THEN [p EXCEPT !.rejected = r] ELSE p
    BY <1>1 DEF Decide
  <2> HIDE DEF p
  <2>2. /\ pages'[j] \in Pages /\ pages'[j].no = p.no /\ pages'[j].paid = p.paid
        /\ pages'[j].code = p.code /\ pages'[j].group = p.group /\ pages'[j].hold = p.hold
    BY <2>1 DEF Pages
  <2> QED BY <2>2 DEF p
<1>3. pages' \in [1..Len(pages) -> Pages] /\ SameMarks(pages, pages')
  <2>1. DOMAIN pages' = 1..Len(pages) /\ pages' = [j \in 1..Len(pages) |-> pages'[j]]
    BY <1>1 DEF Decide
  <2> QED BY <1>1, <1>2, <2>1 DEF SameMarks
<1> QED BY <1>2, <1>3 DEF WroteRejected, Decide

\* The ways a step goes.
LEMMA NextIs ==
    ASSUME TypeOK, [Next]_vars
    PROVE  \/ \E split \in Splits[Len(pages)] :
                 Divide(split) /\ status' = Closed /\ UNCHANGED <<seq, editor>>
           \/ /\ UNCHANGED <<pages, seq>> /\ status' \in {status, Closed}
              /\ editor' \in Editors
           \/ \E i \in DOMAIN pages, n \in Numbers \cup {None} :
                 WriteNumber(i, n) /\ WroteNumber(Recipients(i), n) /\ ~Held(pages, i)
           \/ \E i \in DOMAIN pages, d \in Days \cup {None} :
                 WritePaid(i, d) /\ WrotePaid(Recipients(i), d) /\ ~Held(pages, i)
           \/ \E i \in DOMAIN pages : Redo(i) /\ WroteNumber(Together(pages, i), None)
           \/ ~Invoiced /\ WroteRejected
           \/ \E carry \in Carries, renumber \in BOOLEAN, n \in 1..MaxPages :
                 Save(carry, renumber) /\ Saved(carry, renumber, n) /\ seq' \in 0..MaxCode
<1>1. ASSUME NEW split \in Splits[Len(pages)], Split(split)
      PROVE  Divide(split) /\ status' = Closed /\ UNCHANGED <<seq, editor>>
  BY <1>1 DEF Split
<1>2. CASE Close
  BY <1>2 DEF Close, TypeOK
<1>3. ASSUME NEW i \in DOMAIN pages, NEW n \in Numbers \cup {None}, WriteNumber(i, n)
      PROVE  WroteNumber(Recipients(i), n) /\ ~Held(pages, i)
  BY <1>3, NumberSo DEF WriteNumber
<1>4. ASSUME NEW i \in DOMAIN pages, NEW d \in Days \cup {None}, WritePaid(i, d)
      PROVE  WrotePaid(Recipients(i), d) /\ ~Held(pages, i)
  BY <1>4, PaidSo DEF WritePaid
<1>5. ASSUME NEW i \in DOMAIN pages, Redo(i) PROVE WroteNumber(Together(pages, i), None)
  BY <1>5, NumberSo DEF Redo
<1>6. ASSUME NEW i \in DOMAIN pages, NEW r \in BOOLEAN, Decide(i, r)
      PROVE  ~Invoiced /\ WroteRejected
  <2>1. WroteRejected
    BY <1>6, DecideSo
  <2> QED BY <1>6, <2>1 DEF Decide
<1>7. CASE OpenSave
  BY <1>7 DEF OpenSave, Editors
<1>8. ASSUME NEW carry \in Carries, NEW renumber \in BOOLEAN, Save(carry, renumber)
      PROVE  \E n \in 1..MaxPages : Saved(carry, renumber, n) /\ seq' \in 0..MaxCode
  BY <1>8, SaveSo
<1>9. CASE UNCHANGED vars
  BY <1>9 DEF vars, TypeOK
<1> QED BY <1>1, <1>2, <1>3, <1>4, <1>5, <1>6, <1>7, <1>8, <1>9 DEF Next, Saves

-----------------------------------------------------------------------------
(***************************************************************************)
(* The invariant is kept.                                                  *)
(***************************************************************************)

\* The pages that are rewritten in their places keep their codes apart.
LEMMA TypedInPlace ==
    ASSUME TypeOK, pages' \in [1..Len(pages) -> Pages], UNCHANGED seq,
           \A i \in 1..Len(pages) : /\ pages'[i].code = pages[i].code
                                    /\ pages'[i].group = 0 \/ pages'[i].hold = "none",
           status' \in Statuses, editor' \in Editors
    PROVE  TypeOK'
<1> DEFINE n == Len(pages)
<1>1. n \in 1..MaxPages /\ n \in Nat /\ DOMAIN pages = 1..n
  BY Shape
<1>2. /\ \A i, j \in 1..n : pages[i].code = pages[j].code => i = j
      /\ \A i \in 1..n : pages[i].code =< seq
      /\ seq \in 0..MaxCode
  BY <1>1 DEF TypeOK
<1> HIDE DEF n
<1>3. pages' \in [1..n -> Pages] /\ Len(pages') = n /\ DOMAIN pages' = 1..n
  <2>1. pages' \in [1..n -> Pages]
    BY DEF n
  <2> QED BY <1>1, <2>1, LenOf
<1>4. pages' \in Seq(Pages)
  BY <1>1, <1>3
<1>5. /\ \A i, j \in 1..n : pages'[i].code = pages'[j].code => i = j
      /\ \A i \in 1..n : pages'[i].code =< seq /\ (pages'[i].group = 0 \/ pages'[i].hold = "none")
  BY <1>2 DEF n
<1> QED BY <1>1, <1>2, <1>3, <1>4, <1>5 DEF TypeOK

\* The same, when the marks are the same too.
LEMMA TypedAlike ==
    ASSUME TypeOK, pages' \in [1..Len(pages) -> Pages], SameMarks(pages, pages'),
           UNCHANGED <<seq, status, editor>>
    PROVE  TypeOK'
<1>1. \A i \in 1..Len(pages) : /\ pages'[i].code = pages[i].code
                               /\ pages'[i].group = 0 \/ pages'[i].hold = "none"
  BY DEF TypeOK, SameMarks
<1> QED BY <1>1, TypedInPlace DEF TypeOK

LEMMA TypeKept == ASSUME IInv, [Next]_vars PROVE TypeOK'
<1>0. TypeOK
  BY DEF IInv
<1>1. ASSUME NEW split \in Splits[Len(pages)], Divide(split), status' = Closed,
             UNCHANGED <<seq, editor>>
      PROVE  TypeOK'
  <2>1. pages' \in [1..Len(pages) -> Pages] /\ \A i \in 1..Len(pages) :
           pages'[i].code = pages[i].code /\ (pages'[i].group = 0 \/ pages'[i].hold = "none")
    BY <1>1, DivideSo
  <2>2. status' \in Statuses /\ editor' \in Editors
    BY <1>0, <1>1 DEF TypeOK, Statuses, Closed
  <2> QED BY <1>0, <1>1, <2>1, <2>2, TypedInPlace
<1>2. ASSUME UNCHANGED <<pages, seq>>, status' \in {status, Closed}, editor' \in Editors
      PROVE  TypeOK'
  BY <1>0, <1>2 DEF TypeOK, Statuses, Closed
<1>3. ASSUME NEW S, NEW n, WroteNumber(S, n) PROVE TypeOK'
  BY <1>0, <1>3, TypedAlike DEF WroteNumber
<1>4. ASSUME NEW S, NEW d, WrotePaid(S, d) PROVE TypeOK'
  BY <1>0, <1>4, TypedAlike DEF WrotePaid
<1>5. CASE WroteRejected
  BY <1>0, <1>5, TypedAlike DEF WroteRejected
<1>6. ASSUME NEW carry \in Carries, NEW renumber \in BOOLEAN, NEW n \in 1..MaxPages,
             Save(carry, renumber), Saved(carry, renumber, n), seq' \in 0..MaxCode
      PROVE  TypeOK'
  <2>1. /\ n \in Nat /\ pages' \in [1..n -> Pages] /\ Len(pages') = n /\ DOMAIN pages' = 1..n
        /\ \A k \in 1..n : pages'[k].code =< seq'
        /\ \A j, k \in 1..n : pages'[j].code = pages'[k].code => j = k
    BY <1>6 DEF Saved
  <2>2. pages' \in Seq(Pages)
    BY <2>1
  <2>3. ASSUME NEW k \in 1..n PROVE pages'[k].group = 0 \/ pages'[k].hold = "none"
    <3>1. CASE carry[k] = 0
      BY <1>6, <3>1 DEF Saved
    <3>2. CASE carry[k] # 0
      <4>1. carry[k] \in 1..Len(pages)
        BY <1>0, <1>6, <3>2, Shape DEF Saved
      <4>2. pages[carry[k]].group = 0 \/ pages[carry[k]].hold = "none"
        BY <1>0, <4>1, Shape DEF TypeOK
      <4> QED BY <1>6, <3>2, <4>2 DEF Saved
    <3> QED BY <3>1, <3>2
  <2>4. status' \in Statuses /\ editor' \in Editors
    BY <1>0, <1>6 DEF Save, TypeOK, Statuses, Editors
  <2> QED BY <1>6, <2>1, <2>2, <2>3, <2>4 DEF TypeOK
<1> QED BY <1>0, <1>1, <1>2, <1>3, <1>4, <1>5, <1>6, NextIs

\* A carried page is held, grouped and numbered as it was, while the quote is
\* split; no save splits a quote.
LEMMA CarriedIs ==
    ASSUME TypeOK, NEW carry, NEW renumber \in BOOLEAN, NEW n \in Nat, Saved(carry, renumber, n),
           NEW k \in 1..n
    PROVE  /\ IsSplit(pages') => IsSplit(pages)
           /\ carry[k] = 0 => ~Grouped(pages', k)
           /\ carry[k] # 0 =>
                /\ carry[k] \in 1..Len(pages)
                /\ Held(pages', k) => Held(pages, carry[k])
                /\ Grouped(pages', k) => Grouped(pages, carry[k])
<1>0. /\ Len(pages) \in Nat /\ pages \in [1..Len(pages) -> Pages] /\ DOMAIN pages = 1..Len(pages)
      /\ pages' \in [1..n -> Pages] /\ DOMAIN pages' = 1..n /\ carry \in [1..n -> 0..Len(pages)]
  BY Shape DEF Saved
<1>1. \A j \in 1..n : carry[j] # 0 => carry[j] \in 1..Len(pages)
  BY <1>0
<1>2. ASSUME IsSplit(pages') PROVE IsSplit(pages)
  <2>1. PICK j \in 1..n : pages'[j].group # 0 \/ pages'[j].hold # "none"
    BY <1>0, <1>2 DEF IsSplit
  <2>2. carry[j] # 0
    BY <2>1 DEF Saved
  <2>3. pages[carry[j]].group # 0 \/ pages[carry[j]].hold # "none"
    BY <2>1, <2>2 DEF Saved
  <2> QED BY <1>0, <1>1, <2>2, <2>3 DEF IsSplit
<1>3. /\ Held(pages', k) <=> IsSplit(pages') /\ (pages'[k].hold # "none" \/ pages'[k].group = 0)
      /\ Grouped(pages', k) <=> IsSplit(pages') /\ pages'[k].hold = "none" /\ pages'[k].group # 0
  BY <1>0, Invoice
<1>4. CASE carry[k] = 0
  BY <1>2, <1>3, <1>4 DEF Saved
<1>5. CASE carry[k] # 0
  <2> DEFINE i == carry[k]
  <2>1. i \in 1..Len(pages)
    BY <1>1, <1>5
  <2> HIDE DEF i
  <2>2. /\ Held(pages, i) <=> IsSplit(pages) /\ (pages[i].hold # "none" \/ pages[i].group = 0)
        /\ Grouped(pages, i) <=> IsSplit(pages) /\ pages[i].hold = "none" /\ pages[i].group # 0
    BY <1>0, <2>1, Invoice
  <2>3. pages'[k].hold = pages[i].hold /\ pages'[k].group = pages[i].group
    BY <1>5 DEF Saved, i
  <2> QED BY <1>2, <1>3, <1>5, <2>1, <2>2, <2>3 DEF i
<1> QED BY <1>2, <1>4, <1>5

LEMMA HeldKept == ASSUME IInv, [Next]_vars PROVE HeldIsIdle'
<1> DEFINE n == Len(pages)
<1>0. /\ TypeOK /\ n \in Nat /\ pages \in [1..n -> Pages] /\ DOMAIN pages = 1..n
      /\ \A i \in 1..n : Held(pages, i) => pages[i].no = None /\ pages[i].paid = None
  BY Shape DEF IInv, HeldIsIdle
<1> HIDE DEF n
<1>1. ASSUME NEW split \in Splits[Len(pages)], Divide(split) PROVE HeldIsIdle'
  <2>1. /\ DOMAIN pages' = 1..Len(pages)
        /\ \A i \in 1..Len(pages) : Held(pages', i) => pages'[i].no = None /\ pages'[i].paid = None
    BY <1>1, DivideSo
  <2> QED BY <2>1 DEF HeldIsIdle
<1>2. ASSUME UNCHANGED pages PROVE HeldIsIdle'
  BY <1>2 DEF IInv, HeldIsIdle
<1>3. ASSUME pages' \in [1..n -> Pages], SameMarks(pages, pages'),
             \A j \in 1..n : Held(pages, j) => /\ pages'[j].no \in {pages[j].no, None}
                                               /\ pages'[j].paid \in {pages[j].paid, None}
      PROVE  HeldIsIdle'
  <2>1. DOMAIN pages' = 1..n /\ \A j \in 1..n : Held(pages', j) <=> Held(pages, j)
    BY <1>0, <1>3, SameInvoices
  <2> QED BY <1>0, <1>3, <2>1 DEF HeldIsIdle
<1>4. ASSUME NEW i \in 1..n, ~Held(pages, i)
      PROVE  \A j \in Recipients(i) : ~Held(pages, j)
  BY <1>0, <1>4, Mates DEF Recipients
<1>5. ASSUME NEW i \in 1..n, ~Held(pages, i), NEW v, WroteNumber(Recipients(i), v)
      PROVE  HeldIsIdle'
  BY <1>3, <1>4, <1>5 DEF WroteNumber, n
<1>6. ASSUME NEW i \in 1..n, ~Held(pages, i), NEW d, WrotePaid(Recipients(i), d)
      PROVE  HeldIsIdle'
  BY <1>3, <1>4, <1>6 DEF WrotePaid, n
<1>7. ASSUME NEW S, WroteNumber(S, None) PROVE HeldIsIdle'
  BY <1>3, <1>7 DEF WroteNumber, n
<1>8. ASSUME WroteRejected PROVE HeldIsIdle'
  BY <1>3, <1>8 DEF WroteRejected, n
<1>9. ASSUME NEW carry, NEW renumber \in BOOLEAN, NEW m \in 1..MaxPages, Saved(carry, renumber, m)
      PROVE  HeldIsIdle'
  <2> SUFFICES ASSUME NEW k \in 1..m, Held(pages', k)
               PROVE  pages'[k].no = None /\ pages'[k].paid = None
    BY <1>9 DEF Saved, HeldIsIdle
  <2>1. CASE carry[k] = 0
    BY <1>9, <2>1 DEF Saved
  <2>2. CASE carry[k] # 0
    <3>1. carry[k] \in 1..n /\ Held(pages, carry[k])
      BY <1>0, <1>9, <2>2, CarriedIs DEF n
    <3>2. pages[carry[k]].no = None /\ pages[carry[k]].paid = None
      BY <1>0, <3>1
    <3> QED BY <1>9, <2>2, <3>2 DEF Saved
  <2> QED BY <2>1, <2>2
<1> QED BY <1>0, <1>1, <1>2, <1>5, <1>6, <1>7, <1>8, <1>9, NextIs

\* Pages that share a number before, and are written alike, share one after.
LEMMA SharedKept == ASSUME IInv, TypeOK', [Next]_vars PROVE NumberShared'
<1> DEFINE n == Len(pages)
<1>0. /\ TypeOK /\ n \in Nat /\ pages \in [1..n -> Pages] /\ DOMAIN pages = 1..n
      /\ \A i, j \in 1..n : /\ Grouped(pages, i) /\ j \in Together(pages, i)
                            /\ ~pages[i].rejected /\ ~pages[j].rejected
                            => pages[i].no = pages[j].no
  BY Shape DEF IInv, NumberShared
<1> HIDE DEF n
<1>1. ASSUME NEW split \in Splits[Len(pages)], Divide(split) PROVE NumberShared'
  <2>1. /\ DOMAIN pages' = 1..n
        /\ \A i \in 1..n : pages'[i].rejected = pages[i].rejected
        /\ \A i \in 1..n : Grouped(pages', i) =>
              \A j \in Together(pages', i) :
                 ~pages[i].rejected /\ ~pages[j].rejected => pages'[i].no = pages'[j].no
    BY <1>1, DivideSo DEF n
  <2> QED BY <2>1 DEF NumberShared
<1>2. ASSUME UNCHANGED pages PROVE NumberShared'
  BY <1>2 DEF IInv, NumberShared
<1>3. ASSUME pages' \in [1..n -> Pages], SameMarks(pages, pages'),
             \A i, j \in 1..n :
                Grouped(pages, i) /\ Grouped(pages, j) /\ j \in Together(pages, i)
                /\ ~pages'[i].rejected /\ ~pages'[j].rejected => pages'[i].no = pages'[j].no
      PROVE  NumberShared'
  <2>1. /\ DOMAIN pages' = 1..n
        /\ \A i \in 1..n : /\ Grouped(pages', i) <=> Grouped(pages, i)
                           /\ Together(pages', i) = Together(pages, i)
    BY <1>0, <1>3, SameInvoices
  <2>2. \A i, j \in 1..n : Grouped(pages, i) /\ j \in Together(pages, i) => Grouped(pages, j)
    BY <1>0, Mates
  <2> QED BY <1>3, <2>1, <2>2 DEF NumberShared
<1>4. ASSUME NEW S, NEW v, WroteNumber(S, v),
             \A i, j \in 1..n :
                Grouped(pages, i) /\ Grouped(pages, j) /\ j \in Together(pages, i)
                /\ ~pages[i].rejected /\ ~pages[j].rejected => (i \in S <=> j \in S)
      PROVE  NumberShared'
  <2>1. /\ pages' \in [1..n -> Pages] /\ SameMarks(pages, pages')
        /\ \A j \in 1..n : /\ pages'[j].rejected = pages[j].rejected
                           /\ pages'[j].no = IF j \in S THEN v ELSE pages[j].no
    BY <1>4 DEF WroteNumber, n
  <2>2. \A i, j \in 1..n :
                Grouped(pages, i) /\ Grouped(pages, j) /\ j \in Together(pages, i)
                /\ ~pages'[i].rejected /\ ~pages'[j].rejected => pages'[i].no = pages'[j].no
    BY <1>0, <1>4, <2>1
  <2> QED BY <1>3, <2>1, <2>2
<1>5. ASSUME NEW i \in 1..n, NEW v, WroteNumber(Recipients(i), v) PROVE NumberShared'
  <2> SUFFICES ASSUME NEW a \in 1..n, NEW b \in 1..n, Grouped(pages, a), Grouped(pages, b),
                      b \in Together(pages, a), ~pages[a].rejected, ~pages[b].rejected
               PROVE  a \in Recipients(i) <=> b \in Recipients(i)
    BY <1>4, <1>5
  <2>1. a \in Together(pages, b) /\ Together(pages, a) = Together(pages, b)
    BY <1>0, Mates
  <2>2. a \in Together(pages, i) <=> b \in Together(pages, i)
    BY <1>0, <2>1, Mates
  <2>3. i \in Together(pages, i) /\ (i \in {a, b} => Grouped(pages, i))
    BY <1>0, Mates
  <2>4. a \in Together(pages, i) => (Grouped(pages, a) <=> Grouped(pages, i))
    BY <1>0, Mates
  <2> QED BY <2>2, <2>3, <2>4 DEF Recipients
<1>6. ASSUME NEW S, NEW d, WrotePaid(S, d) PROVE NumberShared'
  <2>1. /\ pages' \in [1..n -> Pages] /\ SameMarks(pages, pages')
        /\ \A j \in 1..n : pages'[j].rejected = pages[j].rejected /\ pages'[j].no = pages[j].no
    BY <1>6 DEF WrotePaid, n
  <2> QED BY <1>0, <1>3, <2>1
<1>7. ASSUME NEW i \in 1..n, WroteNumber(Together(pages, i), None) PROVE NumberShared'
  <2> SUFFICES ASSUME NEW a \in 1..n, NEW b \in 1..n, b \in Together(pages, a)
               PROVE  a \in Together(pages, i) <=> b \in Together(pages, i)
    BY <1>4, <1>7
  <2> QED BY <1>0, Mates
<1>8. ASSUME WroteRejected, ~Invoiced PROVE NumberShared'
  <2>1. \A j \in 1..n : pages'[j].no = None
    BY <1>0, <1>8 DEF WroteRejected, Invoiced, n
  <2>2. pages' \in [1..n -> Pages] /\ SameMarks(pages, pages')
    BY <1>8 DEF WroteRejected, n
  <2> QED BY <1>3, <2>1, <2>2
<1>9. ASSUME NEW carry, NEW renumber \in BOOLEAN, NEW m \in 1..MaxPages, Saved(carry, renumber, m)
      PROVE  NumberShared'
  <2> SUFFICES ASSUME NEW a \in 1..m, NEW b \in 1..m, Grouped(pages', a), b \in Together(pages', a),
                      ~pages'[a].rejected, ~pages'[b].rejected
               PROVE  pages'[a].no = pages'[b].no
    BY <1>9 DEF Saved, NumberShared
  <2>0. m \in Nat /\ pages' \in [1..m -> Pages] /\ DOMAIN pages' = 1..m
    BY <1>9 DEF Saved
  <2>1. Grouped(pages', b) /\ InvoiceNumber(pages', b) = InvoiceNumber(pages', a)
    BY <2>0, Mates
  <2>2. pages'[a].group = pages'[b].group
    BY <2>0, <2>1, Invoice
  <2>3. /\ carry[a] # 0 /\ carry[b] # 0
        /\ carry[a] \in 1..n /\ carry[b] \in 1..n
        /\ Grouped(pages, carry[a]) /\ Grouped(pages, carry[b])
    BY <1>0, <1>9, <2>0, <2>1, CarriedIs DEF n
  <2> DEFINE i == carry[a]
             j == carry[b]
  <2>4. /\ pages'[a].group = pages[i].group /\ pages'[b].group = pages[j].group
        /\ pages'[a].no = pages[i].no /\ pages'[b].no = pages[j].no
        /\ pages'[a].rejected = pages[i].rejected /\ pages'[b].rejected = pages[j].rejected
    BY <1>9, <2>3 DEF Saved
  <2>5. i \in 1..n /\ j \in 1..n /\ Grouped(pages, i) /\ Grouped(pages, j)
    BY <2>3
  <2> HIDE DEF i, j
  <2>6. /\ IsSplit(pages) /\ ~Held(pages, i) /\ pages[i].group = pages[j].group
        /\ pages[j].hold = "none"
    BY <1>0, <2>2, <2>4, <2>5, Invoice
  <2>7. j \in Together(pages, i)
    BY <1>0, <2>5, <2>6, MatesAre
  <2> QED BY <1>0, <2>4, <2>5, <2>7
<1> QED BY <1>0, <1>1, <1>2, <1>5, <1>6, <1>7, <1>8, <1>9, NextIs

LEMMA InitHolds == Init => IInv
<1> SUFFICES ASSUME Init PROVE IInv
  OBVIOUS
<1>1. /\ FirstPages \in 1..MaxPages /\ FirstPages \in Nat
      /\ pages = [i \in 1..FirstPages |-> NewPage(i)] /\ seq = FirstPages
  BY DEF Init
<1>2. /\ DOMAIN pages = 1..FirstPages
      /\ \A i \in 1..FirstPages : pages[i] \in Pages /\ pages[i] = NewPage(i)
  BY <1>1 DEF NewPage, Pages, Holds
<1>3. pages \in [1..FirstPages -> Pages]
  BY <1>1, <1>2
<1>4. Len(pages) = FirstPages /\ pages \in Seq(Pages)
  BY <1>1, <1>3, LenOf
<1>5. ~IsSplit(pages)
  BY <1>2 DEF IsSplit, NewPage
<1>6. TypeOK
  BY <1>1, <1>2, <1>4 DEF Init, TypeOK, NewPage, Statuses, Editors
<1>7. \A i \in 1..FirstPages : ~Held(pages, i) /\ ~Grouped(pages, i)
  BY <1>1, <1>3, <1>5, Invoice
<1> QED BY <1>2, <1>6, <1>7 DEF IInv, HeldIsIdle, NumberShared

LEMMA Inductive == Spec => []IInv
<1>1. IInv /\ [Next]_vars => IInv'
  <2> SUFFICES ASSUME IInv, [Next]_vars PROVE IInv'
    OBVIOUS
  <2> QED BY TypeKept, HeldKept, SharedKept DEF IInv
<1> QED BY <1>1, InitHolds, PTL DEF Spec

-----------------------------------------------------------------------------
(***************************************************************************)
(* The dialog.                                                             *)
(***************************************************************************)

\* The pages that a choice puts on an invoice.
Chosen(choice) == {i \in DOMAIN pages : ~Hidden(pages[i]) /\ choice[i].group # 0}

LEMMA ChoiceIs ==
    ASSUME NEW n \in 1..MaxPages, NEW choice \in FullSplits[n]
    PROVE  /\ choice \in Splits[n]
           /\ \A i \in 1..n : choice[i].group = 0 <=> choice[i].hold # "none"
<1> DEFINE marks == {Mark(g, "none") : g \in 1..MaxGroup} \cup {Mark(0, "later"), Mark(0, "skip")}
<1>1. choice \in [1..n -> marks]
  BY DEF FullSplits
<1>2. \A m \in marks : m.group = 0 <=> m.hold # "none"
  BY DEF Mark
<1>3. choice \in Splits[n]
  BY DEF Splits
<1> HIDE DEF marks
<1> QED BY <1>1, <1>2, <1>3

\* Once sent, a page the customer has not refused is on the invoice chosen.
LEMMA SentIs ==
    ASSUME TypeOK, NEW choice \in Selections, NEW new, new = Sent(pages, choice)
    PROVE  /\ DOMAIN new = DOMAIN pages
           /\ \A i \in DOMAIN pages :
                /\ Hidden(new[i]) <=> Hidden(pages[i])
                /\ ~Hidden(pages[i]) =>
                     /\ Held(new, i) <=> choice[i].group = 0
                     /\ ~Held(new, i) =>
                          /\ InvoiceNumber(new, i) = choice[i].group
                          /\ Counted(new, i)
                               = {j \in Chosen(choice) : choice[j].group = choice[i].group}
<1> DEFINE n == Len(pages)
           none == [i \in DOMAIN pages |-> Mark(0, "none")]
<1>0. /\ n \in 1..MaxPages /\ n \in Nat /\ pages \in [1..n -> Pages] /\ DOMAIN pages = 1..n
      /\ choice \in FullSplits[n]
  BY Shape DEF Selections
<1>1. /\ choice \in Splits[n]
      /\ \A i \in 1..n : choice[i].group = 0 <=> choice[i].hold # "none"
  BY <1>0, ChoiceIs
<1>2. none \in Splits[n] /\ \A i \in 1..n : none[i].group = 0 /\ none[i].hold = "none"
  BY <1>0 DEF Splits, Mark
<1>3. /\ \A i, j \in 1..n : pages[i].code = pages[j].code => i = j
      /\ \A i \in 1..n : pages[i].code # 0
  <2>1. \A i, j \in 1..n : pages[i].code = pages[j].code => i = j
    BY <1>0 DEF TypeOK
  <2>2. \A i \in 1..n : pages[i] \in Pages
    BY <1>0
  <2>3. \A p \in Pages : p.code # 0
    BY DEF Pages
  <2> QED BY <2>1, <2>2, <2>3
<1> HIDE DEF n, none
<1>4. CASE ~IsDefault(pages, choice)
  <2>1. new = Marked(pages, choice)
    BY <1>4 DEF Sent
  <2>2. /\ new \in [1..n -> Pages] /\ DOMAIN new = 1..n
        /\ \A i \in 1..n : /\ new[i].group = choice[i].group /\ new[i].hold = choice[i].hold
                           /\ Hidden(new[i]) <=> Hidden(pages[i])
    <3>1. choice \in Splits[n] /\ n \in 1..MaxPages /\ pages \in [1..n -> Pages]
      BY <1>0, <1>1
    <3> QED BY <2>1, <3>1, MarkedSo
  <2>3. IsSplit(new)
    <3>1. 1 \in 1..n
      BY <1>0
    <3>2. new[1].group # 0 \/ new[1].hold # "none"
      BY <1>1, <2>2, <3>1
    <3> QED BY <2>2, <3>1, <3>2 DEF IsSplit
  <2>4. ASSUME NEW i \in 1..n
        PROVE  /\ Held(new, i) <=> choice[i].group = 0
               /\ ~Held(new, i) => InvoiceNumber(new, i) = choice[i].group
    BY <1>0, <1>1, <2>2, <2>3, Invoice
  <2>5. ASSUME NEW i \in 1..n, ~Held(new, i)
        PROVE  Counted(new, i) = {j \in Chosen(choice) : choice[j].group = choice[i].group}
    <3>1. Together(new, i) \subseteq 1..n /\ \A j \in 1..n :
             j \in Together(new, i) <=> new[j].hold = "none" /\ new[j].group = new[i].group
      BY <1>0, <2>2, <2>3, <2>5, Mates, MatesAre
    <3>2. choice[i].group # 0
      BY <2>4, <2>5
    <3>3. \A j \in 1..n : j \in Together(new, i) <=> choice[j].group = choice[i].group
      BY <1>1, <2>2, <3>1, <3>2
    <3>4. \A j \in 1..n : j \in Counted(new, i)
                           <=> choice[j].group = choice[i].group /\ ~Hidden(pages[j])
      BY <2>2, <3>3 DEF Counted
    <3>5. Counted(new, i) \subseteq 1..n
      BY <3>1 DEF Counted
    <3> QED BY <1>0, <3>2, <3>4, <3>5 DEF Chosen
  <2> QED BY <1>0, <2>2, <2>4, <2>5
<1>5. CASE IsDefault(pages, choice)
  <2>1. /\ new \in [1..n -> Pages] /\ DOMAIN new = 1..n /\ ~IsSplit(new)
        /\ \A i \in 1..n : new[i].code = pages[i].code /\ (Hidden(new[i]) <=> Hidden(pages[i]))
    <3>1. CASE IsSplit(pages)
      <4>1. new = Marked(pages, none)
        BY <1>5, <3>1 DEF Sent, none
      <4>2. /\ new \in [1..n -> Pages] /\ DOMAIN new = 1..n
            /\ \A i \in 1..n : /\ new[i].code = pages[i].code
                               /\ new[i].group = none[i].group /\ new[i].hold = none[i].hold
                               /\ Hidden(new[i]) <=> Hidden(pages[i])
        BY <1>0, <1>2, <4>1, MarkedSo
      <4> QED BY <1>2, <4>2 DEF IsSplit
    <3>2. CASE ~IsSplit(pages)
      BY <1>0, <1>5, <3>2 DEF Sent
    <3> QED BY <3>1, <3>2
  <2>2. ASSUME NEW i \in 1..n, ~Hidden(pages[i]) PROVE choice[i].group = pages[i].code
    <3>1. choice[i] = Mark(pages[i].code, "none")
      BY <1>0, <1>5, <2>2 DEF IsDefault
    <3> QED BY <3>1 DEF Mark
  <2>3. ASSUME NEW i \in 1..n
        PROVE  ~Held(new, i) /\ InvoiceNumber(new, i) = pages[i].code
    BY <1>0, <2>1, Invoice
  <2>4. ASSUME NEW i \in 1..n, ~Hidden(pages[i])
        PROVE  Counted(new, i) = {j \in Chosen(choice) : choice[j].group = choice[i].group}
    <3>1. Together(new, i) \subseteq 1..n /\ \A j \in 1..n :
             j \in Together(new, i) <=> new[j].code = new[i].code
      BY <1>0, <2>1, <2>3, Mates, MatesAre
    <3>2. \A j \in 1..n : j \in Counted(new, i)
                           <=> pages[j].code = pages[i].code /\ ~Hidden(pages[j])
      BY <2>1, <3>1 DEF Counted
    <3>3. Counted(new, i) \subseteq 1..n
      BY <3>1 DEF Counted
    <3>4. \A j \in 1..n : j \in Chosen(choice) /\ choice[j].group = choice[i].group
                           <=> pages[j].code = pages[i].code /\ ~Hidden(pages[j])
      BY <1>0, <1>3, <2>2, <2>4 DEF Chosen
    <3> QED BY <1>0, <3>2, <3>3, <3>4 DEF Chosen
  <2> QED BY <1>0, <1>3, <2>1, <2>2, <2>3, <2>4
<1> QED BY <1>4, <1>5

LEMMA PreviewHolds == ASSUME TypeOK PROVE PreviewIsStored
<1> SUFFICES ASSUME NEW choice \in Selections
             PROVE  LET new == Sent(pages, choice) IN
                    {<<InvoiceNumber(new, i), Counted(new, i)>> :
                        i \in {k \in DOMAIN new : ~Held(new, k) /\ ~Hidden(new[k])}}
                    = Previewed(pages, choice)
  BY DEF PreviewIsStored
<1> DEFINE new == Sent(pages, choice)
           shown(i) == <<choice[i].group, {j \in Chosen(choice) : choice[j].group = choice[i].group}>>
           stored == {k \in DOMAIN new : ~Held(new, k) /\ ~Hidden(new[k])}
<1>1. /\ DOMAIN new = DOMAIN pages
      /\ \A i \in DOMAIN pages :
           /\ Hidden(new[i]) <=> Hidden(pages[i])
           /\ ~Hidden(pages[i]) =>
                /\ Held(new, i) <=> choice[i].group = 0
                /\ ~Held(new, i) =>
                     /\ InvoiceNumber(new, i) = choice[i].group
                     /\ Counted(new, i)
                          = {j \in Chosen(choice) : choice[j].group = choice[i].group}
  BY SentIs
<1> HIDE DEF new
<1>2. stored = Chosen(choice)
  BY <1>1 DEF Chosen
<1>3. \A i \in stored : <<InvoiceNumber(new, i), Counted(new, i)>> = shown(i)
  BY <1>1
<1>4. Previewed(pages, choice) = {shown(i) : i \in Chosen(choice)}
  BY DEF Previewed, Chosen
<1>5. {<<InvoiceNumber(new, i), Counted(new, i)>> : i \in stored} = {shown(i) : i \in stored}
  <2> HIDE DEF stored, shown
  <2> QED BY <1>3
<1> QED BY <1>2, <1>4, <1>5 DEF new

-----------------------------------------------------------------------------
(***************************************************************************)
(* What went out and what came in stands.                                  *)
(***************************************************************************)

\* Pages rewritten in their places are found by their codes.
LEMMA SamePlace ==
    ASSUME TypeOK, pages' \in [1..Len(pages) -> Pages],
           \A j \in 1..Len(pages) : pages'[j].code = pages[j].code,
           NEW i \in DOMAIN pages, NEW k \in DOMAIN pages', pages[i].code = pages'[k].code
    PROVE  k = i /\ i \in 1..Len(pages)
<1>1. DOMAIN pages = 1..Len(pages) /\ DOMAIN pages' = 1..Len(pages)
  BY Shape
<1>2. \A a, b \in 1..Len(pages) : pages[a].code = pages[b].code => a = b
  BY <1>1 DEF TypeOK
<1> QED BY <1>1, <1>2

\* An invoice whose number in the code and whose pages are as they were.
LEMMA StandsInPlace ==
    ASSUME TypeOK, pages' \in [1..Len(pages) -> Pages],
           \A j \in 1..Len(pages) : pages'[j].code = pages[j].code,
           NEW i \in 1..Len(pages),
           InvoiceNumber(pages', i) = InvoiceNumber(pages, i),
           Counted(pages', i) = Counted(pages, i)
    PROVE  InvoiceStands(i, i)
<1>1. DOMAIN pages = 1..Len(pages) /\ DOMAIN pages' = 1..Len(pages)
  BY Shape
<1> DEFINE C == Counted(pages, i)
<1>2. C \subseteq 1..Len(pages)
  BY <1>1, Mates
<1> HIDE DEF C
<1>3. CodesOf(pages', C) = CodesOf(pages, C)
  BY <1>2 DEF CodesOf
<1>4. CodesOf(pages', C) \subseteq CodesOf(pages', DOMAIN pages')
  BY <1>1, <1>2 DEF CodesOf
<1> QED BY <1>3, <1>4 DEF InvoiceStands, C

\* Work on other pages than those of an invoice.
LEMMA StandsAside ==
    ASSUME TypeOK, pages' \in [1..Len(pages) -> Pages], SameMarks(pages, pages'),
           NEW i \in 1..Len(pages),
           \A j \in Together(pages, i) : pages'[j] = pages[j]
    PROVE  InvoiceStands(i, i)
<1>1. DOMAIN pages = 1..Len(pages)
  BY Shape
<1>2. InvoiceNumber(pages', i) = InvoiceNumber(pages, i) /\ Together(pages', i) = Together(pages, i)
  BY <1>1, SameInvoices
<1>3. Counted(pages', i) = Counted(pages, i)
  BY <1>2 DEF Counted
<1>4. \A j \in 1..Len(pages) : pages'[j].code = pages[j].code
  BY <1>1 DEF SameMarks
<1> QED BY <1>2, <1>3, <1>4, StandsInPlace

\* A record is what its fields are.
LEMMA SamePage ==
    ASSUME NEW p \in Pages, NEW q \in Pages,
           p.code = q.code, p.group = q.group, p.hold = q.hold, p.no = q.no,
           p.paid = q.paid, p.rejected = q.rejected
    PROVE  p = q
BY DEF Pages

\* A field written on pages of one invoice leaves the other invoices.
LEMMA StandsBesideNumber ==
    ASSUME TypeOK, NEW S, NEW v, WroteNumber(S, v), NEW x \in DOMAIN pages,
           S \subseteq Together(pages, x), NEW i \in DOMAIN pages, x \notin Together(pages, i)
    PROVE  InvoiceStands(i, i)
<1> DEFINE n == Len(pages)
<1>1. pages \in [1..n -> Pages] /\ DOMAIN pages = 1..n
  BY Shape
<1>2. \A j \in Together(pages, i) : j \in 1..n /\ j \notin S
  BY <1>1, Mates
<1>3. ASSUME NEW j \in Together(pages, i) PROVE pages'[j] = pages[j]
  <2>1. /\ pages[j] \in Pages /\ pages'[j] \in Pages
        /\ pages'[j].rejected = pages[j].rejected /\ pages'[j].paid = pages[j].paid
        /\ pages'[j].no = pages[j].no
        /\ pages'[j].code = pages[j].code /\ pages'[j].group = pages[j].group
        /\ pages'[j].hold = pages[j].hold
    BY <1>1, <1>2 DEF WroteNumber, SameMarks
  <2> QED BY <2>1, SamePage
<1> QED BY <1>1, <1>3, StandsAside DEF WroteNumber

LEMMA StandsBesidePaid ==
    ASSUME TypeOK, NEW S, NEW v, WrotePaid(S, v), NEW x \in DOMAIN pages,
           S \subseteq Together(pages, x), NEW i \in DOMAIN pages, x \notin Together(pages, i)
    PROVE  InvoiceStands(i, i)
<1> DEFINE n == Len(pages)
<1>1. pages \in [1..n -> Pages] /\ DOMAIN pages = 1..n
  BY Shape
<1>2. \A j \in Together(pages, i) : j \in 1..n /\ j \notin S
  BY <1>1, Mates
<1>3. ASSUME NEW j \in Together(pages, i) PROVE pages'[j] = pages[j]
  <2>1. /\ pages[j] \in Pages /\ pages'[j] \in Pages
        /\ pages'[j].rejected = pages[j].rejected /\ pages'[j].paid = pages[j].paid
        /\ pages'[j].no = pages[j].no
        /\ pages'[j].code = pages[j].code /\ pages'[j].group = pages[j].group
        /\ pages'[j].hold = pages[j].hold
    BY <1>1, <1>2 DEF WrotePaid, SameMarks
  <2> QED BY <2>1, SamePage
<1> QED BY <1>1, <1>3, StandsAside DEF WrotePaid

LEMMA RecipientsTogether ==
    ASSUME NEW x \in DOMAIN pages
    PROVE  Recipients(x) \subseteq Together(pages, x)
BY Mates DEF Recipients

\* An issued invoice after a save: the pages of it that are left, by code.
LEMMA StandsSaved ==
    ASSUME IInv, NEW carry \in Carries, NEW renumber \in BOOLEAN, NEW m \in 1..MaxPages,
           Save(carry, renumber), Saved(carry, renumber, m),
           NEW i \in DOMAIN pages, NEW k \in DOMAIN pages', pages[i].no # None,
           pages[i].code = pages'[k].code
    PROVE  InvoiceStands(i, k)
<1> DEFINE n == Len(pages)
<1>0. /\ TypeOK /\ n \in Nat /\ m \in Nat
      /\ pages \in [1..n -> Pages] /\ DOMAIN pages = 1..n
      /\ pages' \in [1..m -> Pages] /\ DOMAIN pages' = 1..m
      /\ carry \in [1..m -> 0..n] /\ i \in 1..n /\ k \in 1..m
  BY Shape DEF IInv, Saved
<1>1. /\ \A a, b \in 1..n : pages[a].code = pages[b].code => a = b
      /\ \A a \in 1..n : pages[a].code =< seq /\ seq \in Nat /\ pages[a].code \in Nat
  <2>1. \A p \in Pages : p.code \in Nat
    BY DEF Pages
  <2>2. \A a \in 1..n : pages[a].code \in Nat
    BY <1>0, <2>1
  <2>3. \A a, b \in DOMAIN pages : pages[a].code = pages[b].code => a = b
    BY <1>0 DEF TypeOK
  <2>4. (\A a \in DOMAIN pages : pages[a].code =< seq) /\ seq \in Nat
    BY <1>0 DEF TypeOK
  <2> QED BY <1>0, <2>2, <2>3, <2>4
<1>2. ~renumber
  BY <1>0 DEF Saved
<1> HIDE DEF n
<1>3. \A y \in 1..m : carry[y] # 0 =>
        /\ carry[y] \in 1..n
        /\ pages'[y].code = pages[carry[y]].code /\ pages'[y].group = pages[carry[y]].group
        /\ pages'[y].hold = pages[carry[y]].hold
        /\ Hidden(pages'[y]) <=> Hidden(pages[carry[y]])
  BY <1>0, <1>2 DEF Saved, Hidden
<1>4. \A y \in 1..m : carry[y] = 0 => pages'[y].code = seq + 1 /\ pages'[y].group = 0
  BY <1>0, <1>2 DEF Saved
<1>5. \A y \in 1..m, a \in 1..n : pages'[y].code = pages[a].code => carry[y] = a
  <2> SUFFICES ASSUME NEW y \in 1..m, NEW a \in 1..n, pages'[y].code = pages[a].code
               PROVE  carry[y] = a
    OBVIOUS
  <2>1. carry[y] # 0
    BY <1>1, <1>4
  <2> QED BY <1>1, <1>3, <2>1
<1>6. carry[k] = i /\ i # 0
  BY <1>0, <1>5
<1>7. ~Held(pages, i)
  BY <1>0 DEF IInv, HeldIsIdle
<1>8. IsSplit(pages') <=> IsSplit(pages)
  <2>1. IsSplit(pages') => IsSplit(pages)
    BY <1>0, CarriedIs
  <2>2. IsSplit(pages) => pages[i].group # 0
    BY <1>0, <1>7, Invoice
  <2>3. IsSplit(pages) => pages'[k].group # 0
    BY <1>0, <1>3, <1>6, <2>2
  <2> QED BY <1>0, <2>1, <2>3 DEF IsSplit
<1>9. ~Held(pages', k) /\ InvoiceNumber(pages', k) = InvoiceNumber(pages, i)
  <2>1. /\ pages'[k].code = pages[i].code /\ pages'[k].group = pages[i].group
        /\ pages'[k].hold = pages[i].hold
    BY <1>0, <1>3, <1>6
  <2> QED BY <1>0, <1>7, <1>8, <2>1, Invoice
<1>10. \A y \in 1..m : y \in Together(pages', k) <=>
          carry[y] # 0 /\ carry[y] \in Together(pages, i)
  <2> SUFFICES ASSUME NEW y \in 1..m
               PROVE  y \in Together(pages', k) <=>
                        carry[y] # 0 /\ carry[y] \in Together(pages, i)
    OBVIOUS
  <2>1. /\ IsSplit(pages) => (y \in Together(pages', k) <=>
                                 pages'[y].hold = "none" /\ pages'[y].group = pages[i].group)
        /\ ~IsSplit(pages) => (y \in Together(pages', k) <=> pages'[y].code = pages[i].code)
    <3>1. pages'[k].group = pages[i].group /\ pages'[k].code = pages[i].code
      BY <1>0, <1>3, <1>6
    <3>2. /\ IsSplit(pages') => (y \in Together(pages', k) <=>
                                    pages'[y].hold = "none" /\ pages'[y].group = pages'[k].group)
          /\ ~IsSplit(pages') => (y \in Together(pages', k) <=> pages'[y].code = pages'[k].code)
      <4>1. m \in Nat /\ pages' \in [1..m -> Pages] /\ k \in 1..m /\ ~Held(pages', k)
        BY <1>0, <1>9
      <4>2. CASE IsSplit(pages')
        BY <4>1, <4>2, MatesAre
      <4>3. CASE ~IsSplit(pages')
        BY <4>1, <4>3, MatesAre
      <4> QED BY <4>2, <4>3
    <3> QED BY <1>8, <3>1, <3>2
  <2>2. ASSUME NEW x \in 1..n
        PROVE  /\ IsSplit(pages) => (x \in Together(pages, i) <=>
                                       pages[x].hold = "none" /\ pages[x].group = pages[i].group)
               /\ ~IsSplit(pages) => (x \in Together(pages, i) <=> pages[x].code = pages[i].code)
    <3>1. n \in Nat /\ pages \in [1..n -> Pages] /\ i \in 1..n /\ ~Held(pages, i)
      BY <1>0, <1>7
    <3>2. CASE IsSplit(pages)
      BY <3>1, <3>2, MatesAre
    <3>3. CASE ~IsSplit(pages)
      BY <3>1, <3>3, MatesAre
    <3> QED BY <3>2, <3>3
  <2>3. IsSplit(pages) => pages[i].group # 0
    BY <1>0, <1>7, Invoice
  <2>4. CASE carry[y] = 0
    BY <1>0, <1>5, <1>4, <1>6, <2>1, <2>3, <2>4
  <2>5. CASE carry[y] # 0
    BY <1>3, <2>1, <2>2, <2>5
  <2> QED BY <2>4, <2>5
<1>11. Together(pages', k) \subseteq 1..m /\ Together(pages, i) \subseteq 1..n
  BY <1>0, Mates
<1>12. \A y \in 1..m : y \in Counted(pages', k) <=>
          carry[y] # 0 /\ carry[y] \in Counted(pages, i)
  BY <1>3, <1>10, <1>11 DEF Counted
<1>13. Counted(pages', k) \subseteq 1..m /\ Counted(pages, i) \subseteq 1..n
  BY <1>11 DEF Counted
<1> DEFINE A == Counted(pages', k)
           B == Counted(pages, i)
           All == CodesOf(pages', 1..m)
<1> HIDE DEF A, B, All
<1>14. CodesOf(pages', A) = CodesOf(pages, B) \cap All
  <2>1. ASSUME NEW c \in CodesOf(pages', A) PROVE c \in CodesOf(pages, B) /\ c \in All
    <3>1. PICK y \in A : c = pages'[y].code
      BY DEF CodesOf
    <3>2. y \in 1..m /\ carry[y] # 0 /\ carry[y] \in B
      BY <1>12, <1>13, <3>1 DEF A, B
    <3>3. c = pages[carry[y]].code
      BY <1>3, <3>1, <3>2
    <3> QED BY <3>1, <3>2, <3>3 DEF CodesOf, All
  <2>2. ASSUME NEW c \in CodesOf(pages, B), c \in All PROVE c \in CodesOf(pages', A)
    <3>1. PICK x \in B : c = pages[x].code
      BY DEF CodesOf
    <3>2. PICK y \in 1..m : c = pages'[y].code
      BY <2>2 DEF CodesOf, All
    <3>3. x \in 1..n /\ carry[y] = x /\ x # 0
      <4>1. x \in 1..n
        BY <1>13, <3>1 DEF B
      <4>2. carry[y] = x
        BY <1>5, <3>1, <3>2, <4>1
      <4> QED BY <1>0, <4>1, <4>2
    <3>4. y \in A
      BY <1>12, <3>1, <3>2, <3>3 DEF A, B
    <3> QED BY <3>2, <3>4 DEF CodesOf
  <2> QED BY <2>1, <2>2
<1>15. Saves
  BY DEF Saves
<1> QED BY <1>0, <1>9, <1>14, <1>15 DEF InvoiceStands, A, B, All

LEMMA IssuedKeptByNext ==
    ASSUME IInv, [Next]_vars, NEW i \in DOMAIN pages, NEW k \in DOMAIN pages',
           pages[i].no # None, pages[i].code = pages'[k].code
    PROVE  InvoiceStands(i, k) \/ WorkOn(i)
<1> DEFINE n == Len(pages)
<1>0. TypeOK /\ pages \in [1..n -> Pages] /\ DOMAIN pages = 1..n /\ n \in Nat
  BY Shape DEF IInv
<1> HIDE DEF n
<1>1. ASSUME NEW split \in Splits[Len(pages)], Divide(split) PROVE InvoiceStands(i, k)
  <2>1. /\ pages' \in [1..Len(pages) -> Pages]
        /\ \A j \in 1..Len(pages) : pages'[j].code = pages[j].code
        /\ \A j \in 1..Len(pages) : pages[j].no # None =>
              /\ InvoiceNumber(pages', j) = InvoiceNumber(pages, j)
              /\ Counted(pages', j) = Counted(pages, j)
    BY <1>1, DivideSo
  <2>2. k = i /\ i \in 1..Len(pages)
    BY <1>0, <2>1, SamePlace
  <2> QED BY <1>0, <2>1, <2>2, StandsInPlace
<1>2. ASSUME UNCHANGED pages PROVE InvoiceStands(i, k)
  <2>1. /\ pages' \in [1..Len(pages) -> Pages]
        /\ \A j \in 1..Len(pages) : pages'[j].code = pages[j].code
    BY <1>0, <1>2 DEF n
  <2>2. k = i /\ i \in 1..Len(pages)
    BY <1>0, <2>1, SamePlace
  <2>3. InvoiceNumber(pages', i) = InvoiceNumber(pages, i) /\ Counted(pages', i) = Counted(pages, i)
    BY <1>2
  <2> QED BY <1>0, <2>1, <2>2, <2>3, StandsInPlace
<1>3. ASSUME pages' \in [1..n -> Pages], SameMarks(pages, pages') PROVE k = i
  <2>1. pages' \in [1..Len(pages) -> Pages] /\ \A j \in 1..Len(pages) : pages'[j].code = pages[j].code
    BY <1>0, <1>3 DEF SameMarks, n
  <2> QED BY <1>0, <2>1, SamePlace
<1>4. ASSUME NEW x \in DOMAIN pages, NEW v \in Numbers \cup {None}, WriteNumber(x, v),
             WroteNumber(Recipients(x), v)
      PROVE  InvoiceStands(i, k) \/ WorkOn(i)
  <2>1. k = i
    BY <1>3, <1>4 DEF WroteNumber, n
  <2>2. CASE x \in Together(pages, i)
    BY <1>4, <2>2 DEF WorkOn
  <2>3. CASE x \notin Together(pages, i)
    BY <1>0, <1>4, <2>1, <2>3, RecipientsTogether, StandsBesideNumber
  <2> QED BY <2>2, <2>3
<1>5. ASSUME NEW x \in DOMAIN pages, NEW d \in Days \cup {None}, WritePaid(x, d),
             WrotePaid(Recipients(x), d)
      PROVE  InvoiceStands(i, k) \/ WorkOn(i)
  <2>1. k = i
    BY <1>3, <1>5 DEF WrotePaid, n
  <2>2. CASE x \in Together(pages, i)
    BY <1>5, <2>2 DEF WorkOn
  <2>3. CASE x \notin Together(pages, i)
    BY <1>0, <1>5, <2>1, <2>3, RecipientsTogether, StandsBesidePaid
  <2> QED BY <2>2, <2>3
<1>6. ASSUME NEW x \in DOMAIN pages, Redo(x), WroteNumber(Together(pages, x), None)
      PROVE  InvoiceStands(i, k) \/ WorkOn(i)
  <2>1. k = i
    BY <1>3, <1>6 DEF WroteNumber, n
  <2>2. CASE x \in Together(pages, i)
    BY <1>6, <2>2 DEF WorkOn
  <2>3. CASE x \notin Together(pages, i)
    BY <1>0, <1>6, <2>1, <2>3, StandsBesideNumber
  <2> QED BY <2>2, <2>3
<1>7. Invoiced
  BY DEF Invoiced
<1>8. ASSUME NEW carry \in Carries, NEW renumber \in BOOLEAN, NEW m \in 1..MaxPages,
             Save(carry, renumber), Saved(carry, renumber, m)
      PROVE  InvoiceStands(i, k)
  BY <1>8, StandsSaved
<1> QED BY <1>0, <1>1, <1>2, <1>4, <1>5, <1>6, <1>7, <1>8, NextIs

LEMMA PaymentKeptByNext ==
    ASSUME IInv, [Next]_vars, NEW i \in DOMAIN pages, NEW k \in DOMAIN pages',
           pages[i].code = pages'[k].code, pages[i].paid # pages'[k].paid
    PROVE  \E j \in Together(pages, i), d \in Days \cup {None} : WritePaid(j, d)
<1> DEFINE n == Len(pages)
<1>0. TypeOK /\ pages \in [1..n -> Pages] /\ DOMAIN pages = 1..n /\ n \in Nat
  BY Shape DEF IInv
<1>1. ASSUME pages' \in [1..n -> Pages], \A j \in 1..n : pages'[j].code = pages[j].code
      PROVE  k = i /\ i \in 1..n
  BY <1>0, <1>1, SamePlace
<1> HIDE DEF n
<1>2. ASSUME pages' \in [1..n -> Pages], SameMarks(pages, pages') PROVE k = i /\ i \in 1..n
  BY <1>0, <1>1, <1>2 DEF SameMarks
<1>3. ASSUME NEW split \in Splits[Len(pages)], Divide(split) PROVE FALSE
  <2>1. /\ pages' \in [1..n -> Pages]
        /\ \A j \in 1..n : pages'[j].code = pages[j].code /\ pages'[j].paid = pages[j].paid
    BY <1>3, DivideSo DEF n
  <2> QED BY <1>1, <2>1
<1>4. ASSUME UNCHANGED pages PROVE FALSE
  BY <1>0, <1>1, <1>4
<1>5. ASSUME NEW S, NEW v, WroteNumber(S, v) PROVE FALSE
  BY <1>2, <1>5 DEF WroteNumber, n
<1>6. ASSUME WroteRejected PROVE FALSE
  BY <1>2, <1>6 DEF WroteRejected, n
<1>7. ASSUME NEW x \in DOMAIN pages, NEW d \in Days \cup {None}, WritePaid(x, d),
             WrotePaid(Recipients(x), d)
      PROVE  \E j \in Together(pages, i), e \in Days \cup {None} : WritePaid(j, e)
  <2>1. k = i /\ i \in Recipients(x)
    BY <1>2, <1>7 DEF WrotePaid, n
  <2>2. i \in Together(pages, x)
    BY <1>7, <2>1, RecipientsTogether
  <2>3. x \in Together(pages, i)
    BY <1>7, <2>2, Mates
  <2> QED BY <1>7, <2>3
<1>8. ASSUME NEW carry \in Carries, NEW renumber \in BOOLEAN, NEW m \in 1..MaxPages,
             Save(carry, renumber), Saved(carry, renumber, m)
      PROVE  FALSE
  <2>1. k \in 1..m /\ i \in 1..n
    BY <1>0, <1>8 DEF Saved
  <2>2. pages[i].code =< seq /\ seq \in Nat /\ pages[i].code \in Nat
    <3>1. pages[i].code \in Nat
      BY <1>0, <2>1 DEF Pages
    <3> QED BY <1>0, <2>1, <3>1 DEF TypeOK
  <2>3. CASE renumber
    <3>1. \A j \in 1..n : pages[j].paid = None
      BY <1>8, <2>3 DEF Saved, n
    <3>2. carry[k] # 0 => carry[k] \in 1..n /\ pages'[k].paid = pages[carry[k]].paid
      BY <1>0, <1>8, <2>1 DEF Saved, n
    <3>3. carry[k] = 0 => pages'[k].paid = None
      BY <1>8, <2>1 DEF Saved
    <3> QED BY <2>1, <3>1, <3>2, <3>3
  <2>4. CASE ~renumber
    <3>1. carry[k] = 0 => pages'[k].code = seq + 1
      BY <1>8, <2>1, <2>4 DEF Saved
    <3>2. carry[k] # 0
      BY <2>2, <3>1
    <3>3. /\ carry[k] \in 1..n /\ pages'[k].paid = pages[carry[k]].paid
          /\ pages'[k].code = pages[carry[k]].code
      BY <1>0, <1>8, <2>1, <2>4, <3>2 DEF Saved, n
    <3>4. carry[k] = i
      <4>1. \A a, b \in 1..n : pages[a].code = pages[b].code => a = b
        BY <1>0 DEF TypeOK
      <4> QED BY <2>1, <3>3, <4>1
    <3> QED BY <3>3, <3>4
  <2> QED BY <2>3, <2>4
<1> QED BY <1>0, <1>3, <1>4, <1>5, <1>6, <1>7, <1>8, NextIs

-----------------------------------------------------------------------------
(***************************************************************************)
(* The theorems.                                                           *)
(***************************************************************************)

(* Every variable keeps its shape and the codes of the pages stay apart,   *)
(* for any number of pages and any saves.                                  *)
THEOREM TypesHold == Spec => []TypeOK
<1>1. IInv => TypeOK
  BY DEF IInv
<1> QED BY <1>1, Inductive, PTL

(* The pages of one invoice the customer has not refused carry one number, *)
(* whatever splits, redos, decisions and saves there were.                 *)
THEOREM NumberIsShared == Spec => []NumberShared
<1>1. IInv => NumberShared
  BY DEF IInv
<1> QED BY <1>1, Inductive, PTL

(* What the dialog shows for any choice is what the server stores.         *)
THEOREM PreviewIsTrue == Spec => []PreviewIsStored
<1>1. IInv => PreviewIsStored
  BY PreviewHolds DEF IInv
<1> QED BY <1>1, Inductive, PTL

(* An issued invoice keeps its number in the code and its pages unless     *)
(* somebody works on it, a payment changes only when a day is typed on its *)
(* invoice, a page in a box has neither a number nor a payment, and the    *)
(* pages of one invoice carry one number.                                  *)
THEOREM BooksHold == Spec => BooksStand
<1>1. IInv /\ [Next]_vars =>
        [\A i \in DOMAIN pages, k \in DOMAIN pages' :
           pages[i].no # None /\ pages[i].code = pages'[k].code
           => InvoiceStands(i, k) \/ WorkOn(i)]_vars
  BY IssuedKeptByNext
<1>2. IInv /\ [Next]_vars =>
        [\A i \in DOMAIN pages, k \in DOMAIN pages' :
           pages[i].code = pages'[k].code /\ pages[i].paid # pages'[k].paid
           => \E j \in Together(pages, i), d \in Days \cup {None} : WritePaid(j, d)]_vars
  BY PaymentKeptByNext
<1>3. IInv => HeldIsIdle /\ NumberShared
  BY DEF IInv
<1> QED BY <1>1, <1>2, <1>3, Inductive, PTL DEF Spec, BooksStand, IssuedStands, PaymentStands

=============================================================================
