----------------------- MODULE QuoteLifecycle_proofs -----------------------
(***************************************************************************)
(* What holds of QuoteLifecycle for any number of requests, any handlers   *)
(* mixed among them, any prices and VAT, and any number of pages.          *)
(***************************************************************************)
EXTENDS QuoteLifecycle, FiniteSetTheorems, WellFoundedInduction, TLAPS

(***************************************************************************)
(* About the operators QuoteLifecycle is built from: the largest and the   *)
(* k-th smallest id of a set, the payload an editor sends, the carry of    *)
(* stored pages, the codes and the rows a save creates.  Induction over    *)
(* the size of a set is done by a smallest counterexample.                 *)
(***************************************************************************)
(* Every nonempty set of naturals has a smallest element.                  *)
LEMMA SmallestNat ==
    ASSUME NEW T, T \subseteq Nat, T # {}
    PROVE  \E x \in T : \A y \in T : x =< y
<1> DEFINE R == {ss \in Nat \X Nat : ss[1] < ss[2]}
<1>1. IsWellFoundedOn(R, Nat)
  BY NatLessThanWellFounded DEF OpToRel
<1>2. \A a, b \in Nat : a < b => <<a, b>> \in R
  OBVIOUS
<1> HIDE DEF R
<1>3. PICK x \in T : \A y \in T : <<y, x>> \notin R
  BY <1>1, WFMin, Zenon
<1>4. ASSUME NEW y \in T PROVE x =< y
  <2>1. x \in Nat /\ y \in Nat
    OBVIOUS
  <2>2. ~ (y < x)
    BY <2>1, <1>2, <1>3, Zenon
  <2> QED BY <2>1, <2>2
<1> QED BY <1>4

(* Every nonempty finite set of naturals has a largest element.            *)
LEMMA LargestNat ==
    ASSUME NEW S \in SUBSET Nat, IsFiniteSet(S), S # {}
    PROVE  \E x \in S : \A y \in S : x >= y
<1> DEFINE HasMax(A) == \E x \in A : \A y \in A : x >= y
           Bad == {n \in Nat : \E A \in SUBSET Nat :
                      /\ IsFiniteSet(A) /\ A # {} /\ Cardinality(A) = n /\ ~HasMax(A)}
<1>1. SUFFICES ASSUME ~HasMax(S) PROVE FALSE
  OBVIOUS
<1>2. Cardinality(S) \in Bad
  BY <1>1, FS_CardinalityType
<1>3. PICK n \in Bad : \A m \in Bad : n =< m
  BY <1>2, SmallestNat
<1>4. PICK A \in SUBSET Nat :
         IsFiniteSet(A) /\ A # {} /\ Cardinality(A) = n /\ ~HasMax(A)
  OBVIOUS
<1>5. PICK x \in A : TRUE
  BY <1>4
<1>6. /\ IsFiniteSet(A \ {x}) /\ Cardinality(A \ {x}) = n - 1
      /\ Cardinality(A \ {x}) \in Nat
  BY <1>4, <1>5, FS_RemoveElement, FS_CardinalityType
<1>7. CASE A \ {x} = {}
  <2>1. HasMax(A)
    BY <1>5, <1>7
  <2> QED BY <2>1, <1>4
<1>8. CASE A \ {x} # {}
  <2>1. HasMax(A \ {x})
    <3>1. n - 1 \notin Bad
      BY <1>3
    <3> QED BY <3>1, <1>6, <1>8
  <2>2. PICK m \in A \ {x} : \A y \in A \ {x} : m >= y
    BY <2>1
  <2>3. HasMax(A)
    <3>1. CASE x >= m
      BY <3>1, <2>2, <1>5
    <3>2. CASE m >= x
      BY <3>2, <2>2, <1>5
    <3> QED BY <3>1, <3>2
  <2> QED BY <2>3, <1>4
<1> QED BY <1>7, <1>8

(* ... which Max is.                                                       *)
LEMMA MaxNat ==
    ASSUME NEW S \in SUBSET Nat, IsFiniteSet(S), S # {}
    PROVE  Max(S) \in S /\ \A y \in S : Max(S) >= y
BY LargestNat, Zenon DEF Max

LEMMA MinNat ==
    ASSUME NEW S \in SUBSET Nat, S # {}
    PROVE  Min(S) \in S /\ \A y \in S : Min(S) =< y
BY SmallestNat, Zenon DEF Min

(* A finite set of naturals has a k-th smallest element for each k up to   *)
(* its size: among the elements with at least k elements not above them,   *)
(* the smallest has exactly k.                                             *)
LEMMA NthSmallestIn ==
    ASSUME NEW S \in SUBSET Nat, IsFiniteSet(S), NEW k \in 1..Cardinality(S)
    PROVE  /\ NthSmallest(S, k) \in S
           /\ Cardinality({y \in S : y =< NthSmallest(S, k)}) = k
<1> DEFINE Upto(x) == {y \in S : y =< x}
           T == {x \in S : Cardinality(Upto(x)) >= k}
<1>1. \A x \in S : IsFiniteSet(Upto(x)) /\ Cardinality(Upto(x)) \in Nat
  BY FS_Subset, FS_CardinalityType
<1>2. Cardinality(S) \in Nat /\ k \in Nat /\ k >= 1
  BY FS_CardinalityType
<1>3. S # {}
  BY <1>2, FS_EmptySet
<1>4. PICK m \in S : \A y \in S : m >= y
  BY <1>3, LargestNat
<1>5. m \in T
  <2>1. Upto(m) = S
    BY <1>4
  <2> QED BY <2>1, <1>2
<1>6. PICK x \in T : \A y \in T : x =< y
  BY <1>5, SmallestNat
<1>7. x \in S /\ Cardinality(Upto(x)) >= k
  OBVIOUS
<1>8. Cardinality(Upto(x)) = k
  <2> SUFFICES ASSUME Cardinality(Upto(x)) > k PROVE FALSE
    BY <1>1, <1>2, <1>7
  <2> DEFINE Below == Upto(x) \ {x}
  <2>1. /\ IsFiniteSet(Below) /\ Cardinality(Below) = Cardinality(Upto(x)) - 1
        /\ Cardinality(Below) \in Nat
    <3>1. x \in Upto(x)
      BY <1>7
    <3> HIDE DEF Upto
    <3> QED BY <3>1, <1>1, <1>7, FS_RemoveElement, FS_CardinalityType
  <2>2. Cardinality(Below) >= k
    BY <2>1, <1>1, <1>2, <1>7
  <2>3. Below # {} /\ Below \in SUBSET Nat
    <3>1. Cardinality(Below) # 0
      BY <2>1, <2>2, <1>2
    <3>2. Below # {}
      BY <3>1, FS_EmptySet, Zenon
    <3> QED BY <3>2
  <2>4. PICK z \in Below : \A y \in Below : z >= y
    BY <2>1, <2>3, LargestNat
  <2>5. z \in S /\ z < x
    BY <1>7, <2>4
  <2>6. Upto(z) = Below
    <3>1. \A y \in S : y =< z <=> y =< x /\ y # x
      BY <2>4, <2>5, <1>7
    <3> QED BY <3>1
  <2>7. z \in T
    BY <2>2, <2>5, <2>6
  <2> QED BY <2>5, <2>7, <1>6
<1> QED BY <1>7, <1>8, Zenon DEF NthSmallest

LEMMA InOrderType ==
    ASSUME NEW S \in SUBSET Nat, IsFiniteSet(S)
    PROVE  InOrder(S) \in [1..Cardinality(S) -> S] /\ Cardinality(S) \in Nat
<1>1. \A k \in 1..Cardinality(S) : NthSmallest(S, k) \in S
  BY NthSmallestIn
<1> QED BY <1>1, FS_CardinalityType DEF InOrder

-----------------------------------------------------------------------------
(* What an editor may have loaded: one price for each stored page.         *)
PriceLists == {f \in UNION {[D -> Prices] : D \in SUBSET Nat} :
                  IsFiniteSet(DOMAIN f) /\ DOMAIN f # {}}

PayloadPage == [id : Nat, price : Prices]
Payloads == Seq(PayloadPage) \ {<<>>}
EditNames == {"reprice", "append", "replace", "copy", "reverse", "noIds"}

(* Every edit of what was loaded is a nonempty list of pages.              *)
LEMMA PayloadType ==
    ASSUME NEW pages \in PriceLists, NEW edit \in EditNames, NEW price \in Prices
    PROVE  PayloadOf(edit, pages, price) \in Payloads
<1> DEFINE ids  == InOrder(DOMAIN pages)
           n    == Len(ids)
           same == [k \in 1..n |-> [id |-> ids[k], price |-> pages[ids[k]]]]
           new  == [id |-> NewPage, price |-> price]
<1>1. /\ DOMAIN pages \in SUBSET Nat /\ IsFiniteSet(DOMAIN pages)
      /\ DOMAIN pages # {} /\ pages \in [DOMAIN pages -> Prices]
  BY DEF PriceLists
<1>2. /\ Cardinality(DOMAIN pages) \in Nat \ {0}
      /\ ids \in [1..Cardinality(DOMAIN pages) -> DOMAIN pages]
  BY <1>1, InOrderType, FS_EmptySet
<1>3. n = Cardinality(DOMAIN pages) /\ n \in Nat \ {0}
  BY <1>2
<1>4. same \in Seq(PayloadPage) /\ Len(same) = n
  <2>1. \A k \in 1..n : [id |-> ids[k], price |-> pages[ids[k]]] \in PayloadPage
    BY <1>1, <1>2, <1>3 DEF PayloadPage
  <2> QED BY <2>1, <1>3
<1>5. new \in PayloadPage
  BY DEF PayloadPage, NewPage
<1> HIDE DEF ids, n, same, new
<1>6. CASE edit = "reprice"
  <2>1. [same EXCEPT ![1].price = price] \in Payloads
    <3>1. same[1] \in PayloadPage
      BY <1>3, <1>4
    <3>2. [same[1] EXCEPT !.price = price] \in PayloadPage
      BY <3>1 DEF PayloadPage
    <3> QED BY <3>2, <1>3, <1>4 DEF Payloads
  <2> QED BY <2>1, <1>6 DEF PayloadOf, ids, n, same, new
<1>7. CASE edit = "append"
  <2>1. Append(same, new) \in Payloads
    BY <1>4, <1>5 DEF Payloads
  <2> QED BY <2>1, <1>7 DEF PayloadOf, ids, n, same, new
<1>8. CASE edit = "replace"
  <2>1. Tail(same) \in Seq(PayloadPage)
    BY <1>3, <1>4
  <2>2. Append(Tail(same), new) \in Payloads
    <3> DEFINE t == Tail(same)
    <3> HIDE DEF t
    <3>1. t \in Seq(PayloadPage)
      BY <2>1 DEF t
    <3>2. Append(t, new) \in Payloads
      BY <3>1, <1>5 DEF Payloads
    <3> QED BY <3>2 DEF t
  <2> QED BY <2>2, <1>8 DEF PayloadOf, ids, n, same, new
<1>9. CASE edit = "copy"
  <2>1. Append(same, same[1]) \in Payloads
    BY <1>3, <1>4 DEF Payloads
  <2> QED BY <2>1, <1>9 DEF PayloadOf, ids, n, same, new
<1>10. CASE edit = "reverse"
  <2>1. \A k \in 1..n : same[n + 1 - k] \in PayloadPage
    BY <1>3, <1>4
  <2>2. [k \in 1..n |-> same[n + 1 - k]] \in Payloads
    BY <2>1, <1>3 DEF Payloads
  <2> QED BY <2>2, <1>10 DEF PayloadOf, ids, n, same, new
<1>11. CASE edit = "noIds"
  <2>1. [k \in 1..n |-> new] \in Payloads
    BY <1>3, <1>5 DEF Payloads
  <2> QED BY <2>1, <1>11 DEF PayloadOf, ids, n, same, new
<1> QED BY <1>6, <1>7, <1>8, <1>9, <1>10, <1>11 DEF EditNames

-----------------------------------------------------------------------------
(* The stored pages of a quote: never none.                                *)
RowSets == {f \in UNION {[D -> Page] : D \in SUBSET Nat} :
               IsFiniteSet(DOMAIN f) /\ DOMAIN f # {}}

(* The set of values of a function on a finite set is finite.              *)
LEMMA FiniteImage ==
    ASSUME NEW S, IsFiniteSet(S), NEW f, f \in [S -> Nat]
    PROVE  IsFiniteSet({f[x] : x \in S})
<1> DEFINE T == {f[x] : x \in S}
<1>1. f \in Surjection(S, T)
  BY DEF Surjection
<1> QED BY <1>1, FS_Surjection

LEMMA CarryType ==
    ASSUME NEW payload \in Payloads, NEW pages \in RowSets
    PROVE  CarryFrom(payload, pages) \in [1..Len(payload) -> DOMAIN pages \cup {NewPage}]
<1>1. DOMAIN payload = 1..Len(payload) /\ Len(payload) \in Nat
  BY DEF Payloads
<1>2. DOMAIN pages \in SUBSET Nat /\ IsFiniteSet(DOMAIN pages)
  BY DEF RowSets
<1>3. InOrder(DOMAIN pages) \in [1..Cardinality(DOMAIN pages) -> DOMAIN pages]
  BY <1>2, InOrderType
<1>4. CarryById(payload, pages) \in [1..Len(payload) -> DOMAIN pages \cup {NewPage}]
  BY <1>1 DEF CarryById
<1> QED BY <1>1, <1>3, <1>4 DEF CarryFrom

LEMMA CodesType ==
    ASSUME NEW pages \in RowSets, NEW n \in Nat, NEW seq \in Nat,
           NEW carry \in [1..n -> DOMAIN pages \cup {NewPage}]
    PROVE  CodesFor(carry, pages, seq) \in [1..n -> Nat]
<1> DEFINE kept == {k \in DOMAIN carry : carry[k] # NewPage}
           codes == {pages[carry[k]].code : k \in kept}
           mark == Max({seq} \cup codes)
<1>1. IsFiniteSet(1..n) /\ kept \in SUBSET (1..n) /\ IsFiniteSet(kept)
  BY FS_Interval, FS_Subset
<1>2. \A k \in kept : pages[carry[k]].code \in Nat
  BY DEF RowSets, Page
<1>3. codes \in SUBSET Nat /\ IsFiniteSet(codes)
  <2> DEFINE f == [k \in kept |-> pages[carry[k]].code]
  <2>1. f \in [kept -> Nat] /\ codes = {f[k] : k \in kept}
    BY <1>2
  <2> HIDE DEF f
  <2>2. IsFiniteSet({f[k] : k \in kept})
    BY <2>1, <1>1, FiniteImage
  <2> QED BY <2>1, <2>2, <1>2
<1>4. mark \in Nat
  <2>1. codes \cup {seq} = {seq} \cup codes
    OBVIOUS
  <2>2. IsFiniteSet({seq} \cup codes)
    BY <1>3, <2>1, FS_AddElement
  <2> HIDE DEF codes
  <2>3. Max({seq} \cup codes) \in {seq} \cup codes
    BY <1>3, <2>2, MaxNat
  <2> QED BY <2>3, <1>3
<1>5. \A k \in 1..n : Cardinality(1..k \ kept) \in Nat
  <2> TAKE k \in 1..n
  <2>1. IsFiniteSet(1..k)
    BY FS_Interval
  <2> QED BY <2>1, FS_Subset, FS_CardinalityType
<1> HIDE DEF mark
<1>6. \A k \in 1..n : (IF k \in kept THEN pages[carry[k]].code
                       ELSE mark + Cardinality(1..k \ kept)) \in Nat
  BY <1>2, <1>4, <1>5
<1> QED BY <1>6 DEF CodesFor, mark

LEMMA RowsType ==
    ASSUME NEW payload \in Payloads, NEW pages \in RowSets, NEW first \in Nat,
           NEW carry \in [1..Len(payload) -> DOMAIN pages \cup {NewPage}],
           NEW codes \in [1..Len(payload) -> Nat]
    PROVE  LET new == RecreatedSheets(payload, carry, codes, pages, first)
           IN /\ DOMAIN new = first..(first + Len(payload) - 1)
              /\ new \in RowSets
<1> DEFINE n == Len(payload)
           D == first..(first + n - 1)
           new == RecreatedSheets(payload, carry, codes, pages, first)
<1>1. n \in Nat \ {0} /\ payload \in [1..n -> PayloadPage]
  BY DEF Payloads
<1>2. DOMAIN new = D
  BY DEF RecreatedSheets
<1>3. ASSUME NEW i \in D PROVE new[i] \in Page
  <2> DEFINE k == i - first + 1
  <2>1. k \in 1..n /\ i \in Nat
    BY <1>1
  <2> HIDE DEF k
  <2>2. payload[k].price \in Prices /\ codes[k] \in Nat
    BY <2>1, <1>1 DEF PayloadPage
  <2>3. CASE carry[k] = NewPage
    <3>1. [page |-> i, price |-> payload[k].price, cust |-> "none",
           inv |-> FALSE, signed |-> FALSE, code |-> codes[k]] \in Page
      BY <2>1, <2>2 DEF Page, Decision
    <3> QED BY <3>1, <2>3 DEF RecreatedSheets, k
  <2>4. CASE carry[k] # NewPage
    <3>1. pages[carry[k]] \in Page
      BY <2>1, <2>4 DEF RowSets
    <3>2. [pages[carry[k]] EXCEPT !.price = payload[k].price, !.code = codes[k]] \in Page
      BY <3>1, <2>2 DEF Page
    <3> QED BY <3>2, <2>4 DEF RecreatedSheets, k
  <2> QED BY <2>3, <2>4
<1>4. D \in SUBSET Nat /\ IsFiniteSet(D) /\ first \in D
  <2>1. first \in Int /\ first + n - 1 \in Int
    BY <1>1
  <2>2. IsFiniteSet(D)
    BY <2>1, FS_Interval, Zenon
  <2> QED BY <2>2, <1>1
<1>5. new \in [D -> Page]
  BY <1>2, <1>3 DEF RecreatedSheets
<1> HIDE DEF new, D
<1>6. new \in RowSets
  BY <1>4, <1>5 DEF RowSets
<1> QED BY <1>2, <1>6 DEF new, D

-----------------------------------------------------------------------------
USE KindsAssumption, EditsAssumption, ChoiceAssumption, DataAssumption

(***************************************************************************)
(* The type invariant, strengthened: what each request carries, and that   *)
(* one that is about to write from what it read has read it.               *)
(***************************************************************************)
QuoteRow == [status : Status, vat : Vats, updatedAt : Nat, deleted : BOOLEAN,
             version : Nat, seq : Nat]
Requests == [kind : Kinds \cup {"none"}, target : Nat,
             value : Decision \cup {"set", "clear"}, payload : Seq(PayloadPage),
             vat : Vats \cup {Keep}, base : Nat, renumber : BOOLEAN, right : BOOLEAN]
Loads == [pages : PriceLists \cup {<<>>}, vat : Vats \cup {Keep}]
Reads == [sheets : RowSets \cup {<<>>}, status : Status, vat : Vats \cup {Keep},
          won : BOOLEAN]
Sights == [status : Status, seq : Nat]
Phase == {"idle", "editing", "arrived"} \cup InTx \cup Final

Db ==
    /\ quote \in QuoteRow
    /\ nextId \in Nat
    /\ sheets \in RowSets
    /\ DOMAIN sheets \subseteq 1..(nextId - 1)
    /\ quote.version >= 1
    /\ DOMAIN history \subseteq 1..quote.version

Tables ==
    /\ quoteLock \in Req \cup {NoReq}
    /\ pc \in [Req -> Phase]
    /\ req \in [Req -> Requests]
    /\ loaded \in [Req -> Loads]
    /\ seen \in [Req -> Sights]
    /\ fresh \in [Req -> Reads]
    /\ held \in [Req -> SUBSET (1..(nextId - 1))]
    /\ want \in [Req -> SUBSET (1..(nextId - 1))]

(* The requests that write what they read after the locks.                 *)
HasRead(p) ==
    \/ pc[p] = "erase"
    \/ /\ pc[p] = "commit"
       /\ \/ req[p].kind \in {"save", "decide", "convert"}
          \/ req[p].kind = "head" /\ req[p].vat # Keep

PhaseOK(p) ==
    /\ pc[p] = "editing" => loaded[p].pages \in PriceLists
    /\ pc[p] \in InTx \cup {"arrived"} => req[p].kind \in Kinds
    /\ req[p].kind = "save" => req[p].payload \in Payloads
    /\ req[p].kind = "decide" => req[p].value \in Decision
    /\ pc[p] \in {"quote", "erase"} => req[p].kind = "save"
    /\ HasRead(p) => fresh[p].sheets \in RowSets /\ fresh[p].vat \in Vats

Phases == \A p \in Req : PhaseOK(p)

Typed == Db /\ Tables /\ Phases

LEMMA NothingTyped ==
    /\ NoRequest \in Requests /\ NothingLoaded \in Loads
    /\ NothingSeen \in Sights /\ NothingRead \in Reads
<1>1. NoRequest \in Requests
  BY DEF NoRequest, Requests, NewPage, NoBase, Decision
<1>2. NothingLoaded \in Loads
  BY DEF NothingLoaded, Loads
<1>3. NothingSeen \in Sights
  BY DEF NothingSeen, Sights, Status
<1>4. NothingRead \in Reads
  BY DEF NothingRead, Reads, Status
<1> QED BY <1>1, <1>2, <1>3, <1>4

(* Initially the quote has pages 1 to InitPages.                           *)
LEMMA InitTyped == Init => Typed
<1> SUFFICES ASSUME Init PROVE Typed
  OBVIOUS
<1>1. Min(Prices) \in Prices /\ Min(Vats) \in Vats
  BY MinNat
<1>2. sheets \in RowSets /\ DOMAIN sheets = 1..InitPages
  <2>1. DOMAIN sheets = 1..InitPages
    BY DEF Init
  <2>2. \A i \in 1..InitPages : sheets[i] \in Page
    BY <1>1 DEF Init, Page, Decision
  <2>3. sheets \in [1..InitPages -> Page]
    BY <2>1, <2>2 DEF Init
  <2>4. IsFiniteSet(1..InitPages) /\ 1..InitPages \in SUBSET Nat /\ 1 \in 1..InitPages
    BY FS_Interval
  <2> QED BY <2>1, <2>3, <2>4 DEF RowSets
<1>3. Db
  BY <1>1, <1>2 DEF Init, Db, QuoteRow
<1>4. Tables
  BY NothingTyped DEF Init, Tables, Phase
<1>5. Phases
  BY DEF Init, Phases, PhaseOK, HasRead, InTx, NoRequest
<1> QED BY <1>3, <1>4, <1>5 DEF Typed

(* A request that ends leaves the others as they were.                     *)
LEMMA FinishTyped ==
    ASSUME Tables, Phases, NEW p \in Req, NEW result \in Final, Finish(p, result),
           nextId \in Nat, nextId' \in Nat, nextId' >= nextId
    PROVE  Tables' /\ Phases'
<1>1. Tables'
  BY NothingTyped DEF Tables, Finish, Phase
<1>2. ASSUME NEW q \in Req PROVE PhaseOK(q)'
  <2>1. CASE q = p
    <3>1. pc'[q] = result /\ req'[q] = NoRequest
      BY <2>1 DEF Finish, Tables
    <3> QED BY <3>1 DEF PhaseOK, HasRead, Final, InTx, NoRequest
  <2>2. CASE q # p
    <3>1. /\ pc'[q] = pc[q] /\ req'[q] = req[q] /\ loaded'[q] = loaded[q]
          /\ fresh'[q] = fresh[q]
      BY <2>2 DEF Finish, Tables
    <3> QED BY <3>1 DEF Phases, PhaseOK, HasRead
  <2> QED BY <2>1, <2>2
<1> QED BY <1>1, <1>2 DEF Phases

LEMMA RollBackTyped ==
    ASSUME Typed, NEW p \in Req, NEW result \in Final, RollBack(p, result)
    PROVE  Typed'
<1>1. Db'
  BY DEF Typed, Db, RollBack, db
<1>2. Tables' /\ Phases'
  BY FinishTyped DEF Typed, Db, RollBack, db
<1> QED BY <1>1, <1>2 DEF Typed

(* A request whose first checks pass, or that is refused.                  *)
LEMMA SubmitTyped ==
    ASSUME Typed, NEW p \in Req, NEW r \in Requests, NEW allowed \in BOOLEAN,
           NEW phase \in {"arrived", "commit"}, Submit(p, r, allowed, phase),
           r.kind \in Kinds,
           r.kind = "save" => r.payload \in Payloads,
           r.kind = "decide" => r.value \in Decision,
           phase = "commit" => /\ r.kind \notin {"save", "decide", "convert"}
                               /\ r.kind = "head" => r.vat = Keep
    PROVE  Typed'
<1>1. CASE allowed /\ ~quote.deleted
  <2>1. /\ req' = [req EXCEPT ![p] = r]
        /\ seen' = [seen EXCEPT ![p] = [status |-> quote.status, seq |-> quote.seq]]
        /\ pc' = [pc EXCEPT ![p] = phase]
        /\ UNCHANGED <<quote, sheets, nextId, history, quoteLock, want, held, loaded, fresh>>
    BY <1>1 DEF Submit, db, locks
  <2>2. [status |-> quote.status, seq |-> quote.seq] \in Sights
    BY DEF Typed, Db, QuoteRow, Sights
  <2>3. Db' /\ Tables'
    BY <2>1, <2>2 DEF Typed, Db, Tables, Phase, InTx
  <2>4. ASSUME NEW q \in Req PROVE PhaseOK(q)'
    <3>1. CASE q = p
      <4>1. pc'[q] = phase /\ req'[q] = r
        BY <2>1, <3>1 DEF Typed, Tables
      <4> QED BY <4>1 DEF PhaseOK, HasRead, InTx
    <3>2. CASE q # p
      <4>1. pc'[q] = pc[q] /\ req'[q] = req[q] /\ loaded'[q] = loaded[q] /\ fresh'[q] = fresh[q]
        BY <2>1, <3>2 DEF Typed, Tables
      <4> QED BY <4>1 DEF Typed, Phases, PhaseOK, HasRead
    <3> QED BY <3>1, <3>2
  <2> QED BY <2>3, <2>4 DEF Typed, Phases
<1>2. CASE ~(allowed /\ ~quote.deleted)
  <2>1. RollBack(p, "refused")
    BY <1>2 DEF Submit
  <2> QED BY <2>1, RollBackTyped DEF Final
<1> QED BY <1>1, <1>2
(***************************************************************************)
(* The first read of each handler.                                         *)
(***************************************************************************)
LEMMA LoadTyped == ASSUME Typed, NEW p \in Req, Load(p) PROVE Typed'
<1>1. PriceList(sheets) \in PriceLists
  <2>1. sheets \in [DOMAIN sheets -> Page] /\ DOMAIN sheets \in SUBSET Nat
        /\ IsFiniteSet(DOMAIN sheets) /\ DOMAIN sheets # {}
    BY DEF Typed, Db, RowSets
  <2>2. PriceList(sheets) \in [DOMAIN sheets -> Prices]
    BY <2>1 DEF PriceList, Page
  <2> HIDE DEF PriceList
  <2> QED BY <2>1, <2>2 DEF PriceLists
<1>2. PICK b \in Bases : req' = [req EXCEPT
            ![p] = [NoRequest EXCEPT !.base = IF b THEN quote.updatedAt ELSE NoBase]]
  BY DEF Load
<1>3. [NoRequest EXCEPT !.base = IF b THEN quote.updatedAt ELSE NoBase] \in Requests
  BY NothingTyped DEF Typed, Db, QuoteRow, Requests, NoBase
<1>4. /\ pc' = [pc EXCEPT ![p] = "editing"]
      /\ loaded' = [loaded EXCEPT ![p] = [pages |-> PriceList(sheets), vat |-> quote.vat]]
      /\ UNCHANGED <<quote, sheets, nextId, history, quoteLock, want, held, seen, fresh>>
  BY DEF Load, db, locks
<1>5. [pages |-> PriceList(sheets), vat |-> quote.vat] \in Loads
  BY <1>1 DEF Typed, Db, QuoteRow, Loads
<1>6. Db' /\ Tables'
  BY <1>2, <1>3, <1>4, <1>5 DEF Typed, Db, Tables, Phase
<1>7. ASSUME NEW q \in Req PROVE PhaseOK(q)'
  <2>1. CASE q = p
    <3>1. pc'[q] = "editing" /\ req'[q].kind = "none" /\ loaded'[q].pages = PriceList(sheets)
      BY <1>2, <1>4, <2>1 DEF Typed, Tables, NoRequest
    <3> QED BY <3>1, <1>1 DEF PhaseOK, HasRead, InTx
  <2>2. CASE q # p
    <3>1. pc'[q] = pc[q] /\ req'[q] = req[q] /\ loaded'[q] = loaded[q] /\ fresh'[q] = fresh[q]
      BY <1>2, <1>4, <2>2 DEF Typed, Tables
    <3> QED BY <3>1 DEF Typed, Phases, PhaseOK, HasRead
  <2> QED BY <2>1, <2>2
<1> QED BY <1>6, <1>7 DEF Typed, Phases

LEMMA ArriveSaveTyped == ASSUME Typed, NEW p \in Req, ArriveSave(p) PROVE Typed'
<1>1. PICK e \in Edits, price \in Prices, v \in VatEdits, n \in Renumbers, s \in Senders :
         Submit(p, [req[p] EXCEPT !.kind = "save", !.vat = v, !.renumber = n, !.right = s,
                    !.payload = PayloadOf(e, loaded[p].pages, price)],
                CanEdit(s) /\ BaseMatches([req[p] EXCEPT !.kind = "save", !.vat = v,
                    !.renumber = n, !.right = s,
                    !.payload = PayloadOf(e, loaded[p].pages, price)]), "arrived")
  BY DEF ArriveSave
<1> DEFINE r == [req[p] EXCEPT !.kind = "save", !.vat = v, !.renumber = n, !.right = s,
                    !.payload = PayloadOf(e, loaded[p].pages, price)]
<1>2. PayloadOf(e, loaded[p].pages, price) \in Payloads
  <2>1. loaded[p].pages \in PriceLists
    BY DEF ArriveSave, Typed, Phases, PhaseOK
  <2> QED BY <2>1, PayloadType DEF EditNames
<1>3. req[p] \in Requests /\ "save" \in Kinds
  BY DEF ArriveSave, Typed, Tables
<1>4. r \in Requests /\ r.kind = "save" /\ r.payload \in Payloads
  BY <1>2, <1>3 DEF Requests, Payloads
<1>5. (CanEdit(s) /\ BaseMatches(r)) \in BOOLEAN
  BY DEF CanEdit, BaseMatches
<1>6. Submit(p, r, CanEdit(s) /\ BaseMatches(r), "arrived")
  BY <1>1
<1> HIDE DEF r
<1> QED BY <1>3, <1>4, <1>5, <1>6, SubmitTyped

LEMMA ArriveHeadTyped == ASSUME Typed, NEW p \in Req, ArriveHead(p) PROVE Typed'
<1>1. PICK v \in VatEdits, s \in Senders :
         Submit(p, [req[p] EXCEPT !.kind = "head", !.vat = v, !.right = s],
                CanEdit(s) /\ BaseMatches([req[p] EXCEPT !.kind = "head", !.vat = v, !.right = s]),
                IF v = Keep THEN "commit" ELSE "arrived")
  BY DEF ArriveHead
<1> DEFINE r == [req[p] EXCEPT !.kind = "head", !.vat = v, !.right = s]
           phase == IF v = Keep THEN "commit" ELSE "arrived"
<1>2. req[p] \in Requests /\ "head" \in Kinds
  BY DEF ArriveHead, Typed, Tables
<1>3. r \in Requests /\ r.kind = "head" /\ r.vat = v
  BY <1>2 DEF Requests
<1>4. (CanEdit(s) /\ BaseMatches(r)) \in BOOLEAN
  BY DEF CanEdit, BaseMatches
<1>5. Submit(p, r, CanEdit(s) /\ BaseMatches(r), phase)
  BY <1>1
<1>6. phase \in {"arrived", "commit"} /\ (phase = "commit" => v = Keep)
  OBVIOUS
<1>7. /\ r.kind \in Kinds /\ r.kind \notin {"save", "decide", "convert"}
      /\ phase = "commit" => r.vat = Keep
  BY <1>2, <1>3, <1>6
<1> DEFINE allowed == CanEdit(s) /\ BaseMatches(r)
<1> HIDE DEF r, phase, allowed
<1>8. Submit(p, r, allowed, phase) /\ allowed \in BOOLEAN
  BY <1>4, <1>5 DEF allowed
<1> QED BY <1>3, <1>6, <1>7, <1>8, SubmitTyped

(* The routes that name one page.                                          *)
LEMMA OnePageTyped ==
    ASSUME Typed, NEW p \in Req, NEW values \in SUBSET (Decision \cup {"set", "clear"}),
           NEW kind \in {"decide", "invoice", "sign"}, NEW allowed \in BOOLEAN,
           NEW phase \in {"arrived", "commit"}, OnePage(p, kind, values, allowed, phase),
           kind = "decide" => values = Decision /\ phase = "arrived"
    PROVE  Typed'
<1>1. PICK i \in DOMAIN sheets, v \in values :
         Submit(p, [NoRequest EXCEPT !.kind = kind, !.target = i, !.value = v], allowed, phase)
  BY DEF OnePage
<1> DEFINE r == [NoRequest EXCEPT !.kind = kind, !.target = i, !.value = v]
<1>2. kind \in Kinds /\ i \in Nat
  BY DEF OnePage, Typed, Db, RowSets
<1>3. r \in Requests /\ r.kind = kind /\ r.value = v
  BY <1>2, NothingTyped DEF Requests
<1>4. Submit(p, r, allowed, phase)
  BY <1>1
<1> HIDE DEF r
<1> QED BY <1>2, <1>3, <1>4, SubmitTyped

LEMMA WholeQuoteTyped ==
    ASSUME Typed, NEW p \in Req, NEW kind \in {"convert", "lost"},
           NEW phase \in {"arrived", "commit"}, WholeQuote(p, kind, phase),
           kind = "convert" => phase = "arrived"
    PROVE  Typed'
<1> DEFINE r == [NoRequest EXCEPT !.kind = kind]
<1>1. Submit(p, r, quote.status \notin Terminal, phase) /\ kind \in Kinds
  BY DEF WholeQuote
<1>2. r \in Requests /\ r.kind = kind
  BY <1>1, NothingTyped DEF Requests
<1>3. (quote.status \notin Terminal) \in BOOLEAN
  OBVIOUS
<1> HIDE DEF r
<1> QED BY <1>1, <1>2, <1>3, SubmitTyped

LEMMA ArriveDeleteTyped == ASSUME Typed, NEW p \in Req, ArriveDelete(p) PROVE Typed'
<1>1. PICK s \in Senders :
         Submit(p, [NoRequest EXCEPT !.kind = "delete", !.right = s], MayDelete(s), "commit")
  BY DEF ArriveDelete
<1> DEFINE r == [NoRequest EXCEPT !.kind = "delete", !.right = s]
<1>2. "delete" \in Kinds
  BY DEF ArriveDelete
<1>3. r \in Requests /\ r.kind = "delete"
  BY <1>2, NothingTyped DEF Requests
<1>4. Submit(p, r, MayDelete(s), "commit") /\ MayDelete(s) \in BOOLEAN
  BY <1>1 DEF MayDelete
<1> HIDE DEF r
<1> QED BY <1>2, <1>3, <1>4, SubmitTyped

LEMMA ArriveTyped == ASSUME Typed, NEW p \in Req, Arrive(p) PROVE Typed'
<1>1. CASE Load(p)
  BY <1>1, LoadTyped
<1>2. CASE ArriveSave(p)
  BY <1>2, ArriveSaveTyped
<1>3. CASE ArriveHead(p)
  BY <1>3, ArriveHeadTyped
<1>4. CASE ArriveDecide(p)
  BY <1>4, OnePageTyped DEF ArriveDecide
<1>5. CASE ArriveInvoice(p)
  <2>1. (quote.status = "converted") \in BOOLEAN
    OBVIOUS
  <2> QED BY <1>5, <2>1, OnePageTyped DEF ArriveInvoice
<1>6. CASE ArriveSign(p)
  <2>1. (quote.status = "converted") \in BOOLEAN
    OBVIOUS
  <2> QED BY <1>6, <2>1, OnePageTyped DEF ArriveSign
<1>7. CASE ArriveConvert(p)
  BY <1>7, WholeQuoteTyped DEF ArriveConvert
<1>8. CASE ArriveLost(p)
  BY <1>8, WholeQuoteTyped DEF ArriveLost
<1>9. CASE ArriveDelete(p)
  BY <1>9, ArriveDeleteTyped
<1> QED BY <1>1, <1>2, <1>3, <1>4, <1>5, <1>6, <1>7, <1>8, <1>9 DEF Arrive
(***************************************************************************)
(* The steps of a transaction.                                             *)
(***************************************************************************)
(* A step of one request that keeps the data and what requests carry.      *)
LEMMA LockStepTyped ==
    ASSUME Typed, NEW p \in Req, NEW phase \in Phase,
           pc' = [pc EXCEPT ![p] = phase],
           UNCHANGED <<quote, sheets, nextId, history, req, loaded, seen, fresh>>,
           quoteLock' \in Req \cup {NoReq},
           held' \in [Req -> SUBSET (1..(nextId - 1))],
           want' \in [Req -> SUBSET (1..(nextId - 1))],
           pc[p] \in InTx \cup {"arrived"}, phase \in InTx,
           phase = "quote" => req[p].kind = "save",
           phase = "erase" => pc[p] = "erase",
           phase = "commit" => pc[p] = "erase" \/ req[p].kind = "invoice"
    PROVE  Typed'
<1>1. Db' /\ Tables'
  BY DEF Typed, Db, Tables
<1>2. ASSUME NEW q \in Req PROVE PhaseOK(q)'
  <2>1. PhaseOK(q) /\ PhaseOK(p)
    BY DEF Typed, Phases
  <2>2. CASE q = p
    <3>1. pc'[q] = phase
      BY <2>2 DEF Typed, Tables
    <3>2. pc[p] = "erase" => HasRead(p) /\ req[p].kind = "save"
      BY <2>1 DEF HasRead, PhaseOK
    <3> QED BY <3>1, <3>2, <2>1, <2>2 DEF PhaseOK, HasRead, InTx
  <2>3. CASE q # p
    <3>1. pc'[q] = pc[q]
      BY <2>3 DEF Typed, Tables
    <3> QED BY <3>1, <2>1 DEF PhaseOK, HasRead
  <2> QED BY <2>2, <2>3
<1> QED BY <1>1, <1>2 DEF Typed, Phases

LEMMA StartRowsTyped == ASSUME Typed, NEW p \in Req, StartRows(p) PROVE Typed'
<1>1. /\ pc[p] = "arrived" /\ pc' = [pc EXCEPT ![p] = "rows"]
      /\ want' = [want EXCEPT ![p] = DOMAIN sheets]
      /\ UNCHANGED <<quote, sheets, nextId, history, req, loaded, seen, fresh, quoteLock, held>>
  BY DEF StartRows, db, local
<1>2. want' \in [Req -> SUBSET (1..(nextId - 1))]
  BY <1>1 DEF Typed, Db, Tables
<1>3. quoteLock' \in Req \cup {NoReq} /\ held' \in [Req -> SUBSET (1..(nextId - 1))]
  BY <1>1 DEF Typed, Tables
<1> QED BY <1>1, <1>2, <1>3, LockStepTyped DEF Phase, InTx

LEMMA LockRowTyped == ASSUME Typed, NEW p \in Req, LockRow(p) PROVE Typed'
<1> DEFINE rest == want[p] \cap DOMAIN sheets
<1>1. /\ pc[p] \in {"rows", "erase"}
      /\ UNCHANGED <<quote, sheets, nextId, history, req, loaded, seen, fresh, quoteLock>>
  BY DEF LockRow, db, local
<1>2. /\ held \in [Req -> SUBSET (1..(nextId - 1))]
      /\ want \in [Req -> SUBSET (1..(nextId - 1))]
      /\ quoteLock \in Req \cup {NoReq}
      /\ DOMAIN sheets \in SUBSET Nat
  BY DEF Typed, Tables, Db, RowSets
<1>3. /\ AfterRows(p) \in InTx
      /\ AfterRows(p) = "quote" => req[p].kind = "save"
      /\ AfterRows(p) # "erase"
      /\ AfterRows(p) = "commit" => pc[p] = "erase" \/ req[p].kind = "invoice"
  BY DEF AfterRows, InTx
<1>4. rest # {} => NextRow(p) \in rest
  BY <1>2, MinNat DEF NextRow
<1>5. CASE rest = {}
  <2>1. /\ want' = [want EXCEPT ![p] = {}] /\ held' = held
        /\ pc' = [pc EXCEPT ![p] = AfterRows(p)]
    BY <1>5 DEF LockRow
  <2>2. want' \in [Req -> SUBSET (1..(nextId - 1))] /\ held' \in [Req -> SUBSET (1..(nextId - 1))]
    BY <1>2, <2>1
  <2> QED BY <1>1, <1>2, <1>3, <2>1, <2>2, LockStepTyped DEF Phase, InTx
<1>6. CASE rest # {}
  <2> DEFINE i == NextRow(p)
             phase == IF rest = {i} THEN AfterRows(p) ELSE pc[p]
  <2>1. /\ want' = [want EXCEPT ![p] = rest \ {i}]
        /\ held' = [held EXCEPT ![p] = @ \cup {i}]
        /\ pc' = [pc EXCEPT ![p] = phase]
    BY <1>6 DEF LockRow
  <2>2. i \in 1..(nextId - 1)
    BY <1>2, <1>4, <1>6
  <2>3. want' \in [Req -> SUBSET (1..(nextId - 1))] /\ held' \in [Req -> SUBSET (1..(nextId - 1))]
    BY <1>2, <2>1, <2>2
  <2>4. /\ phase \in InTx
        /\ phase = "quote" => req[p].kind = "save"
        /\ phase = "erase" => pc[p] = "erase"
        /\ phase = "commit" => pc[p] = "erase" \/ req[p].kind = "invoice"
    BY <1>1, <1>3 DEF InTx
  <2> HIDE DEF phase
  <2> QED BY <1>1, <1>2, <2>1, <2>3, <2>4, LockStepTyped DEF Phase, InTx
<1> QED BY <1>5, <1>6

LEMMA LockQuoteTyped == ASSUME Typed, NEW p \in Req, LockQuote(p) PROVE Typed'
<1>1. /\ pc[p] = "quote" /\ pc' = [pc EXCEPT ![p] = "read"] /\ quoteLock' = p
      /\ UNCHANGED <<quote, sheets, nextId, history, req, loaded, seen, fresh, want, held>>
  BY DEF LockQuote, db, local
<1>2. /\ want' \in [Req -> SUBSET (1..(nextId - 1))]
      /\ held' \in [Req -> SUBSET (1..(nextId - 1))]
  BY <1>1 DEF Typed, Tables
<1> QED BY <1>1, <1>2, LockStepTyped DEF Phase, InTx

LEMMA ReadTyped == ASSUME Typed, NEW p \in Req, Read(p) PROVE Typed'
<1>1. CASE InvoiceStops(p)
  <2>1. RollBack(p, "refused")
    BY <1>1 DEF Read
  <2> QED BY <2>1, RollBackTyped DEF Final
<1>2. CASE ~InvoiceStops(p)
  <2> DEFINE seenNow == [sheets |-> sheets, status |-> quote.status,
                         vat |-> quote.vat, won |-> convertedTotal # NoTotal]
             rest == IF req[p].kind = "save" THEN DOMAIN sheets \ held[p] ELSE {}
             phase == IF rest = {} THEN "commit" ELSE "erase"
  <2>1. /\ pc[p] = "read"
        /\ fresh' = [fresh EXCEPT ![p] = seenNow]
        /\ want' = [want EXCEPT ![p] = rest]
        /\ pc' = [pc EXCEPT ![p] = phase]
        /\ UNCHANGED <<quote, sheets, nextId, history, quoteLock, held, req, loaded, seen>>
    BY <1>2 DEF Read, db
  <2>2. seenNow \in Reads /\ seenNow.sheets \in RowSets /\ seenNow.vat \in Vats
    BY DEF Typed, Db, QuoteRow, Reads
  <2>3. rest \in SUBSET (1..(nextId - 1))
    BY DEF Typed, Db
  <2>4. phase \in {"commit", "erase"} /\ (phase = "erase" => req[p].kind = "save")
    OBVIOUS
  <2> HIDE DEF seenNow, rest, phase
  <2>5. Db' /\ Tables'
    BY <2>1, <2>2, <2>3, <2>4 DEF Typed, Db, Tables, Phase, InTx
  <2>6. ASSUME NEW q \in Req PROVE PhaseOK(q)'
    <3>1. PhaseOK(q)
      BY DEF Typed, Phases
    <3>2. CASE q = p
      <4>1. pc'[q] = phase /\ fresh'[q] = seenNow
        BY <2>1, <3>2 DEF Typed, Tables
      <4> QED BY <4>1, <2>1, <2>2, <2>4, <3>1, <3>2 DEF PhaseOK, InTx
    <3>3. CASE q # p
      <4>1. pc'[q] = pc[q] /\ fresh'[q] = fresh[q]
        BY <2>1, <3>3 DEF Typed, Tables
      <4> QED BY <4>1, <2>1, <3>1 DEF PhaseOK, HasRead
    <3> QED BY <3>2, <3>3
  <2> QED BY <2>5, <2>6 DEF Typed, Phases
<1> QED BY <1>1, <1>2
(***************************************************************************)
(* The commits.                                                            *)
(***************************************************************************)
LEMMA VatForIn == ASSUME Typed, NEW p \in Req, HasRead(p) PROVE VatFor(p) \in Vats
<1>1. req[p] \in Requests /\ fresh[p].vat \in Vats
  BY DEF Typed, Tables, Phases, PhaseOK
<1> QED BY <1>1 DEF VatFor, Requests

LEMMA SnapshotDomain ==
    ASSUME Db, NEW version \in Nat, version \in {quote.version, quote.version + 1},
           NEW amount
    PROVE  DOMAIN Snapshot(version, amount) \subseteq 1..version
<1>1. /\ quote.version \in Nat /\ quote.version >= 1
      /\ DOMAIN history \subseteq 1..quote.version
  BY DEF Db, QuoteRow
<1>2. DOMAIN Snapshot(version, amount) \subseteq DOMAIN history \cup {version}
  BY DEF Snapshot
<1> QED BY <1>1, <1>2

LEMMA WritePricedTyped ==
    ASSUME Typed, NEW p \in Req, HasRead(p), NEW seq \in Nat, NEW pages,
           WritePriced(p, pages, seq)
    PROVE  /\ quote' \in QuoteRow
           /\ quote'.version >= 1
           /\ DOMAIN history' \subseteq 1..quote'.version
<1>1. quote \in QuoteRow /\ seen[p].status \in Status
  BY DEF Typed, Db, Tables, Sights
<1>2. quote' = [quote EXCEPT !.vat = VatStored(p), !.status = Reopened(p), !.seq = seq,
                             !.updatedAt = @ + 1, !.version = NextVersion(p)]
  BY DEF WritePriced
<1>3. Reopened(p) \in Status
  BY <1>1 DEF Reopened, QuoteRow, Status
<1>4. NextVersion(p) = quote.version + 1 /\ NextVersion(p) \in Nat
  BY <1>1 DEF NextVersion, QuoteRow
<1>5. quote' \in QuoteRow /\ quote'.version = NextVersion(p)
  <2>1. VatStored(p) \in Vats
    BY <1>1 DEF VatStored, QuoteRow, Typed, Tables, Requests
  <2>2. quote.updatedAt + 1 \in Nat
    BY <1>1 DEF QuoteRow
  <2>3. quote' \in QuoteRow
    BY <1>1, <1>2, <1>3, <1>4, <2>1, <2>2 DEF QuoteRow
  <2>4. quote'.version = NextVersion(p)
    BY <1>1, <1>2 DEF QuoteRow
  <2> QED BY <2>3, <2>4
<1>6. DOMAIN Snapshot(NextVersion(p), total') \subseteq 1..NextVersion(p)
  BY <1>4, SnapshotDomain DEF Typed
<1>7. history' = Snapshot(NextVersion(p), total')
  BY DEF WritePriced
<1>8. NextVersion(p) >= 1
  <2>1. quote.version \in Nat
    BY <1>1 DEF QuoteRow
  <2> QED BY <2>1, <1>4
<1> HIDE DEF Snapshot
<1> QED BY <1>5, <1>6, <1>7, <1>8

LEMMA SaveSheetsType ==
    ASSUME Typed, NEW p \in Req, pc[p] = "commit", req[p].kind = "save"
    PROVE  /\ SaveSheets(p) \in RowSets
           /\ DOMAIN SaveSheets(p) = nextId..(nextId + Len(req[p].payload) - 1)
           /\ Len(req[p].payload) \in Nat
           /\ Max({SaveSheets(p)[i].code : i \in DOMAIN SaveSheets(p)}) \in Nat
<1> DEFINE old == fresh[p].sheets
           carry == CarryFrom(req[p].payload, old)
           codes == IF MayRenumber(p) THEN [k \in DOMAIN carry |-> k]
                    ELSE CodesFor(carry, old, seen[p].seq)
           n == Len(req[p].payload)
           new == SaveSheets(p)
<1>1. /\ old \in RowSets /\ req[p].payload \in Payloads
      /\ nextId \in Nat /\ seen[p].seq \in Nat
  BY DEF Typed, Phases, PhaseOK, HasRead, Db, Tables, Sights
<1>2. n \in Nat
  BY <1>1 DEF Payloads
<1>3. carry \in [1..n -> DOMAIN old \cup {NewPage}]
  BY <1>1, CarryType
<1>4. codes \in [1..n -> Nat]
  <2>1. [k \in DOMAIN carry |-> k] \in [1..n -> Nat]
    BY <1>3
  <2>2. CodesFor(carry, old, seen[p].seq) \in [1..n -> Nat]
    BY <1>1, <1>2, <1>3, CodesType
  <2> QED BY <2>1, <2>2
<1>5. new = RecreatedSheets(req[p].payload, carry, codes, old, nextId)
  BY DEF SaveSheets
<1>6. new \in RowSets /\ DOMAIN new = nextId..(nextId + n - 1)
  <2> HIDE DEF carry, codes, old
  <2>1. /\ DOMAIN RecreatedSheets(req[p].payload, carry, codes, old, nextId)
             = nextId..(nextId + n - 1)
        /\ RecreatedSheets(req[p].payload, carry, codes, old, nextId) \in RowSets
    BY <1>1, <1>3, <1>4, RowsType
  <2> QED BY <1>5, <2>1
<1>7. Max({new[i].code : i \in DOMAIN new}) \in Nat
  <2> HIDE DEF new
  <2> DEFINE f == [i \in DOMAIN new |-> new[i].code]
  <2>1. IsFiniteSet(DOMAIN new) /\ DOMAIN new # {} /\ f \in [DOMAIN new -> Nat]
    <3>1. /\ IsFiniteSet(DOMAIN new) /\ DOMAIN new # {}
          /\ new \in [DOMAIN new -> Page]
      BY <1>6 DEF RowSets
    <3>2. \A i \in DOMAIN new : new[i].code \in Nat
      BY <3>1 DEF Page
    <3> QED BY <3>1, <3>2
  <2>2. {new[i].code : i \in DOMAIN new} = {f[i] : i \in DOMAIN new}
    OBVIOUS
  <2>3. {f[i] : i \in DOMAIN new} \in SUBSET Nat /\ {f[i] : i \in DOMAIN new} # {}
    BY <2>1
  <2> HIDE DEF f
  <2>4. IsFiniteSet({f[i] : i \in DOMAIN new})
    BY <2>1, FiniteImage
  <2> QED BY <2>2, <2>3, <2>4, MaxNat
<1> QED BY <1>2, <1>6, <1>7

LEMMA CommitSaveTyped == ASSUME Typed, NEW p \in Req, CommitSave(p) PROVE Typed'
<1>1. CASE ~BaseHolds(p)
  <2>1. RollBack(p, "refused")
    BY <1>1 DEF CommitSave
  <2> QED BY <2>1, RollBackTyped DEF Final
<1>2. CASE BaseHolds(p)
  <2> DEFINE new == SaveSheets(p)
             n == Len(req[p].payload)
             top == Max({new[i].code : i \in DOMAIN new})
             seq == IF MayRenumber(p) THEN n ELSE Max({seen[p].seq, top})
  <2>1. pc[p] = "commit" /\ req[p].kind = "save"
    BY DEF CommitSave
  <2>2. /\ sheets' = new /\ nextId' = nextId + n
        /\ WritePriced(p, new, seq)
        /\ Finish(p, "ok")
    BY <1>2 DEF CommitSave
  <2>3. new \in RowSets /\ DOMAIN new = nextId..(nextId + n - 1) /\ n \in Nat /\ top \in Nat
    BY <2>1, SaveSheetsType
  <2>4. nextId \in Nat /\ nextId' \in Nat /\ nextId' >= nextId
    BY <2>2, <2>3 DEF Typed, Db
  <2>5. seq \in Nat
    <3> HIDE DEF top, n
    <3>1. seen[p].seq \in Nat
      BY DEF Typed, Tables, Sights
    <3>2. IsFiniteSet({seen[p].seq, top}) /\ {seen[p].seq, top} \in SUBSET Nat
      <4>1. {seen[p].seq, top} = {seen[p].seq} \cup {top}
        OBVIOUS
      <4>2. IsFiniteSet({seen[p].seq} \cup {top})
        BY FS_Singleton, FS_AddElement
      <4> QED BY <4>1, <4>2, <3>1, <2>3
    <3>3. Max({seen[p].seq, top}) \in Nat
      BY <3>2, MaxNat
    <3> QED BY <3>3, <2>3
  <2>6. HasRead(p)
    BY <2>1 DEF HasRead
  <2> HIDE DEF new, seq, n
  <2>7. quote' \in QuoteRow /\ quote'.version >= 1 /\ DOMAIN history' \subseteq 1..quote'.version
    BY <2>2, <2>5, <2>6, WritePricedTyped
  <2>8. DOMAIN sheets' \subseteq 1..(nextId' - 1)
    <3>1. nextId >= 1
      BY DEF Typed, Db, RowSets
    <3> QED BY <3>1, <2>2, <2>3, <2>4
  <2>9. Db'
    BY <2>2, <2>3, <2>4, <2>7, <2>8 DEF Db
  <2>10. Tables' /\ Phases'
    BY <2>2, <2>4, FinishTyped DEF Typed, Final
  <2> QED BY <2>9, <2>10 DEF Typed
<1> QED BY <1>1, <1>2

LEMMA CommitHeadTyped == ASSUME Typed, NEW p \in Req, CommitHead(p) PROVE Typed'
<1>1. CASE ~BaseHolds(p)
  <2>1. RollBack(p, "refused")
    BY <1>1 DEF CommitHead
  <2> QED BY <2>1, RollBackTyped DEF Final
<1>2. CASE BaseHolds(p)
  <2>1. /\ pc[p] = "commit" /\ req[p].kind = "head" /\ Finish(p, "ok")
        /\ UNCHANGED <<sheets, nextId>>
    BY <1>2 DEF CommitHead
  <2>2. quote \in QuoteRow /\ quote.seq \in Nat /\ quote.version \in Nat
    BY DEF Typed, Db, QuoteRow
  <2>3. quote' \in QuoteRow /\ quote'.version >= 1 /\ DOMAIN history' \subseteq 1..quote'.version
    <3>1. CASE req[p].vat = Keep
      <4>1. /\ quote' = [quote EXCEPT !.updatedAt = @ + 1]
            /\ history' = Snapshot(quote.version, total)
        BY <1>2, <3>1 DEF CommitHead
      <4>2. quote' \in QuoteRow /\ quote'.version = quote.version
        BY <4>1, <2>2 DEF QuoteRow
      <4>3. DOMAIN Snapshot(quote.version, total) \subseteq 1..quote.version
        BY <2>2, SnapshotDomain DEF Typed
      <4> QED BY <4>1, <4>2, <4>3 DEF Typed, Db
    <3>2. CASE req[p].vat # Keep
      <4>1. WritePriced(p, fresh[p].sheets, quote.seq)
        BY <1>2, <3>2 DEF CommitHead
      <4>2. HasRead(p)
        BY <2>1, <3>2 DEF HasRead
      <4> QED BY <4>1, <4>2, <2>2, WritePricedTyped
    <3> QED BY <3>1, <3>2
  <2>4. Db'
    BY <2>1, <2>3 DEF Typed, Db
  <2>5. Tables' /\ Phases'
    BY <2>1, FinishTyped DEF Typed, Db, Final
  <2> QED BY <2>4, <2>5 DEF Typed
<1> QED BY <1>1, <1>2

(* A commit that changes at most what is on one page.                      *)
LEMMA OnePageWriteTyped ==
    ASSUME Typed, NEW p \in Req, Finish(p, "ok"), NEW i \in DOMAIN sheets, NEW row \in Page,
           sheets' = [sheets EXCEPT ![i] = row], UNCHANGED <<quote, nextId, history>>
    PROVE  Typed'
<1>1. sheets' \in RowSets /\ DOMAIN sheets' = DOMAIN sheets
  <2>1. sheets \in [DOMAIN sheets -> Page] /\ DOMAIN sheets \in SUBSET Nat
        /\ IsFiniteSet(DOMAIN sheets) /\ DOMAIN sheets # {}
    BY DEF Typed, Db, RowSets
  <2>2. sheets' \in [DOMAIN sheets -> Page] /\ DOMAIN sheets' = DOMAIN sheets
    BY <2>1
  <2> QED BY <2>1, <2>2 DEF RowSets
<1>2. Db'
  BY <1>1 DEF Typed, Db
<1>3. Tables' /\ Phases'
  BY FinishTyped DEF Typed, Db, Final
<1> QED BY <1>2, <1>3 DEF Typed

LEMMA CommitDecideTyped == ASSUME Typed, NEW p \in Req, CommitDecide(p) PROVE Typed'
<1> DEFINE i == req[p].target
           row == [sheets[i] EXCEPT !.cust = req[p].value]
<1>1. CASE i \notin DOMAIN sheets
  <2>1. RollBack(p, "failed")
    BY <1>1 DEF CommitDecide
  <2> QED BY <2>1, RollBackTyped DEF Final
<1>2. CASE i \in DOMAIN sheets
  <2>1. /\ sheets' = [sheets EXCEPT ![i].cust = req[p].value]
        /\ UNCHANGED <<quote, nextId, history>> /\ Finish(p, "ok")
    BY <1>2 DEF CommitDecide
  <2>2. sheets' = [sheets EXCEPT ![i] = row]
    BY <2>1
  <2>3. row \in Page
    <3>1. req[p].value \in Decision /\ sheets[i] \in Page
      BY <1>2 DEF CommitDecide, Typed, Phases, PhaseOK, Db, RowSets
    <3> QED BY <3>1 DEF Page
  <2> HIDE DEF row, i
  <2> QED BY <1>2, <2>1, <2>2, <2>3, OnePageWriteTyped
<1> QED BY <1>1, <1>2

LEMMA WritePageTyped ==
    ASSUME Typed, NEW p \in Req, CommitInvoice(p) \/ CommitSign(p)
    PROVE  Typed'
<1> DEFINE i == req[p].target
           on == (req[p].value = "set")
<1>1. CASE i \notin DOMAIN sheets
  <2>1. RollBack(p, "failed")
    BY <1>1 DEF CommitInvoice, CommitSign, WritePage
  <2> QED BY <2>1, RollBackTyped DEF Final
<1>2. CASE i \in DOMAIN sheets
  <2>1. UNCHANGED <<quote, nextId, history>> /\ Finish(p, "ok")
    BY <1>2 DEF CommitInvoice, CommitSign, WritePage
  <2>2. sheets[i] \in Page
    BY <1>2 DEF Typed, Db, RowSets
  <2>3. \E row \in Page : sheets' = [sheets EXCEPT ![i] = row]
    <3>1. CASE CommitInvoice(p)
      <4>1. sheets' = [sheets EXCEPT ![i].inv = on]
        BY <1>2, <3>1 DEF CommitInvoice, WritePage
      <4>2. [sheets[i] EXCEPT !.inv = on] \in Page
        BY <2>2 DEF Page
      <4> QED BY <4>1, <4>2
    <3>2. CASE CommitSign(p)
      <4>1. sheets' = [sheets EXCEPT ![i].signed = on]
        BY <1>2, <3>2 DEF CommitSign, WritePage
      <4>2. [sheets[i] EXCEPT !.signed = on] \in Page
        BY <2>2 DEF Page
      <4> QED BY <4>1, <4>2
    <3> QED BY <3>1, <3>2
  <2> HIDE DEF i, on
  <2> QED BY <1>2, <2>1, <2>3, OnePageWriteTyped
<1> QED BY <1>1, <1>2

LEMMA WriteStatusTyped ==
    ASSUME Typed, NEW p \in Req, NEW kind, NEW status \in Status, NEW revenue,
           WriteStatus(p, kind, status, revenue)
    PROVE  Typed'
<1>1. CASE ~NotTerminal
  <2>1. RollBack(p, "refused")
    BY <1>1 DEF WriteStatus
  <2> QED BY <2>1, RollBackTyped DEF Final
<1>2. CASE NotTerminal
  <2>1. /\ quote' = [quote EXCEPT !.updatedAt = @ + 1, !.status = status]
        /\ UNCHANGED <<sheets, nextId, history>> /\ Finish(p, "ok")
    BY <1>2 DEF WriteStatus
  <2>2. quote' \in QuoteRow /\ quote'.version = quote.version
    <3>1. quote \in QuoteRow /\ quote.updatedAt + 1 \in Nat
      BY DEF Typed, Db, QuoteRow
    <3>2. quote' \in QuoteRow
      BY <3>1, <2>1 DEF QuoteRow
    <3>3. quote'.version = quote.version
      BY <3>1, <2>1 DEF QuoteRow
    <3> QED BY <3>2, <3>3
  <2>3. Db'
    BY <2>1, <2>2 DEF Typed, Db
  <2>4. Tables' /\ Phases'
    BY <2>1, FinishTyped DEF Typed, Db, Final
  <2> QED BY <2>3, <2>4 DEF Typed
<1> QED BY <1>1, <1>2

LEMMA CommitDeleteTyped == ASSUME Typed, NEW p \in Req, CommitDelete(p) PROVE Typed'
<1>1. CASE ~StillDeletable(p)
  <2>1. RollBack(p, "refused")
    BY <1>1 DEF CommitDelete
  <2> QED BY <2>1, RollBackTyped DEF Final
<1>2. CASE StillDeletable(p)
  <2>1. /\ quote' = [quote EXCEPT !.deleted = TRUE, !.updatedAt = @ + 1]
        /\ UNCHANGED <<sheets, nextId, history>> /\ Finish(p, "ok")
    BY <1>2 DEF CommitDelete
  <2>2. quote' \in QuoteRow /\ quote'.version = quote.version
    <3>1. quote \in QuoteRow /\ quote.updatedAt + 1 \in Nat
      BY DEF Typed, Db, QuoteRow
    <3>2. quote' \in QuoteRow
      BY <3>1, <2>1 DEF QuoteRow
    <3>3. quote'.version = quote.version
      BY <3>1, <2>1 DEF QuoteRow
    <3> QED BY <3>2, <3>3
  <2>3. Db'
    BY <2>1, <2>2 DEF Typed, Db
  <2>4. Tables' /\ Phases'
    BY <2>1, FinishTyped DEF Typed, Db, Final
  <2> QED BY <2>3, <2>4 DEF Typed
<1> QED BY <1>1, <1>2
LEMMA StepTyped == ASSUME Typed, NEW p \in Req, Step(p) PROVE Typed'
<1>1. CASE StartRows(p)
  BY <1>1, StartRowsTyped
<1>2. CASE LockRow(p)
  BY <1>2, LockRowTyped
<1>3. CASE LockQuote(p)
  BY <1>3, LockQuoteTyped
<1>4. CASE Read(p)
  BY <1>4, ReadTyped
<1>5. CASE CommitSave(p)
  BY <1>5, CommitSaveTyped
<1>6. CASE CommitHead(p)
  BY <1>6, CommitHeadTyped
<1>7. CASE CommitDecide(p)
  BY <1>7, CommitDecideTyped
<1>8. CASE CommitInvoice(p) \/ CommitSign(p)
  BY <1>8, WritePageTyped
<1>9. CASE CommitConvert(p)
  BY <1>9, WriteStatusTyped DEF CommitConvert, Status
<1>10. CASE CommitLost(p)
  BY <1>10, WriteStatusTyped DEF CommitLost, Status
<1>11. CASE CommitDelete(p)
  BY <1>11, CommitDeleteTyped
<1>12. CASE DeadlockAbort(p)
  BY <1>12, RollBackTyped DEF DeadlockAbort, Final
<1> QED BY <1>1, <1>2, <1>3, <1>4, <1>5, <1>6, <1>7, <1>8, <1>9, <1>10, <1>11, <1>12 DEF Step

LEMMA StutterTyped == ASSUME Typed, UNCHANGED vars PROVE Typed'
<1>1. UNCHANGED <<quote, nextId, sheets, history, quoteLock, pc, req, loaded, seen, fresh,
                  held, want>>
  BY DEF vars, db, locks, local
<1>2. Db' /\ Tables'
  BY <1>1 DEF Typed, Db, Tables
<1>3. Phases'
  BY <1>1 DEF Typed, Phases, PhaseOK, HasRead
<1> QED BY <1>2, <1>3 DEF Typed

LEMMA NextTyped == Typed /\ [Next]_vars => Typed'
<1> SUFFICES ASSUME Typed, [Next]_vars PROVE Typed'
  OBVIOUS
<1>1. CASE UNCHANGED vars
  BY <1>1, StutterTyped
<1>2. CASE AllServed
  BY <1>2, StutterTyped DEF AllServed
<1>3. ASSUME NEW p \in Req, Arrive(p) PROVE Typed'
  BY <1>3, ArriveTyped
<1>4. ASSUME NEW p \in Req, Step(p) PROVE Typed'
  BY <1>4, StepTyped
<1>5. ASSUME NEW p \in Req, Fail(p) PROVE Typed'
  BY <1>5, RollBackTyped DEF Fail, Final
<1> QED BY <1>1, <1>2, <1>3, <1>4, <1>5 DEF Next

(* The strengthened type invariant: the rows, the tables of the requests,  *)
(* and what a request in each phase of its handler has read and carries.   *)
THEOREM TypedInvariant == Spec => []Typed
BY InitTyped, NextTyped, PTL DEF Spec

LEMMA TypedImpliesTypeOK == Typed => TypeOK
<1> SUFFICES ASSUME Typed PROVE TypeOK
  OBVIOUS
<1>1. sheets \in [DOMAIN sheets -> Page]
  BY DEF Typed, Db, RowSets
<1>2. \A p \in Req : pc[p] \in InTx => req[p].kind \in Kinds
  BY DEF Typed, Phases, PhaseOK
<1> QED BY <1>1, <1>2 DEF Typed, Db, Tables, QuoteRow, Phase, TypeOK

(* The state keeps its shape: every row id is below nextId, a request in   *)
(* its transaction is one of the handlers, no version is from the future.  *)
THEOREM TypeCorrect == Spec => []TypeOK
BY TypedInvariant, TypedImpliesTypeOK, PTL
(***************************************************************************)
(* The shape of a step: what it leaves alone.                              *)
(***************************************************************************)
OthersKept(p) ==
    \A q \in Req \ {p} :
        /\ pc'[q] = pc[q] /\ req'[q] = req[q] /\ loaded'[q] = loaded[q]
        /\ seen'[q] = seen[q] /\ fresh'[q] = fresh[q]
        /\ held'[q] = held[q] /\ want'[q] = want[q]

(* The request ended.                                                      *)
Ended(p) ==
    /\ pc'[p] \in Final /\ req'[p] = NoRequest /\ loaded'[p] = NothingLoaded
    /\ seen'[p] = NothingSeen /\ fresh'[p] = NothingRead /\ held'[p] = {} /\ want'[p] = {}
    /\ quoteLock' = IF quoteLock = p THEN NoReq ELSE quoteLock

(* A handler's first checks passed.                                        *)
Accepted(p) ==
    /\ ~quote.deleted /\ pc'[p] \in {"arrived", "commit"}
    /\ seen'[p] = [status |-> quote.status, seq |-> quote.seq]
    /\ req'[p].kind \in {"invoice", "sign"} => quote.status = "converted"
    /\ req'[p].kind = "invoice" => pc'[p] = "arrived"
    /\ \/ /\ pc[p] = "editing" /\ req'[p].base = req[p].base
       \/ pc[p] = "idle" /\ req'[p].base = NoBase /\ req'[p].kind \notin {"save", "head"}
    /\ UNCHANGED <<db, locks, loaded, fresh>>

(* An open transaction took a lock or read.                                *)
Advanced(p) ==
    /\ pc[p] \in InTx \cup {"arrived"} /\ pc'[p] \in InTx
    /\ UNCHANGED <<db, local>>

LEMMA FinishShape ==
    ASSUME Tables, NEW p \in Req, NEW result \in Final, Finish(p, result)
    PROVE  OthersKept(p) /\ Ended(p) /\ pc'[p] = result
BY DEF Tables, Finish, OthersKept, Ended

LEMMA RollBackShape ==
    ASSUME Typed, NEW p \in Req, NEW result \in Final, RollBack(p, result)
    PROVE  OthersKept(p) /\ Ended(p) /\ pc'[p] = result /\ UNCHANGED db
BY FinishShape DEF RollBack, Typed

LEMMA SubmitShape ==
    ASSUME Typed, NEW p \in Req, NEW r, NEW allowed, NEW phase \in {"arrived", "commit"},
           Submit(p, r, allowed, phase),
           allowed => (r.kind \in {"invoice", "sign"} => quote.status = "converted"),
           r.kind = "invoice" => phase = "arrived",
           \/ pc[p] = "editing" /\ r.base = req[p].base
           \/ pc[p] = "idle" /\ r.base = NoBase /\ r.kind \notin {"save", "head"}
    PROVE  /\ OthersKept(p)
           /\ Accepted(p) \/ (Ended(p) /\ pc'[p] = "refused" /\ UNCHANGED db)
<1>1. CASE allowed /\ ~quote.deleted
  <2>1. /\ req' = [req EXCEPT ![p] = r]
        /\ seen' = [seen EXCEPT ![p] = [status |-> quote.status, seq |-> quote.seq]]
        /\ pc' = [pc EXCEPT ![p] = phase]
        /\ UNCHANGED <<db, locks, loaded, fresh>>
    BY <1>1 DEF Submit
  <2>2. req'[p] = r /\ pc'[p] = phase
        /\ seen'[p] = [status |-> quote.status, seq |-> quote.seq]
    BY <2>1 DEF Typed, Tables
  <2>3. Accepted(p)
    BY <1>1, <2>1, <2>2 DEF Accepted
  <2>4. OthersKept(p)
    BY <2>1 DEF OthersKept, Typed, Tables, locks
  <2> QED BY <2>3, <2>4
<1>2. CASE ~(allowed /\ ~quote.deleted)
  <2>1. RollBack(p, "refused")
    BY <1>2 DEF Submit
  <2> QED BY <2>1, RollBackShape DEF Final
<1> QED BY <1>1, <1>2

(* The editor's read.                                                      *)
Opened(p) ==
    /\ pc[p] = "idle" /\ pc'[p] = "editing" /\ ~quote.deleted
    /\ loaded'[p] = [pages |-> PriceList(sheets), vat |-> quote.vat]
    /\ req'[p].kind = "none" /\ req'[p].base \in {quote.updatedAt, NoBase}
    /\ FALSE \notin Bases => req'[p].base = quote.updatedAt
    /\ UNCHANGED <<db, locks, seen, fresh>>

LEMMA ArriveShape ==
    ASSUME Typed, NEW p \in Req, Arrive(p)
    PROVE  /\ OthersKept(p) /\ pc[p] \in {"idle", "editing"}
           /\ \/ Opened(p) \/ Accepted(p)
              \/ Ended(p) /\ pc'[p] = "refused" /\ UNCHANGED db
<1>1. CASE Load(p)
  <2>1. PICK b \in Bases : req' = [req EXCEPT
            ![p] = [NoRequest EXCEPT !.base = IF b THEN quote.updatedAt ELSE NoBase]]
    BY <1>1 DEF Load
  <2>2. /\ req'[p].base = IF b THEN quote.updatedAt ELSE NoBase
        /\ req'[p].kind = "none"
    BY <2>1 DEF Typed, Tables, NoRequest
  <2>3. Opened(p)
    BY <1>1, <2>2 DEF Load, Opened, Typed, Tables
  <2>4. OthersKept(p)
    BY <1>1, <2>1 DEF Load, OthersKept, Typed, Tables, locks
  <2> QED BY <2>3, <2>4 DEF Opened
<1>2. CASE ArriveSave(p)
  <2>1. PICK e \in Edits, price \in Prices, v \in VatEdits, n \in Renumbers, s \in Senders :
         LET r == [req[p] EXCEPT !.kind = "save", !.vat = v, !.renumber = n, !.right = s,
                    !.payload = PayloadOf(e, loaded[p].pages, price)]
         IN Submit(p, r, CanEdit(s) /\ BaseMatches(r), "arrived")
    BY <1>2 DEF ArriveSave
  <2> DEFINE r == [req[p] EXCEPT !.kind = "save", !.vat = v, !.renumber = n, !.right = s,
                    !.payload = PayloadOf(e, loaded[p].pages, price)]
  <2>2. r.kind = "save" /\ r.base = req[p].base
    BY DEF Typed, Tables, Requests
  <2>3. pc[p] = "editing" /\ Submit(p, r, CanEdit(s) /\ BaseMatches(r), "arrived")
    BY <1>2, <2>1 DEF ArriveSave
  <2> HIDE DEF r
  <2> QED BY <2>2, <2>3, SubmitShape
<1>3. CASE ArriveHead(p)
  <2>1. PICK v \in VatEdits, s \in Senders :
         LET r == [req[p] EXCEPT !.kind = "head", !.vat = v, !.right = s]
         IN Submit(p, r, CanEdit(s) /\ BaseMatches(r), IF v = Keep THEN "commit" ELSE "arrived")
    BY <1>3 DEF ArriveHead
  <2> DEFINE r == [req[p] EXCEPT !.kind = "head", !.vat = v, !.right = s]
             phase == IF v = Keep THEN "commit" ELSE "arrived"
  <2>2. r.kind = "head" /\ r.base = req[p].base /\ phase \in {"arrived", "commit"}
    BY DEF Typed, Tables, Requests
  <2>3. pc[p] = "editing" /\ Submit(p, r, CanEdit(s) /\ BaseMatches(r), phase)
    BY <1>3, <2>1 DEF ArriveHead
  <2> HIDE DEF r, phase
  <2> QED BY <2>2, <2>3, SubmitShape
<1>4. ASSUME NEW kind \in {"decide", "invoice", "sign"}, NEW values, NEW allowed,
             NEW phase \in {"arrived", "commit"}, OnePage(p, kind, values, allowed, phase),
             allowed => (kind \in {"invoice", "sign"} => quote.status = "converted"),
             kind = "invoice" => phase = "arrived"
      PROVE  /\ OthersKept(p) /\ pc[p] = "idle"
             /\ Accepted(p) \/ (Ended(p) /\ pc'[p] = "refused" /\ UNCHANGED db)
  <2>1. PICK i \in DOMAIN sheets, v \in values :
         Submit(p, [NoRequest EXCEPT !.kind = kind, !.target = i, !.value = v], allowed, phase)
    BY <1>4 DEF OnePage
  <2> DEFINE r == [NoRequest EXCEPT !.kind = kind, !.target = i, !.value = v]
  <2>2. r.kind = kind /\ r.base = NoBase /\ pc[p] = "idle"
    BY <1>4 DEF NoRequest, OnePage
  <2>3. Submit(p, r, allowed, phase)
    BY <2>1
  <2> HIDE DEF r
  <2> QED BY <1>4, <2>2, <2>3, SubmitShape
<1>5. CASE ArriveDecide(p)
  BY <1>4, <1>5 DEF ArriveDecide
<1>6. CASE ArriveInvoice(p)
  BY <1>4, <1>6 DEF ArriveInvoice
<1>7. CASE ArriveSign(p)
  BY <1>4, <1>7 DEF ArriveSign
<1>8. ASSUME NEW kind \in {"convert", "lost"}, NEW phase \in {"arrived", "commit"},
             WholeQuote(p, kind, phase)
      PROVE  /\ OthersKept(p) /\ pc[p] = "idle"
             /\ Accepted(p) \/ (Ended(p) /\ pc'[p] = "refused" /\ UNCHANGED db)
  <2> DEFINE r == [NoRequest EXCEPT !.kind = kind]
  <2>1. r.kind = kind /\ r.base = NoBase /\ pc[p] = "idle"
    BY <1>8 DEF NoRequest, WholeQuote
  <2>2. Submit(p, r, quote.status \notin Terminal, phase)
    BY <1>8 DEF WholeQuote
  <2> HIDE DEF r
  <2> QED BY <1>8, <2>1, <2>2, SubmitShape
<1>9. CASE ArriveConvert(p)
  BY <1>8, <1>9 DEF ArriveConvert
<1>10. CASE ArriveLost(p)
  BY <1>8, <1>10 DEF ArriveLost
<1>11. CASE ArriveDelete(p)
  <2>1. PICK s \in Senders :
         Submit(p, [NoRequest EXCEPT !.kind = "delete", !.right = s], MayDelete(s), "commit")
    BY <1>11 DEF ArriveDelete
  <2> DEFINE r == [NoRequest EXCEPT !.kind = "delete", !.right = s]
  <2>2. r.kind = "delete" /\ r.base = NoBase /\ pc[p] = "idle"
    BY <1>11 DEF NoRequest, ArriveDelete
  <2>3. Submit(p, r, MayDelete(s), "commit")
    BY <2>1
  <2> HIDE DEF r
  <2> QED BY <2>2, <2>3, SubmitShape
<1> QED BY <1>1, <1>2, <1>3, <1>5, <1>6, <1>7, <1>9, <1>10, <1>11 DEF Arrive
(* The reads under the locks succeeded.                                    *)
ReadOn(p) ==
    /\ pc[p] = "read" /\ pc'[p] \in {"commit", "erase"} /\ ~InvoiceStops(p)
    /\ fresh'[p] = [sheets |-> sheets, status |-> quote.status,
                    vat |-> quote.vat, won |-> convertedTotal # NoTotal]
    /\ UNCHANGED <<db, quoteLock, held, req, loaded, seen>>

Commits(p) ==
    \/ CommitSave(p) \/ CommitHead(p) \/ CommitDecide(p) \/ CommitInvoice(p)
    \/ CommitSign(p) \/ CommitConvert(p) \/ CommitLost(p) \/ CommitDelete(p)

LEMMA AdvanceShape ==
    ASSUME Typed, NEW p \in Req, StartRows(p) \/ LockRow(p) \/ LockQuote(p)
    PROVE  OthersKept(p) /\ Advanced(p)
<1>1. CASE StartRows(p)
  <2>1. pc'[p] = "rows" /\ pc[p] = "arrived" /\ UNCHANGED <<db, local>>
    BY <1>1 DEF StartRows, Typed, Tables
  <2>2. OthersKept(p)
    BY <1>1 DEF StartRows, Typed, Tables, OthersKept, local
  <2> QED BY <2>1, <2>2 DEF Advanced, InTx
<1>2. CASE LockRow(p)
  <2>1. AfterRows(p) \in InTx
    BY DEF AfterRows, InTx
  <2>2. pc[p] \in {"rows", "erase"} /\ UNCHANGED <<db, local>>
    BY <1>2 DEF LockRow
  <2>3. pc' \in {[pc EXCEPT ![p] = AfterRows(p)], [pc EXCEPT ![p] = pc[p]]}
    BY <1>2 DEF LockRow
  <2>4. Advanced(p)
    BY <2>1, <2>2, <2>3 DEF Advanced, InTx, Typed, Tables
  <2>5. \A q \in Req \ {p} : held'[q] = held[q] /\ want'[q] = want[q]
    BY <1>2 DEF LockRow, Typed, Tables
  <2>6. OthersKept(p)
    BY <2>2, <2>3, <2>5 DEF OthersKept, Typed, Tables, local
  <2> QED BY <2>4, <2>6
<1>3. CASE LockQuote(p)
  <2>1. pc'[p] = "read" /\ pc[p] = "quote" /\ UNCHANGED <<db, local>>
    BY <1>3 DEF LockQuote, Typed, Tables
  <2>2. OthersKept(p)
    BY <1>3 DEF LockQuote, Typed, Tables, OthersKept, local
  <2> QED BY <2>1, <2>2 DEF Advanced, InTx
<1> QED BY <1>1, <1>2, <1>3

LEMMA ReadShape ==
    ASSUME Typed, NEW p \in Req, Read(p)
    PROVE  /\ OthersKept(p)
           /\ ReadOn(p) \/ (Ended(p) /\ pc'[p] = "refused" /\ UNCHANGED db)
<1>1. CASE InvoiceStops(p)
  <2>1. RollBack(p, "refused")
    BY <1>1 DEF Read
  <2> QED BY <2>1, RollBackShape DEF Final
<1>2. CASE ~InvoiceStops(p)
  <2>1. /\ pc[p] = "read"
        /\ fresh' = [fresh EXCEPT ![p] = [sheets |-> sheets, status |-> quote.status,
                         vat |-> quote.vat, won |-> convertedTotal # NoTotal]]
        /\ \E phase \in {"commit", "erase"} : \E rest : /\ pc' = [pc EXCEPT ![p] = phase]
                                                    /\ want' = [want EXCEPT ![p] = rest]
        /\ UNCHANGED <<db, quoteLock, held, req, loaded, seen>>
    BY <1>2 DEF Read
  <2>2. ReadOn(p)
    BY <1>2, <2>1 DEF ReadOn, Typed, Tables
  <2>3. OthersKept(p)
    BY <2>1 DEF OthersKept, Typed, Tables
  <2> QED BY <2>2, <2>3
<1> QED BY <1>1, <1>2

LEMMA CommitShape ==
    ASSUME Typed, NEW p \in Req, Commits(p)
    PROVE  OthersKept(p) /\ Ended(p) /\ pc[p] = "commit"
<1>1. Finish(p, "ok") \/ RollBack(p, "refused") \/ RollBack(p, "failed")
  BY DEF Commits, CommitSave, CommitHead, CommitDecide, CommitInvoice, CommitSign, WritePage,
         CommitConvert, CommitLost, WriteStatus, CommitDelete
<1>2. pc[p] = "commit"
  BY DEF Commits, CommitSave, CommitHead, CommitDecide, CommitInvoice, CommitSign, WritePage,
         CommitConvert, CommitLost, WriteStatus, CommitDelete
<1> QED BY <1>1, <1>2, FinishShape, RollBackShape DEF Final, Typed

AbortShape(p) == OthersKept(p) /\ Ended(p) /\ pc'[p] = "failed" /\ UNCHANGED db

LEMMA AbortsShape ==
    ASSUME Typed, NEW p \in Req, DeadlockAbort(p) \/ Fail(p) PROVE AbortShape(p)
BY RollBackShape DEF AbortShape, DeadlockAbort, Fail, Final

(* Every step of the system is one of these, by one request.               *)
LEMMA NextShape ==
    ASSUME Typed, Next, ~UNCHANGED vars
    PROVE  \E p \in Req : Arrive(p) \/ StartRows(p) \/ LockRow(p) \/ LockQuote(p) \/ Read(p)
                          \/ Commits(p) \/ DeadlockAbort(p) \/ Fail(p)
BY DEF Next, AllServed, Step, Commits

(***************************************************************************)
(* Locks.                                                                  *)
(***************************************************************************)
LEMMA InitLocks == Init => LocksExclusive
BY DEF Init, LocksExclusive, InTx

LEMMA EndedLocks ==
    ASSUME LocksExclusive, Typed, NEW p \in Req, OthersKept(p), Ended(p)
    PROVE  LocksExclusive'
<1>1. ASSUME NEW q \in Req, pc'[q] \notin InTx PROVE held'[q] = {} /\ quoteLock' # q
  <2>1. NoReq # q
    OBVIOUS
  <2>2. CASE q = p
    BY <2>1, <2>2 DEF Ended
  <2>3. CASE q # p
    BY <1>1, <2>1, <2>3 DEF Ended, OthersKept, LocksExclusive
  <2> QED BY <2>2, <2>3
<1>2. ASSUME NEW q \in Req, NEW r \in Req, q # r PROVE held'[q] \cap held'[r] = {}
  BY <1>2 DEF OthersKept, Ended, LocksExclusive
<1> QED BY <1>1, <1>2 DEF LocksExclusive

LEMMA NextLocks == LocksExclusive /\ Typed /\ [Next]_vars => LocksExclusive'
<1> SUFFICES ASSUME LocksExclusive, Typed, [Next]_vars PROVE LocksExclusive'
  OBVIOUS
<1>1. CASE UNCHANGED vars
  BY <1>1 DEF LocksExclusive, vars, locks
<1>2. ASSUME NEW p \in Req, pc[p] \notin InTx, OthersKept(p), UNCHANGED locks
      PROVE  LocksExclusive'
  BY <1>2 DEF LocksExclusive, OthersKept, locks
<1>3. ASSUME NEW p \in Req, Arrive(p) PROVE LocksExclusive'
  <2>1. OthersKept(p) /\ pc[p] \notin InTx
    BY <1>3, ArriveShape DEF InTx
  <2>2. CASE Ended(p)
    BY <2>1, <2>2, EndedLocks
  <2>3. CASE UNCHANGED locks
    BY <2>1, <2>3, <1>2
  <2> QED BY <1>3, <2>2, <2>3, ArriveShape DEF Opened, Accepted
<1>4. ASSUME NEW p \in Req, StartRows(p) PROVE LocksExclusive'
  <2>1. /\ pc[p] \notin InTx /\ OthersKept(p) /\ pc'[p] \in InTx
        /\ quoteLock' = quoteLock /\ held' = held
    BY <1>4, AdvanceShape DEF StartRows, InTx, Advanced
  <2> QED BY <2>1 DEF LocksExclusive, OthersKept
<1>5. ASSUME NEW p \in Req, LockRow(p) PROVE LocksExclusive'
  <2>1. pc[p] \in InTx /\ OthersKept(p) /\ pc'[p] \in InTx /\ quoteLock' = quoteLock
    BY <1>5, AdvanceShape DEF LockRow, InTx, Advanced
  <2>2. \A q \in Req \ {p} : held'[q] = held[q] /\ held'[q] \cap held'[p] = {}
    <3>1. CASE held' = held
      BY <2>1, <3>1 DEF LocksExclusive
    <3>2. CASE /\ held' = [held EXCEPT ![p] = @ \cup {NextRow(p)}]
               /\ RowFree(NextRow(p), p)
      <4>1. held'[p] = held[p] \cup {NextRow(p)}
        BY <3>2 DEF Typed, Tables
      <4> QED BY <3>2, <4>1, <2>1 DEF OthersKept, RowFree, LocksExclusive
    <3> QED BY <1>5, <3>1, <3>2 DEF LockRow
  <2>3. \A q, r \in Req : q # r => held'[q] \cap held'[r] = {}
    BY <2>2 DEF LocksExclusive
  <2>4. \A q \in Req : pc'[q] \notin InTx => held'[q] = {} /\ quoteLock' # q
    BY <2>1, <2>2 DEF LocksExclusive, OthersKept
  <2> QED BY <2>3, <2>4 DEF LocksExclusive
<1>6. ASSUME NEW p \in Req, LockQuote(p) PROVE LocksExclusive'
  <2>1. OthersKept(p) /\ pc'[p] \in InTx /\ pc[p] \in InTx
    BY <1>6, AdvanceShape DEF LockQuote, InTx, Advanced
  <2>2. quoteLock' = p /\ held' = held
    BY <1>6 DEF LockQuote
  <2> QED BY <2>1, <2>2 DEF LocksExclusive, OthersKept
<1>7. ASSUME NEW p \in Req, Read(p) PROVE LocksExclusive'
  <2>1. OthersKept(p)
    BY <1>7, ReadShape
  <2>2. CASE Ended(p)
    BY <2>1, <2>2, EndedLocks
  <2>3. CASE ReadOn(p)
    BY <2>1, <2>3 DEF ReadOn, LocksExclusive, OthersKept, InTx
  <2> QED BY <1>7, <2>2, <2>3, ReadShape
<1>8. ASSUME NEW p \in Req, Commits(p) PROVE LocksExclusive'
  BY <1>8, CommitShape, EndedLocks
<1>9. ASSUME NEW p \in Req, DeadlockAbort(p) \/ Fail(p) PROVE LocksExclusive'
  BY <1>9, AbortsShape, EndedLocks DEF AbortShape
<1> QED BY <1>1, <1>3, <1>4, <1>5, <1>6, <1>7, <1>8, <1>9, NextShape

(* No page is locked by two transactions, and a request that is over holds *)
(* no lock, whether it committed, was refused or failed at any step.       *)
THEOREM LocksAreExclusive == Spec => []LocksExclusive
BY TypedInvariant, InitLocks, NextLocks, PTL DEF Spec

-----------------------------------------------------------------------------

(***************************************************************************)
(* What a step writes in the database.                                     *)
(***************************************************************************)
Top(pages) == Max({pages[i].code : i \in DOMAIN pages})
SeqAfter(p) == IF MayRenumber(p) THEN Len(req[p].payload)
               ELSE Max({seen[p].seq, Top(SaveSheets(p))})

WroteSave(p) ==
    /\ req[p].kind = "save" /\ BaseHolds(p)
    /\ sheets' = SaveSheets(p) /\ nextId' = nextId + Len(req[p].payload)
    /\ issued' = (IF MayRenumber(p) THEN {} ELSE issued) \cup CodesOf(SaveSheets(p))
    /\ \E seq \in Nat : seq = SeqAfter(p) /\ WritePriced(p, SaveSheets(p), seq)

WroteHead(p) ==
    /\ req[p].kind = "head" /\ BaseHolds(p)
    /\ IF req[p].vat = Keep
       THEN /\ quote' = [quote EXCEPT !.updatedAt = @ + 1]
            /\ history' = Snapshot(quote.version, total)
            /\ UNCHANGED <<total, convertedTotal>>
       ELSE WritePriced(p, fresh[p].sheets, quote.seq)
    /\ UNCHANGED <<sheets, nextId, issued>>

WrotePage(p) ==
    /\ req[p].kind \in {"decide", "invoice", "sign"}
    /\ req[p].target \in DOMAIN sheets
    /\ req[p].kind # "decide" => RowFree(req[p].target, p)
    /\ DOMAIN sheets' = DOMAIN sheets
    /\ \A i \in DOMAIN sheets : i # req[p].target => sheets'[i] = sheets[i]
    /\ \A i \in DOMAIN sheets : /\ sheets'[i].price = sheets[i].price
                                /\ sheets'[i].page = sheets[i].page
                                /\ sheets'[i].code = sheets[i].code
                                /\ IF req[p].kind = "decide"
                                   THEN /\ sheets'[i].inv = sheets[i].inv
                                        /\ sheets'[i].signed = sheets[i].signed
                                   ELSE sheets'[i].cust = sheets[i].cust
    /\ UNCHANGED <<quote, total, nextId, history, issued>>

WroteStatus(p) ==
    /\ req[p].kind \in {"convert", "lost"} /\ NotTerminal
    /\ \E st \in Terminal : quote' = [quote EXCEPT !.updatedAt = @ + 1, !.status = st]
    /\ UNCHANGED <<total, sheets, nextId, history, issued>>

WroteDelete(p) ==
    /\ req[p].kind = "delete" /\ StillDeletable(p)
    /\ quote' = [quote EXCEPT !.deleted = TRUE, !.updatedAt = @ + 1]
    /\ UNCHANGED <<total, convertedTotal, sheets, nextId, history, issued>>

Wrote(p) == WroteSave(p) \/ WroteHead(p) \/ WrotePage(p) \/ WroteStatus(p) \/ WroteDelete(p)

Quit(p) == Ended(p) /\ UNCHANGED db /\ pc'[p] \in {"refused", "failed"}

LEMMA SaveSeq ==
    ASSUME Typed, NEW p \in Req, CommitSave(p), BaseHolds(p)
    PROVE  WroteSave(p)
<1> DEFINE new == SaveSheets(p)
           n == Len(req[p].payload)
           top == Top(new)
           seq == SeqAfter(p)
<1>1. pc[p] = "commit" /\ req[p].kind = "save"
  BY DEF CommitSave
<1>2. /\ sheets' = new /\ nextId' = nextId + n /\ WritePriced(p, new, seq)
      /\ issued' = (IF MayRenumber(p) THEN {} ELSE issued) \cup CodesOf(new)
  BY DEF CommitSave, SeqAfter, Top
<1>3. n \in Nat /\ top \in Nat
  BY <1>1, SaveSheetsType DEF Top
<1>4. seq \in Nat
  <2> HIDE DEF top, n
  <2>1. seen[p].seq \in Nat
    BY DEF Typed, Tables, Sights
  <2>2. IsFiniteSet({seen[p].seq, top}) /\ {seen[p].seq, top} \in SUBSET Nat
    <3>1. {seen[p].seq, top} = {seen[p].seq} \cup {top}
      OBVIOUS
    <3>2. IsFiniteSet({seen[p].seq} \cup {top})
      BY FS_Singleton, FS_AddElement
    <3> QED BY <3>1, <3>2, <2>1, <1>3
  <2>3. Max({seen[p].seq, top}) \in Nat
    BY <2>2, MaxNat
  <2> QED BY <2>3, <1>3 DEF SeqAfter, n, top
<1> HIDE DEF new, n
<1>5. \E s \in Nat : s = seq /\ WritePriced(p, new, s)
  BY <1>2, <1>4
<1> QED BY <1>1, <1>2, <1>5 DEF WroteSave, new, n

LEMMA CommitPage ==
    ASSUME Typed, NEW p \in Req, CommitDecide(p) \/ CommitInvoice(p) \/ CommitSign(p),
           req[p].target \in DOMAIN sheets
    PROVE  WrotePage(p)
<1> DEFINE i == req[p].target
<1>1. sheets[i] \in Page /\ sheets \in [DOMAIN sheets -> Page]
  BY DEF Typed, Db, RowSets
<1>2. CASE CommitDecide(p)
  <2>1. /\ sheets' = [sheets EXCEPT ![i].cust = req[p].value]
        /\ UNCHANGED <<quote, total, nextId, history, issued>> /\ req[p].kind = "decide"
    BY <1>2 DEF CommitDecide
  <2>2. [sheets[i] EXCEPT !.cust = req[p].value].price = sheets[i].price
        /\ [sheets[i] EXCEPT !.cust = req[p].value].code = sheets[i].code
        /\ [sheets[i] EXCEPT !.cust = req[p].value].page = sheets[i].page
        /\ [sheets[i] EXCEPT !.cust = req[p].value].inv = sheets[i].inv
        /\ [sheets[i] EXCEPT !.cust = req[p].value].signed = sheets[i].signed
    BY <1>1 DEF Page
  <2> QED BY <1>1, <2>1, <2>2 DEF WrotePage
<1>3. CASE CommitInvoice(p)
  <2>1. /\ sheets' = [sheets EXCEPT ![i].inv = (req[p].value = "set")] /\ RowFree(i, p)
        /\ UNCHANGED <<quote, total, nextId, history, issued>> /\ req[p].kind = "invoice"
    BY <1>3 DEF CommitInvoice, WritePage
  <2>2. [sheets[i] EXCEPT !.inv = (req[p].value = "set")].price = sheets[i].price
        /\ [sheets[i] EXCEPT !.inv = (req[p].value = "set")].code = sheets[i].code
        /\ [sheets[i] EXCEPT !.inv = (req[p].value = "set")].cust = sheets[i].cust
        /\ [sheets[i] EXCEPT !.inv = (req[p].value = "set")].page = sheets[i].page
    BY <1>1 DEF Page
  <2> QED BY <1>1, <2>1, <2>2 DEF WrotePage
<1>4. CASE CommitSign(p)
  <2>1. /\ sheets' = [sheets EXCEPT ![i].signed = (req[p].value = "set")] /\ RowFree(i, p)
        /\ UNCHANGED <<quote, total, nextId, history, issued>> /\ req[p].kind = "sign"
    BY <1>4 DEF CommitSign, WritePage
  <2>2. [sheets[i] EXCEPT !.signed = (req[p].value = "set")].price = sheets[i].price
        /\ [sheets[i] EXCEPT !.signed = (req[p].value = "set")].code = sheets[i].code
        /\ [sheets[i] EXCEPT !.signed = (req[p].value = "set")].cust = sheets[i].cust
        /\ [sheets[i] EXCEPT !.signed = (req[p].value = "set")].page = sheets[i].page
    BY <1>1 DEF Page
  <2> QED BY <1>1, <2>1, <2>2 DEF WrotePage
<1> QED BY <1>2, <1>3, <1>4

LEMMA CommitWrites ==
    ASSUME Typed, NEW p \in Req, Commits(p)
    PROVE  Quit(p) \/ (Ended(p) /\ Wrote(p) /\ pc[p] = "commit" /\ pc'[p] = "ok")
<1>1. CASE RollBack(p, "refused") \/ RollBack(p, "failed")
  BY <1>1, RollBackShape DEF Quit, Final
<1>2. CASE ~(RollBack(p, "refused") \/ RollBack(p, "failed"))
  <2>1. Finish(p, "ok") /\ pc[p] = "commit"
    BY <1>2 DEF Commits, CommitSave, CommitHead, CommitDecide, CommitInvoice, CommitSign,
         WritePage, CommitConvert, CommitLost, WriteStatus, CommitDelete
  <2>2. Ended(p) /\ pc'[p] = "ok"
    BY <2>1, FinishShape DEF Final, Typed
  <2>3. CASE CommitSave(p)
    BY <1>2, <2>2, <2>1, <2>3, SaveSeq DEF CommitSave, Wrote
  <2>4. CASE CommitHead(p)
    BY <1>2, <2>2, <2>1, <2>4 DEF CommitHead, Wrote, WroteHead
  <2>5. CASE CommitDecide(p) \/ CommitInvoice(p) \/ CommitSign(p)
    <3>1. req[p].target \in DOMAIN sheets
      BY <1>2, <2>5 DEF CommitDecide, CommitInvoice, CommitSign, WritePage
    <3> QED BY <2>1, <2>2, <2>5, <3>1, CommitPage DEF Wrote
  <2>6. CASE CommitConvert(p) \/ CommitLost(p)
    BY <1>2, <2>2, <2>1, <2>6 DEF CommitConvert, CommitLost, WriteStatus, Wrote, WroteStatus,
                                  Terminal
  <2>7. CASE CommitDelete(p)
    BY <1>2, <2>2, <2>1, <2>7 DEF CommitDelete, Wrote, WroteDelete
  <2> QED BY <2>3, <2>4, <2>5, <2>6, <2>7 DEF Commits
<1> QED BY <1>1, <1>2

(* Every step is one of these, by one request.                             *)
Does(p) ==
    \/ Opened(p) \/ Accepted(p) \/ Advanced(p) \/ ReadOn(p) \/ Quit(p)
    \/ Ended(p) /\ Wrote(p) /\ pc[p] = "commit" /\ pc'[p] = "ok"

LEMMA StepKinds ==
    ASSUME Typed, [Next]_vars
    PROVE  UNCHANGED vars \/ \E p \in Req : OthersKept(p) /\ Does(p)
<1>1. ASSUME NEW p \in Req, Arrive(p) PROVE OthersKept(p) /\ Does(p)
  BY <1>1, ArriveShape DEF Does, Quit
<1>2. ASSUME NEW p \in Req, StartRows(p) \/ LockRow(p) \/ LockQuote(p)
      PROVE OthersKept(p) /\ Does(p)
  BY <1>2, AdvanceShape DEF Does
<1>3. ASSUME NEW p \in Req, Read(p) PROVE OthersKept(p) /\ Does(p)
  BY <1>3, ReadShape DEF Does, Quit
<1>4. ASSUME NEW p \in Req, Commits(p) PROVE OthersKept(p) /\ Does(p)
  BY <1>4, CommitShape, CommitWrites DEF Does
<1>5. ASSUME NEW p \in Req, DeadlockAbort(p) \/ Fail(p) PROVE OthersKept(p) /\ Does(p)
  BY <1>5, AbortsShape DEF AbortShape, Does, Quit
<1> QED BY <1>1, <1>2, <1>3, <1>4, <1>5, NextShape
(***************************************************************************)
(* The version history.                                                    *)
(***************************************************************************)
LEMMA SnapshotShape ==
    ASSUME ~quote.deleted, NEW version, NEW amount
    PROVE  /\ DOMAIN Snapshot(version, amount) = DOMAIN history \cup {version}
           /\ Snapshot(version, amount)[version] = amount
BY DEF Snapshot

LEMMA SnapshotKeeps ==
    ASSUME ~quote.deleted, NEW version, NEW amount, NEW v \in DOMAIN history, v # version
    PROVE  Snapshot(version, amount)[v] = history[v]
BY DEF Snapshot

LEMMA NoSnapshot ==
    ASSUME quote.deleted, NEW version, NEW amount
    PROVE  Snapshot(version, amount) = history
BY DEF Snapshot

LEMMA PricedShape ==
    ASSUME Typed, NEW p \in Req, NEW pages, NEW seq, WritePriced(p, pages, seq)
    PROVE  /\ quote'.updatedAt = quote.updatedAt + 1 /\ quote'.version = quote.version + 1
           /\ quote'.deleted = quote.deleted /\ quote'.vat = VatStored(p)
           /\ quote'.status = Reopened(p) /\ quote'.seq = seq
           /\ total' = TotalOf(pages, VatFor(p))
           /\ history' = Snapshot(quote.version + 1, total')
<1>1. quote \in QuoteRow
  BY DEF Typed, Db
<1>2. quote' = [quote EXCEPT !.vat = VatStored(p), !.status = Reopened(p), !.seq = seq,
                             !.updatedAt = @ + 1, !.version = NextVersion(p)]
      /\ total' = TotalOf(pages, VatFor(p)) /\ history' = Snapshot(NextVersion(p), total')
  BY DEF WritePriced
<1>3. NextVersion(p) = quote.version + 1
  BY DEF NextVersion
<1> QED BY <1>1, <1>2, <1>3 DEF QuoteRow

(* How a write changes the history: the current version recorded again     *)
(* with the current total, the next one added, or nothing.                 *)
HistoryMoves ==
    \/ /\ quote'.version = quote.version /\ total' = total
       /\ quote.deleted => quote'.deleted
       /\ history' \in {history, Snapshot(quote.version, total)}
    \/ /\ quote'.version = quote.version + 1 /\ quote'.deleted = quote.deleted
       /\ history' = Snapshot(quote.version + 1, total')

LEMMA WroteHistory ==
    ASSUME Typed, NEW p \in Req, Wrote(p)
    PROVE  HistoryMoves
<1>1. quote \in QuoteRow
  BY DEF Typed, Db
<1>2. CASE WroteSave(p)
  BY <1>2, PricedShape DEF WroteSave, HistoryMoves
<1>3. CASE WroteHead(p)
  <2>1. CASE req[p].vat = Keep
    BY <1>1, <1>3, <2>1 DEF WroteHead, HistoryMoves, QuoteRow
  <2>2. CASE req[p].vat # Keep
    BY <1>3, <2>2, PricedShape DEF WroteHead, HistoryMoves
  <2> QED BY <2>1, <2>2
<1>4. CASE WrotePage(p)
  BY <1>4 DEF WrotePage, HistoryMoves
<1>5. CASE WroteStatus(p)
  BY <1>1, <1>5 DEF WroteStatus, HistoryMoves, QuoteRow
<1>6. CASE WroteDelete(p)
  BY <1>1, <1>6 DEF WroteDelete, HistoryMoves, QuoteRow
<1> QED BY <1>2, <1>3, <1>4, <1>5, <1>6 DEF Wrote

LEMMA StepHistory ==
    ASSUME Typed, [Next]_vars PROVE HistoryMoves
<1>1. CASE UNCHANGED db
  BY <1>1 DEF db, HistoryMoves
<1>2. ASSUME NEW p \in Req, Does(p) PROVE HistoryMoves
  BY <1>1, <1>2, WroteHistory DEF Does, Opened, Accepted, Advanced, ReadOn, Quit
<1> QED BY <1>1, <1>2, StepKinds DEF vars

LEMMA NextHistory ==
    ASSUME Typed, HistoryMatches, [Next]_vars
    PROVE  /\ HistoryMatches'
           /\ \A v \in DOMAIN history : v \in DOMAIN history' /\ history'[v] = history[v]
<1>1. quote.version \in Nat /\ \A v \in DOMAIN history : v # quote.version + 1
  <2>1. quote \in QuoteRow /\ DOMAIN history \subseteq 1..quote.version
    BY DEF Typed, Db
  <2> QED BY <2>1 DEF QuoteRow
<1>2. HistoryMoves
  BY StepHistory
<1>3. CASE quote.deleted
  BY <1>2, <1>3, NoSnapshot DEF HistoryMoves, HistoryMatches
<1>4. CASE ~quote.deleted
  <2>1. CASE history' = history /\ quote'.version = quote.version /\ total' = total
    BY <1>4, <2>1 DEF HistoryMatches
  <2>2. CASE history' = Snapshot(quote.version, total) /\ quote'.version = quote.version
             /\ total' = total
    <3> DEFINE v0 == quote.version
    <3> HIDE DEF v0
    <3>1. v0 \in DOMAIN history /\ history[v0] = total
      BY <1>4 DEF HistoryMatches, v0
    <3>2. history' = Snapshot(v0, total)
      BY <2>2 DEF v0
    <3>3. /\ DOMAIN history' = DOMAIN history \cup {v0} /\ history'[v0] = total
          /\ \A v \in DOMAIN history \ {v0} : history'[v] = history[v]
      <4>1. /\ DOMAIN Snapshot(v0, total) = DOMAIN history \cup {v0}
            /\ Snapshot(v0, total)[v0] = total
        BY <1>4, SnapshotShape
      <4>2. \A v \in DOMAIN history \ {v0} : Snapshot(v0, total)[v] = history[v]
        BY <1>4, SnapshotKeeps
      <4> QED BY <3>2, <4>1, <4>2
    <3>4. \A v \in DOMAIN history : v \in DOMAIN history' /\ history'[v] = history[v]
      BY <3>1, <3>3
    <3>5. HistoryMatches'
      BY <2>2, <3>3 DEF HistoryMatches, v0
    <3> QED BY <3>4, <3>5
  <2>3. CASE history' = Snapshot(quote.version + 1, total')
             /\ quote'.version = quote.version + 1
    <3> DEFINE v1 == quote.version + 1
    <3> HIDE DEF v1
    <3>1. history' = Snapshot(v1, total') /\ v1 \notin DOMAIN history
      BY <1>1, <2>3 DEF v1
    <3>2. /\ DOMAIN history' = DOMAIN history \cup {v1} /\ history'[v1] = total'
          /\ \A v \in DOMAIN history \ {v1} : history'[v] = history[v]
      <4>1. /\ DOMAIN Snapshot(v1, total') = DOMAIN history \cup {v1}
            /\ Snapshot(v1, total')[v1] = total'
        BY <1>4, SnapshotShape
      <4>2. \A v \in DOMAIN history \ {v1} : Snapshot(v1, total')[v] = history[v]
        BY <1>4, SnapshotKeeps
      <4> QED BY <3>1, <4>1, <4>2
    <3>3. \A v \in DOMAIN history : v \in DOMAIN history' /\ history'[v] = history[v]
      BY <3>1, <3>2
    <3>4. HistoryMatches'
      BY <2>3, <3>2 DEF HistoryMatches, v1
    <3> QED BY <3>3, <3>4
  <2> QED BY <1>2, <2>1, <2>2, <2>3 DEF HistoryMoves
<1> QED BY <1>3, <1>4

LEMMA InitHistory == Init => HistoryMatches
BY DEF Init, HistoryMatches

(* The current version of a quote that is not in the recycle bin is in the *)
(* history with the current total, after any interleaving of saves, VAT    *)
(* changes and transitions.                                                *)
THEOREM HistoryIsCurrent == Spec => []HistoryMatches
BY TypedInvariant, InitHistory, NextHistory, PTL DEF Spec

(* No step rewrites or drops a recorded version.                           *)
THEOREM HistoryIsKept == Spec => HistoryAppendOnly
<1>1. Typed /\ HistoryMatches /\ [Next]_vars =>
        [\A v \in DOMAIN history : v \in DOMAIN history' /\ history'[v] = history[v]]_vars
  BY NextHistory
<1> QED BY <1>1, TypedInvariant, HistoryIsCurrent, PTL DEF Spec, HistoryAppendOnly

(***************************************************************************)
(* The recycle bin.                                                        *)
(***************************************************************************)
LEMMA NextDeleted ==
    ASSUME Typed, [Next]_vars, ~quote.deleted, quote'.deleted
    PROVE  quote.status # "converted"
<1>1. quote \in QuoteRow
  BY DEF Typed, Db
<1>2. ASSUME NEW p \in Req, Wrote(p) PROVE quote.status # "converted"
  <2>1. CASE WroteSave(p)
    BY <2>1, PricedShape DEF WroteSave
  <2>2. CASE WroteHead(p)
    <3>1. CASE req[p].vat = Keep
      BY <1>1, <2>2, <3>1 DEF WroteHead, QuoteRow
    <3>2. CASE req[p].vat # Keep
      BY <2>2, <3>2, PricedShape DEF WroteHead
    <3> QED BY <3>1, <3>2
  <2>3. CASE WrotePage(p)
    BY <2>3 DEF WrotePage
  <2>4. CASE WroteStatus(p)
    BY <1>1, <2>4 DEF WroteStatus, QuoteRow
  <2>5. CASE WroteDelete(p)
    BY <2>5 DEF WroteDelete, StillDeletable, MayDelete
  <2> QED BY <1>2, <2>1, <2>2, <2>3, <2>4, <2>5 DEF Wrote
<1> QED BY <1>2, StepKinds DEF Does, Opened, Accepted, Advanced, ReadOn, Quit, db, vars

(* The step that puts a quote in the recycle bin finds it not closed, even *)
(* when the customer closed it between the handler's check and its write.  *)
THEOREM ClosedIsNotDeleted == Spec => ConvertedNotDeleted
<1>1. Typed /\ [Next]_vars =>
        [~quote.deleted /\ quote'.deleted => quote.status # "converted"]_vars
  BY NextDeleted
<1> QED BY <1>1, TypedInvariant, PTL DEF Spec, ConvertedNotDeleted
(***************************************************************************)
(* Optimistic locking.  A write of the Quote row gives a new stamp; a step *)
(* that gives none leaves the Quote row and the prices of the pages alone. *)
(***************************************************************************)
Stamps == \/ quote'.updatedAt = quote.updatedAt + 1
          \/ quote' = quote /\ PriceList(sheets') = PriceList(sheets)

LEMMA WroteStamps ==
    ASSUME Typed, NEW p \in Req, Wrote(p) PROVE Stamps
<1>1. quote \in QuoteRow
  BY DEF Typed, Db
<1>2. CASE WroteSave(p)
  BY <1>2, PricedShape DEF WroteSave, Stamps
<1>3. CASE WroteHead(p)
  <2>1. CASE req[p].vat = Keep
    BY <1>1, <1>3, <2>1 DEF WroteHead, Stamps, QuoteRow
  <2>2. CASE req[p].vat # Keep
    BY <1>3, <2>2, PricedShape DEF WroteHead, Stamps
  <2> QED BY <2>1, <2>2
<1>4. CASE WrotePage(p)
  BY <1>4 DEF WrotePage, Stamps, PriceList
<1>5. CASE WroteStatus(p)
  BY <1>1, <1>5 DEF WroteStatus, Stamps, QuoteRow
<1>6. CASE WroteDelete(p)
  BY <1>1, <1>6 DEF WroteDelete, Stamps, QuoteRow
<1> QED BY <1>2, <1>3, <1>4, <1>5, <1>6 DEF Wrote

LEMMA DoesStamps ==
    ASSUME Typed, NEW p \in Req, Does(p) PROVE Stamps
<1>1. CASE UNCHANGED db
  BY <1>1 DEF db, Stamps
<1>2. CASE Wrote(p)
  BY <1>2, WroteStamps
<1> QED BY <1>1, <1>2 DEF Does, Opened, Accepted, Advanced, ReadOn, Quit

(* An editor and a request of an editor, and what its base tells.          *)
Editing(p) == pc[p] = "editing" \/ req[p].kind \in {"save", "head"}
BasedOn(p) ==
    /\ req[p].base =< quote.updatedAt
    /\ Editing(p) /\ req[p].base # NoBase /\ req[p].base = quote.updatedAt =>
         loaded[p] = [pages |-> PriceList(sheets), vat |-> quote.vat]
Based == \A p \in Req : BasedOn(p)

LEMMA InitBased == Init => Based
BY DEF Init, Based, BasedOn, Editing, NoRequest, NoBase

(* A request that did not move keeps its base, whatever another wrote.     *)
LEMMA BaseKept ==
    ASSUME Typed, NEW p \in Req, BasedOn(p), Stamps,
           req'[p].base = req[p].base, loaded'[p] = loaded[p], Editing(p)' => Editing(p)
    PROVE  BasedOn(p)'
<1>1. quote.updatedAt \in Nat /\ req[p].base \in Nat
  <2>1. quote \in QuoteRow /\ req[p] \in Requests
    BY DEF Typed, Db, Tables
  <2> QED BY <2>1 DEF QuoteRow, Requests
<1>2. CASE quote'.updatedAt = quote.updatedAt + 1
  BY <1>1, <1>2 DEF BasedOn
<1>3. CASE quote' = quote /\ PriceList(sheets') = PriceList(sheets)
  BY <1>3 DEF BasedOn
<1> QED BY <1>2, <1>3 DEF Stamps

LEMMA DoesBased ==
    ASSUME Typed, NEW p \in Req, BasedOn(p), Does(p) PROVE BasedOn(p)'
<1>1. Stamps
  BY DoesStamps
<1>2. CASE Opened(p)
  <2>1. quote.updatedAt \in Nat
    <3>1. quote \in QuoteRow
      BY DEF Typed, Db
    <3> QED BY <3>1 DEF QuoteRow
  <2>2. quote' = quote /\ sheets' = sheets
    BY <1>2 DEF Opened, db
  <2>3. req'[p].base \in {quote.updatedAt, NoBase}
        /\ loaded'[p] = [pages |-> PriceList(sheets), vat |-> quote.vat]
    BY <1>2 DEF Opened
  <2> QED BY <2>1, <2>2, <2>3 DEF BasedOn, NoBase, PriceList
<1>3. CASE Accepted(p)
  <2>1. CASE pc[p] = "editing" /\ req'[p].base = req[p].base
    <3>1. Editing(p)
      BY <2>1 DEF Editing
    <3>2. loaded' = loaded
      BY <1>3 DEF Accepted
    <3> QED BY <1>1, <2>1, <3>1, <3>2, BaseKept
  <2>2. CASE req'[p].base = NoBase
    <3>1. quote' = quote /\ quote.updatedAt \in Nat
      <4>1. quote \in QuoteRow
        BY DEF Typed, Db
      <4> QED BY <1>3, <4>1 DEF Accepted, db, QuoteRow
    <3> QED BY <2>2, <3>1 DEF BasedOn, NoBase
  <2> QED BY <1>3, <2>1, <2>2 DEF Accepted
<1>4. CASE Advanced(p) \/ ReadOn(p)
  <2>1. req' = req /\ loaded' = loaded /\ pc'[p] # "editing"
    BY <1>4 DEF Advanced, ReadOn, local, InTx
  <2>2. Editing(p)' => Editing(p)
    BY <2>1 DEF Editing
  <2> QED BY <1>1, <2>1, <2>2, BaseKept
<1>5. CASE Ended(p)
  <2>1. req'[p] = NoRequest /\ pc'[p] # "editing"
    BY <1>5 DEF Ended, Final
  <2>2. ~Editing(p)' /\ req'[p].base = 0
    BY <2>1 DEF Editing, NoRequest, NoBase
  <2>3. quote'.updatedAt \in Nat
    <3>1. quote \in QuoteRow
      BY DEF Typed, Db
    <3> QED BY <1>1, <3>1 DEF Stamps, QuoteRow
  <2> QED BY <2>2, <2>3 DEF BasedOn
<1> QED BY <1>2, <1>3, <1>4, <1>5 DEF Does, Quit

LEMMA NextBased ==
    ASSUME Typed, Based, [Next]_vars PROVE Based'
<1>1. CASE UNCHANGED vars
  BY <1>1 DEF vars, db, local, Based, BasedOn, Editing
<1>2. ASSUME NEW p \in Req, OthersKept(p), Does(p) PROVE Based'
  <2>1. BasedOn(p)'
    BY <1>2, DoesBased DEF Based
  <2>2. ASSUME NEW q \in Req \ {p} PROVE BasedOn(q)'
    <3>1. Stamps
      BY <1>2, DoesStamps
    <3>2. pc'[q] = pc[q] /\ req'[q] = req[q] /\ loaded'[q] = loaded[q]
      BY <1>2 DEF OthersKept
    <3>3. Editing(q)' => Editing(q)
      BY <3>2 DEF Editing
    <3> QED BY <3>1, <3>2, <3>3, BaseKept DEF Based
  <2> QED BY <2>1, <2>2 DEF Based
<1> QED BY <1>1, <1>2, StepKinds

(* A base that is the current stamp names what is stored: the pages, prices*)
(* and VAT the client loaded, because every write gives a new stamp.       *)
THEOREM BasedInvariant == Spec => []Based
BY TypedInvariant, InitBased, NextBased, PTL DEF Spec

(* A request that just saved wrote, and its base was the current stamp.    *)
LEMMA SavedShape ==
    ASSUME Typed, [Next]_vars, NEW p \in Req, Saves(p)
    PROVE  BaseHolds(p) /\ (WroteSave(p) \/ WroteHead(p))
<1>1. pc[p] = "commit" /\ pc'[p] = "ok" /\ req[p].kind \in {"save", "head"}
  BY DEF Saves
<1>2. PICK q \in Req : OthersKept(q) /\ Does(q)
  BY <1>1, StepKinds DEF vars
<1>3. q = p
  BY <1>1, <1>2 DEF OthersKept
<1>4. Wrote(p)
  BY <1>1, <1>2, <1>3 DEF Does, Opened, Accepted, Advanced, ReadOn, Quit, InTx
<1> QED BY <1>1, <1>4 DEF Wrote, WroteSave, WroteHead, WrotePage, WroteStatus, WroteDelete

LEMMA SaveOfLoaded ==
    ASSUME Typed, Based, [Next]_vars
    PROVE  \A p \in Req : Saves(p) /\ req[p].base # NoBase =>
             PriceList(sheets) = loaded[p].pages /\ quote.vat = loaded[p].vat
BY SavedShape DEF Based, BasedOn, BaseHolds, Editing, Saves

(* A save or a header edit that carries a base replaces exactly the pages, *)
(* prices and VAT its client loaded, however many others are at work.      *)
THEOREM NothingIsLost == Spec => NoLostUpdate
<1>1. Typed /\ Based /\ [Next]_vars =>
        [\A p \in Req : Saves(p) /\ req[p].base # NoBase =>
           PriceList(sheets) = loaded[p].pages /\ quote.vat = loaded[p].vat]_vars
  BY SaveOfLoaded
<1> QED BY <1>1, TypedInvariant, BasedInvariant, PTL DEF Spec, NoLostUpdate
(***************************************************************************)
(* What a request knows when its client sent a base and the base is still  *)
(* the stamp of the quote: the status it read first, and the VAT and the   *)
(* prices it read after the locks, are those stored now.                   *)
(***************************************************************************)
InformedOn(p) ==
    /\ pc[p] \in {"idle", "editing", "arrived"} => fresh[p] = NothingRead
    /\ req[p].kind \in {"save", "head"} /\ req[p].base = quote.updatedAt =>
         /\ seen[p].status = quote.status /\ seen[p].seq = quote.seq
         /\ fresh[p].vat # Keep =>
              fresh[p].vat = quote.vat /\ PriceList(fresh[p].sheets) = PriceList(sheets)
Informed == \A p \in Req : InformedOn(p)

LEMMA InitInformed == Init => Informed
BY DEF Init, Informed, InformedOn, NoRequest

LEMMA InformedKept ==
    ASSUME Typed, NEW p \in Req, InformedOn(p), BasedOn(p), Stamps, req'[p] = req[p],
           seen'[p] = seen[p], fresh'[p] = fresh[p],
           pc'[p] \in {"idle", "editing", "arrived"} => pc[p] \in {"idle", "editing", "arrived"}
    PROVE  InformedOn(p)'
<1>1. quote.updatedAt \in Nat /\ req[p].base \in Nat
  <2>1. quote \in QuoteRow /\ req[p] \in Requests
    BY DEF Typed, Db, Tables
  <2> QED BY <2>1 DEF QuoteRow, Requests
<1>2. CASE quote'.updatedAt = quote.updatedAt + 1
  <2>1. req'[p].base # quote'.updatedAt
    BY <1>1, <1>2 DEF BasedOn
  <2> QED BY <2>1 DEF InformedOn
<1>3. CASE quote' = quote /\ PriceList(sheets') = PriceList(sheets)
  BY <1>3 DEF InformedOn
<1> QED BY <1>2, <1>3 DEF Stamps

LEMMA DoesInformed ==
    ASSUME Typed, NEW p \in Req, BasedOn(p), InformedOn(p), Does(p) PROVE InformedOn(p)'
<1>1. CASE Opened(p)
  <2>1. /\ pc[p] = "idle" /\ req'[p].kind = "none" /\ fresh' = fresh
    BY <1>1 DEF Opened
  <2> QED BY <2>1 DEF InformedOn
<1>2. CASE Accepted(p)
  <2>1. /\ pc[p] \in {"idle", "editing"} /\ fresh' = fresh /\ quote' = quote
        /\ seen'[p].status = quote.status /\ seen'[p].seq = quote.seq
    BY <1>2 DEF Accepted, db
  <2>2. fresh'[p] = NothingRead /\ fresh'[p].vat = Keep
    BY <2>1 DEF InformedOn, NothingRead
  <2> QED BY <2>1, <2>2 DEF InformedOn
<1>3. CASE Advanced(p)
  <2>1. req' = req /\ seen' = seen /\ fresh' = fresh /\ pc'[p] \in InTx
    BY <1>3 DEF Advanced, local
  <2>2. Stamps
    BY <1>3 DEF Advanced, db, Stamps
  <2> QED BY <2>1, <2>2, InformedKept DEF InTx
<1>4. CASE ReadOn(p)
  <2>1. /\ fresh'[p].vat = quote.vat /\ fresh'[p].sheets = sheets /\ pc'[p] \in InTx
        /\ req' = req /\ seen' = seen /\ quote' = quote /\ sheets' = sheets
    BY <1>4 DEF ReadOn, db, InTx
  <2> QED BY <2>1 DEF InformedOn, InTx
<1>5. CASE Ended(p)
  <2>1. req'[p].kind = "none" /\ fresh'[p] = NothingRead
    BY <1>5 DEF Ended, NoRequest
  <2> QED BY <2>1 DEF InformedOn
<1> QED BY <1>1, <1>2, <1>3, <1>4, <1>5 DEF Does, Quit

LEMMA NextInformed ==
    ASSUME Typed, Based, Informed, [Next]_vars PROVE Informed'
<1>1. CASE UNCHANGED vars
  BY <1>1 DEF vars, db, local, Informed, InformedOn
<1>2. ASSUME NEW p \in Req, OthersKept(p), Does(p) PROVE Informed'
  <2>1. InformedOn(p)'
    BY <1>2, DoesInformed DEF Based, Informed
  <2>2. ASSUME NEW q \in Req \ {p} PROVE InformedOn(q)'
    <3>1. Stamps
      BY <1>2, DoesStamps
    <3>2. pc'[q] = pc[q] /\ req'[q] = req[q] /\ seen'[q] = seen[q] /\ fresh'[q] = fresh[q]
      BY <1>2 DEF OthersKept
    <3> QED BY <3>1, <3>2, InformedKept DEF Based, Informed
  <2> QED BY <2>1, <2>2 DEF Informed
<1> QED BY <1>1, <1>2, StepKinds

(* A save or header edit whose base is the current stamp has read, before  *)
(* and under its locks, the status, pages and VAT that are stored now.     *)
THEOREM InformedInvariant == Spec => []Informed
BY TypedInvariant, BasedInvariant, InitInformed, NextInformed, PTL DEF Spec

(***************************************************************************)
(* The web editor always sends the base: nobody edits without one.         *)
(***************************************************************************)
Stamped ==
    /\ quote.updatedAt >= 1
    /\ \A p \in Req : Editing(p) => req[p].base # NoBase

LEMMA InitStamped == Init => Stamped
BY DEF Init, Stamped, Editing, NoRequest

LEMMA NextStamped ==
    ASSUME Typed, Stamped, [Next]_vars, FALSE \notin Bases PROVE Stamped'
<1>1. CASE UNCHANGED vars
  BY <1>1 DEF vars, db, local, Stamped, Editing
<1>2. ASSUME NEW p \in Req, OthersKept(p), Does(p) PROVE Stamped'
  <2>1. quote'.updatedAt >= 1 /\ quote.updatedAt \in Nat
    <3>1. quote \in QuoteRow /\ Stamps
      BY <1>2, DoesStamps DEF Typed, Db
    <3> QED BY <3>1 DEF Stamps, Stamped, QuoteRow
  <2>2. ASSUME NEW q \in Req \ {p}, Editing(q)' PROVE req'[q].base # NoBase
    BY <1>2, <2>2 DEF OthersKept, Stamped, Editing
  <2>3. ASSUME Editing(p)' PROVE req'[p].base # NoBase
    <3>1. CASE Opened(p)
      BY <2>1, <3>1 DEF Opened, Stamped, NoBase
    <3>2. CASE Accepted(p)
      BY <2>3, <3>2 DEF Accepted, Stamped, Editing
    <3>3. CASE Advanced(p) \/ ReadOn(p)
      BY <2>3, <3>3 DEF Advanced, ReadOn, Stamped, Editing, InTx, local
    <3>4. CASE Ended(p)
      BY <2>3, <3>4 DEF Ended, Editing, NoRequest, Final
    <3> QED BY <1>2, <3>1, <3>2, <3>3, <3>4 DEF Does, Quit
  <2> QED BY <2>1, <2>2, <2>3 DEF Stamped
<1> QED BY <1>1, <1>2, StepKinds

(* When every editor sends baseUpdatedAt, no save or header edit is without*)
(* one at any step of its handler.                                         *)
THEOREM StampedInvariant == ASSUME FALSE \notin Bases PROVE Spec => []Stamped
<1>1. Typed /\ Stamped /\ [Next]_vars => Stamped'
  BY NextStamped
<1> QED BY <1>1, TypedInvariant, InitStamped, PTL DEF Spec

(* A write by a client that sent a base finds what the client knew.        *)
LEMMA WritesInformed ==
    ASSUME Stamped, Informed, NEW p \in Req, BaseHolds(p), req[p].kind \in {"save", "head"}
    PROVE  /\ seen[p].status = quote.status /\ seen[p].seq = quote.seq
           /\ fresh[p].vat # Keep =>
                fresh[p].vat = quote.vat /\ PriceList(fresh[p].sheets) = PriceList(sheets)
BY DEF Stamped, Informed, InformedOn, BaseHolds, Editing

LEMMA NextTerminal ==
    ASSUME Typed, Stamped, Informed, [Next]_vars, quote.status \in Terminal
    PROVE  quote'.status = quote.status
<1>1. quote \in QuoteRow
  BY DEF Typed, Db
<1>2. ASSUME NEW p \in Req, Wrote(p) PROVE quote'.status = quote.status
  <2>1. CASE WroteSave(p) \/ (WroteHead(p) /\ req[p].vat # Keep)
    <3>1. quote'.status = Reopened(p)
      BY <2>1, PricedShape DEF WroteSave, WroteHead
    <3>2. seen[p].status = quote.status
      BY <2>1, WritesInformed DEF WroteSave, WroteHead
    <3> QED BY <3>1, <3>2 DEF Reopened, Terminal
  <2>2. CASE WroteHead(p) /\ req[p].vat = Keep
    BY <1>1, <2>2 DEF WroteHead, QuoteRow
  <2>3. CASE WrotePage(p)
    BY <2>3 DEF WrotePage
  <2>4. CASE WroteStatus(p)
    BY <2>4 DEF WroteStatus, NotTerminal
  <2>5. CASE WroteDelete(p)
    BY <1>1, <2>5 DEF WroteDelete, QuoteRow
  <2> QED BY <1>2, <2>1, <2>2, <2>3, <2>4, <2>5 DEF Wrote
<1> QED BY <1>2, StepKinds DEF Does, Opened, Accepted, Advanced, ReadOn, Quit, db, vars

(* A deal closed or lost stays so, as long as every editor sends its base: *)
(* a save that would reopen the quote read another status, and its base is *)
(* then out of date.                                                       *)
THEOREM TerminalStays == ASSUME FALSE \notin Bases PROVE Spec => TerminalIsFinal
<1>1. Typed /\ Stamped /\ Informed /\ [Next]_vars =>
        [quote.status \in Terminal => quote'.status = quote.status]_vars
  BY NextTerminal
<1> QED BY <1>1, TypedInvariant, StampedInvariant, InformedInvariant, PTL
        DEF Spec, TerminalIsFinal
(***************************************************************************)
(* The total.                                                              *)
(***************************************************************************)
LEMMA InitTotal == Init => TotalMatchesPages
BY DEF Init, TotalMatchesPages, QuoteRow

LEMMA NextTotal ==
    ASSUME Typed, Stamped, Informed, TotalMatchesPages, [Next]_vars
    PROVE  TotalMatchesPages'
<1>1. quote \in QuoteRow
  BY DEF Typed, Db
<1>2. ASSUME NEW p \in Req, Wrote(p), pc[p] = "commit" PROVE TotalMatchesPages'
  <2>1. ASSUME HasRead(p), BaseHolds(p), req[p].kind \in {"save", "head"}
        PROVE  VatFor(p) = VatStored(p) /\ PriceList(fresh[p].sheets) = PriceList(sheets)
    <3>1. fresh[p].vat # Keep
      BY <2>1, DataAssumption DEF Typed, Phases, PhaseOK
    <3> QED BY <2>1, <3>1, WritesInformed DEF VatFor, VatStored
  <2>2. CASE WroteSave(p)
    <3>1. VatFor(p) = VatStored(p)
      BY <1>2, <2>1, <2>2 DEF WroteSave, HasRead
    <3>2. /\ quote'.vat = VatStored(p) /\ sheets' = SaveSheets(p)
          /\ total' = TotalOf(SaveSheets(p), VatFor(p))
      BY <2>2, PricedShape DEF WroteSave
    <3> QED BY <3>1, <3>2 DEF TotalMatchesPages, TotalOf, PriceList
  <2>3. CASE WroteHead(p) /\ req[p].vat # Keep
    <3>1. VatFor(p) = VatStored(p) /\ PriceList(fresh[p].sheets) = PriceList(sheets)
      BY <1>2, <2>1, <2>3 DEF WroteHead, HasRead
    <3>2. /\ quote'.vat = VatStored(p) /\ sheets' = sheets
          /\ total' = TotalOf(fresh[p].sheets, VatFor(p))
      BY <2>3, PricedShape DEF WroteHead
    <3>3. total' = TotalOf(sheets, quote'.vat)
      BY <3>1, <3>2 DEF TotalOf
    <3> QED BY <3>2, <3>3 DEF TotalMatchesPages, TotalOf, PriceList
  <2>4. CASE WroteHead(p) /\ req[p].vat = Keep
    <3>1. quote'.vat = quote.vat /\ sheets' = sheets /\ total' = total
      BY <1>1, <2>4 DEF WroteHead, QuoteRow
    <3> QED BY <3>1 DEF TotalMatchesPages, TotalOf, PriceList
  <2>5. CASE WrotePage(p)
    <3>1. PriceList(sheets') = PriceList(sheets) /\ quote' = quote /\ total' = total
      BY <2>5 DEF WrotePage, PriceList
    <3>2. TotalOf(sheets', quote.vat) = TotalOf(sheets, quote.vat)
      BY <3>1 DEF TotalOf
    <3> QED BY <3>1, <3>2 DEF TotalMatchesPages, TotalOf, PriceList
  <2>6. CASE WroteStatus(p) \/ WroteDelete(p)
    <3>1. quote'.vat = quote.vat /\ sheets' = sheets /\ total' = total
      BY <1>1, <2>6 DEF WroteStatus, WroteDelete, QuoteRow
    <3> QED BY <3>1 DEF TotalMatchesPages, TotalOf, PriceList
  <2> QED BY <1>2, <2>2, <2>3, <2>4, <2>5, <2>6 DEF Wrote
<1>3. CASE UNCHANGED db
  BY <1>3 DEF db, TotalMatchesPages, TotalOf, PriceList
<1> QED BY <1>2, <1>3, StepKinds DEF Does, Opened, Accepted, Advanced, ReadOn, Quit, vars

(* MONEY-06 for any number of saves and VAT changes at once: the total is  *)
(* the total of the pages and the VAT stored now.                          *)
THEOREM TotalIsOfPages == ASSUME FALSE \notin Bases PROVE Spec => []TotalMatchesPages
<1>1. Typed /\ Stamped /\ Informed /\ TotalMatchesPages /\ [Next]_vars => TotalMatchesPages'
  BY NextTotal
<1> QED BY <1>1, InitTotal, TypedInvariant, StampedInvariant, InformedInvariant, PTL DEF Spec

(***************************************************************************)
(* The rows a save creates.                                                *)
(***************************************************************************)
Carried(p, k) == CarryFrom(req[p].payload, fresh[p].sheets)[k]

LEMMA SavedRows ==
    ASSUME Typed, NEW p \in Req, pc[p] = "commit", req[p].kind = "save"
    PROVE  /\ Len(req[p].payload) \in Nat /\ DOMAIN req[p].payload = 1..Len(req[p].payload)
           /\ DOMAIN SaveSheets(p) = nextId..(nextId + Len(req[p].payload) - 1)
           /\ \A k \in 1..Len(req[p].payload) : Carried(p, k) \in DOMAIN fresh[p].sheets \cup {NewPage}
           /\ fresh[p].sheets \in RowSets
<1>1. req[p].payload \in Payloads /\ fresh[p].sheets \in RowSets
  BY DEF Typed, Phases, PhaseOK, HasRead
<1>2. CarryFrom(req[p].payload, fresh[p].sheets)
        \in [1..Len(req[p].payload) -> DOMAIN fresh[p].sheets \cup {NewPage}]
  BY <1>1, CarryType
<1>3. Len(req[p].payload) \in Nat /\ DOMAIN req[p].payload = 1..Len(req[p].payload)
  BY <1>1 DEF Payloads
<1>4. DOMAIN SaveSheets(p) = nextId..(nextId + Len(req[p].payload) - 1)
  BY SaveSheetsType
<1>5. \A k \in 1..Len(req[p].payload) : Carried(p, k) \in DOMAIN fresh[p].sheets \cup {NewPage}
  BY <1>2 DEF Carried
<1> QED BY <1>1, <1>3, <1>4, <1>5

(* The stored row that row j of a save comes from, or NewPage, and its     *)
(* production code.                                                        *)
From(p, j) == Carried(p, j - nextId + 1)
CodesGiven(p) ==
    LET carry == CarryFrom(req[p].payload, fresh[p].sheets)
    IN IF MayRenumber(p) THEN [k \in DOMAIN carry |-> k]
       ELSE CodesFor(carry, fresh[p].sheets, seen[p].seq)
CodeGiven(p, j) == CodesGiven(p)[j - nextId + 1]

(* Row j as it is made.                                                    *)
RowFor(p, j) ==
    LET price == req[p].payload[j - nextId + 1].price
    IN IF From(p, j) = NewPage
       THEN [page |-> j, price |-> price, cust |-> "none",
             inv |-> FALSE, signed |-> FALSE, code |-> CodeGiven(p, j)]
       ELSE [fresh[p].sheets[From(p, j)] EXCEPT !.price = price, !.code = CodeGiven(p, j)]

LEMMA RowSource ==
    ASSUME Typed, NEW p \in Req, pc[p] = "commit", req[p].kind = "save",
           NEW j \in DOMAIN SaveSheets(p)
    PROVE  From(p, j) \in DOMAIN fresh[p].sheets \cup {NewPage}
<1> PICK n, k, old : n = Len(req[p].payload) /\ k = j - nextId + 1 /\ old = fresh[p].sheets
  OBVIOUS
<1>1. /\ n \in Nat /\ nextId \in Nat /\ DOMAIN SaveSheets(p) = nextId..(nextId + n - 1)
      /\ \A a \in 1..n : Carried(p, a) \in DOMAIN old \cup {NewPage}
  BY SavedRows DEF Typed, Db
<1>2. k \in 1..n
  BY <1>1
<1>3. Carried(p, k) \in DOMAIN old \cup {NewPage}
  BY <1>1, <1>2
<1> QED BY <1>3 DEF From

LEMMA RowMade ==
    ASSUME Typed, NEW p \in Req, pc[p] = "commit", req[p].kind = "save",
           NEW j \in DOMAIN SaveSheets(p)
    PROVE  SaveSheets(p)[j] = RowFor(p, j)
<1> PICK old, payload, codes, carry, k, c :
         /\ old = fresh[p].sheets /\ payload = req[p].payload
         /\ codes = CodesGiven(p) /\ carry = CarryFrom(payload, old)
         /\ k = j - nextId + 1 /\ c = carry[k]
  OBVIOUS
<1>1. SaveSheets(p) = RecreatedSheets(payload, carry, codes, old, nextId)
  BY DEF SaveSheets, CodesGiven
<1>2. j \in nextId..(nextId + Len(payload) - 1)
  BY SavedRows
<1>3. SaveSheets(p)[j] =
        IF c = NewPage
        THEN [page |-> j, price |-> payload[k].price, cust |-> "none",
              inv |-> FALSE, signed |-> FALSE, code |-> codes[k]]
        ELSE [old[c] EXCEPT !.price = payload[k].price, !.code = codes[k]]
  BY <1>1, <1>2 DEF RecreatedSheets
<1>4. c = From(p, j) /\ codes[k] = CodeGiven(p, j)
  BY DEF From, Carried, CodeGiven
<1> QED BY <1>3, <1>4 DEF RowFor

LEMMA OldIsPage ==
    ASSUME Typed, NEW p \in Req, pc[p] = "commit", req[p].kind = "save",
           NEW c \in DOMAIN fresh[p].sheets
    PROVE  fresh[p].sheets[c] \in Page
<1> PICK old : old = fresh[p].sheets
  OBVIOUS
<1>1. old \in RowSets
  BY SavedRows
<1>2. old \in [DOMAIN old -> Page]
  BY <1>1 DEF RowSets
<1> QED BY <1>2

LEMMA RowNew ==
    ASSUME Typed, NEW p \in Req, pc[p] = "commit", req[p].kind = "save",
           NEW j \in DOMAIN SaveSheets(p), From(p, j) = NewPage
    PROVE  SaveSheets(p)[j].page = j /\ SaveSheets(p)[j].inv = FALSE
<1>1. SaveSheets(p)[j] = RowFor(p, j)
  BY RowMade
<1>2. RowFor(p, j).page = j /\ RowFor(p, j).inv = FALSE
  BY DEF RowFor
<1> QED BY <1>1, <1>2

LEMMA RowOld ==
    ASSUME Typed, NEW p \in Req, pc[p] = "commit", req[p].kind = "save",
           NEW j \in DOMAIN SaveSheets(p), NEW c, c = From(p, j), c # NewPage,
           NEW was, was = fresh[p].sheets[c], NEW row, row = SaveSheets(p)[j]
    PROVE  row.page = was.page /\ StateOf(row) = StateOf(was)
<1>1. c \in DOMAIN fresh[p].sheets
  BY RowSource
<1>2. was \in Page
  BY <1>1, OldIsPage
<1> PICK price, code : price = req[p].payload[j - nextId + 1].price /\ code = CodeGiven(p, j)
  OBVIOUS
<1>3. row = [was EXCEPT !.price = price, !.code = code]
  <2>1. row = RowFor(p, j)
    BY RowMade
  <2> QED BY <2>1 DEF RowFor
<1>4. row.page = was.page /\ row.cust = was.cust /\ row.inv = was.inv /\ row.signed = was.signed
  BY <1>2, <1>3 DEF Page
<1> QED BY <1>4 DEF StateOf

LEMMA RowCode ==
    ASSUME Typed, NEW p \in Req, pc[p] = "commit", req[p].kind = "save",
           NEW j \in DOMAIN SaveSheets(p)
    PROVE  SaveSheets(p)[j].code = CodeGiven(p, j)
<1> PICK c, was, code, price : /\ c = From(p, j) /\ was = fresh[p].sheets[c]
                   /\ code = CodeGiven(p, j) /\ price = req[p].payload[j - nextId + 1].price
  OBVIOUS
<1>1. SaveSheets(p)[j] = RowFor(p, j)
  BY RowMade
<1>2. CASE c = NewPage
  BY <1>1, <1>2 DEF RowFor
<1>3. CASE c # NewPage
  <2>1. c \in DOMAIN fresh[p].sheets
    BY <1>3, RowSource
  <2>2. was \in Page
    BY <2>1, OldIsPage
  <2>3. RowFor(p, j) = [was EXCEPT !.price = price, !.code = code]
    BY <1>3 DEF RowFor
  <2> QED BY <1>1, <2>2, <2>3 DEF Page
<1> QED BY <1>2, <1>3

LEMMA SavedRow ==
    ASSUME Typed, NEW p \in Req, pc[p] = "commit", req[p].kind = "save",
           NEW k \in 1..Len(req[p].payload)
    PROVE  LET c == Carried(p, k)
               new == SaveSheets(p)[nextId + k - 1]
           IN /\ c = NewPage => /\ new.page = nextId + k - 1 /\ new.cust = "none"
                                /\ new.inv = FALSE /\ new.signed = FALSE
              /\ c # NewPage => /\ new.page = fresh[p].sheets[c].page
                                /\ new.cust = fresh[p].sheets[c].cust
                                /\ new.inv = fresh[p].sheets[c].inv
                                /\ new.signed = fresh[p].sheets[c].signed
<1> DEFINE c == Carried(p, k)
           j == nextId + k - 1
           payload == req[p].payload
           old == fresh[p].sheets
           carry == CarryFrom(payload, old)
           codes == IF MayRenumber(p) THEN [i \in DOMAIN carry |-> i]
                    ELSE CodesFor(carry, old, seen[p].seq)
<1>1. /\ Len(payload) \in Nat /\ nextId \in Nat
      /\ c \in DOMAIN old \cup {NewPage} /\ old \in [DOMAIN old -> Page]
  <2>1. old \in RowSets /\ Len(payload) \in Nat /\ c \in DOMAIN old \cup {NewPage}
    BY SavedRows
  <2>2. nextId \in Nat
    BY DEF Typed, Db
  <2> QED BY <2>1, <2>2 DEF RowSets
<1>2. j \in nextId..(nextId + Len(payload) - 1) /\ j - nextId + 1 = k
  BY <1>1
<1>3. SaveSheets(p) = RecreatedSheets(payload, carry, codes, old, nextId)
  BY DEF SaveSheets
<1>4. c = carry[k]
  BY DEF Carried
<1> HIDE DEF c, codes, carry, old, payload, j
<1>5. RecreatedSheets(payload, carry, codes, old, nextId)[j] =
        IF carry[k] = NewPage
        THEN [page |-> j, price |-> payload[k].price, cust |-> "none",
              inv |-> FALSE, signed |-> FALSE, code |-> codes[k]]
        ELSE [old[carry[k]] EXCEPT !.price = payload[k].price, !.code = codes[k]]
  BY <1>2 DEF RecreatedSheets
<1>6. CASE c = NewPage
  BY <1>3, <1>4, <1>5, <1>6 DEF c, j, old
<1>7. CASE c # NewPage
  <2>1. old[c] \in Page
    BY <1>1, <1>7
  <2>2. SaveSheets(p)[j] = [old[c] EXCEPT !.price = payload[k].price, !.code = codes[k]]
    BY <1>3, <1>4, <1>5, <1>7
  <2>3. /\ SaveSheets(p)[j].page = old[c].page /\ SaveSheets(p)[j].cust = old[c].cust
        /\ SaveSheets(p)[j].inv = old[c].inv /\ SaveSheets(p)[j].signed = old[c].signed
    BY <2>1, <2>2 DEF Page
  <2> QED BY <1>7, <2>3 DEF c, j, old
<1> QED BY <1>6, <1>7 DEF c, j, old
(***************************************************************************)
(* Invoice numbers and signatures.                                         *)
(***************************************************************************)
DocumentsIn(pages) ==
    \A i \in DOMAIN pages : pages[i].inv \/ pages[i].signed => quote.status = "converted"

Documents ==
    \A p \in Req : /\ req[p].kind \in {"invoice", "sign"} => quote.status = "converted"
                   /\ DocumentsIn(fresh[p].sheets)

LEMMA InitDocuments == Init => DocumentsOnlyOnClosedDeal /\ Documents
BY DEF Init, DocumentsOnlyOnClosedDeal, Documents, DocumentsIn, NoRequest, NothingRead

LEMMA WroteDocuments ==
    ASSUME Typed, Documents, DocumentsOnlyOnClosedDeal, NEW p \in Req, Wrote(p),
           pc[p] = "commit", quote.status = "converted" => quote'.status = "converted"
    PROVE  DocumentsOnlyOnClosedDeal'
<1>1. SUFFICES ASSUME NEW j \in DOMAIN sheets', sheets'[j].inv \/ sheets'[j].signed
               PROVE  quote.status = "converted"
  BY DEF DocumentsOnlyOnClosedDeal
<1>2. CASE WroteSave(p)
  <2> DEFINE k == j - nextId + 1
  <2>1. req[p].kind = "save" /\ sheets' = SaveSheets(p)
    BY <1>2 DEF WroteSave
  <2>2. k \in 1..Len(req[p].payload) /\ j = nextId + k - 1
    <3>1. /\ nextId \in Nat /\ Len(req[p].payload) \in Nat
          /\ j \in nextId..(nextId + Len(req[p].payload) - 1)
      BY <1>1, <2>1, SavedRows DEF Typed, Db
    <3> QED BY <3>1
  <2> HIDE DEF k
  <2> DEFINE c == Carried(p, k)
             old == fresh[p].sheets
  <2>3. /\ c = NewPage => sheets'[j].inv = FALSE /\ sheets'[j].signed = FALSE
        /\ c # NewPage => sheets'[j].inv = old[c].inv /\ sheets'[j].signed = old[c].signed
    BY <2>1, <2>2, SavedRow
  <2>4. c \in DOMAIN old \cup {NewPage}
    BY <2>1, <2>2, SavedRows
  <2>5. c \in DOMAIN old /\ (old[c].inv \/ old[c].signed)
    BY <1>1, <2>3, <2>4
  <2> QED BY <2>5 DEF Documents, DocumentsIn
<1>3. CASE WrotePage(p)
  <2>1. j \in DOMAIN sheets
    BY <1>3 DEF WrotePage
  <2>2. CASE req[p].kind \in {"invoice", "sign"}
    BY <2>2 DEF Documents
  <2>3. CASE req[p].kind = "decide"
    <3>1. sheets'[j].inv = sheets[j].inv /\ sheets'[j].signed = sheets[j].signed
      BY <1>3, <2>1, <2>3 DEF WrotePage
    <3> QED BY <1>1, <2>1, <3>1 DEF DocumentsOnlyOnClosedDeal
  <2> QED BY <1>3, <2>2, <2>3 DEF WrotePage
<1>4. CASE WroteHead(p) \/ WroteStatus(p) \/ WroteDelete(p)
  <2>1. sheets' = sheets
    BY <1>4 DEF WroteHead, WroteStatus, WroteDelete
  <2> QED BY <1>1, <2>1 DEF DocumentsOnlyOnClosedDeal
<1> QED BY <1>2, <1>3, <1>4 DEF Wrote

LEMMA NextDocuments ==
    ASSUME Typed, Stamped, Informed, Documents, DocumentsOnlyOnClosedDeal, [Next]_vars
    PROVE  DocumentsOnlyOnClosedDeal' /\ Documents'
<1>1. quote.status = "converted" => quote'.status = "converted"
  BY NextTerminal DEF Terminal
<1>2. CASE UNCHANGED vars
  BY <1>2 DEF vars, db, local, DocumentsOnlyOnClosedDeal, Documents, DocumentsIn
<1>3. ASSUME NEW p \in Req, OthersKept(p), Does(p)
      PROVE DocumentsOnlyOnClosedDeal' /\ Documents'
  <2>1. DocumentsOnlyOnClosedDeal'
    <3>1. CASE Wrote(p) /\ pc[p] = "commit"
      BY <1>1, <3>1, WroteDocuments
    <3>2. CASE UNCHANGED db
      BY <3>2 DEF db, DocumentsOnlyOnClosedDeal
    <3> QED BY <1>3, <3>1, <3>2 DEF Does, Opened, Accepted, Advanced, ReadOn, Quit
  <2>2. ASSUME NEW q \in Req \ {p}
        PROVE /\ req'[q].kind \in {"invoice", "sign"} => quote'.status = "converted"
              /\ DocumentsIn(fresh[q].sheets)'
    <3>1. req'[q] = req[q] /\ fresh'[q] = fresh[q]
      BY <1>3 DEF OthersKept
    <3> QED BY <1>1, <3>1 DEF Documents, DocumentsIn
  <2>3. /\ req'[p].kind \in {"invoice", "sign"} => quote'.status = "converted"
        /\ DocumentsIn(fresh[p].sheets)'
    <3>1. CASE Opened(p)
      BY <1>1, <3>1 DEF Opened, Documents, DocumentsIn
    <3>2. CASE Accepted(p)
      BY <1>1, <3>2 DEF Accepted, Documents, DocumentsIn
    <3>3. CASE Advanced(p)
      BY <1>1, <3>3 DEF Advanced, local, Documents, DocumentsIn
    <3>4. CASE ReadOn(p)
      <4>1. fresh'[p].sheets = sheets /\ req' = req
        BY <3>4 DEF ReadOn
      <4> QED BY <1>1, <4>1 DEF Documents, DocumentsIn, DocumentsOnlyOnClosedDeal
    <3>5. CASE Ended(p)
      BY <3>5 DEF Ended, DocumentsIn, NoRequest, NothingRead
    <3> QED BY <1>3, <3>1, <3>2, <3>3, <3>4, <3>5 DEF Does, Quit
  <2> QED BY <2>1, <2>2, <2>3 DEF Documents
<1> QED BY <1>2, <1>3, StepKinds

(* An invoice number or a signature is on a closed deal only, though the   *)
(* routes check the status before they wait for the page.                  *)
THEOREM DocumentsAreOnClosedDeal ==
    ASSUME FALSE \notin Bases PROVE Spec => []DocumentsOnlyOnClosedDeal
<1>1. Typed /\ Stamped /\ Informed /\ Documents /\ DocumentsOnlyOnClosedDeal /\ [Next]_vars
        => DocumentsOnlyOnClosedDeal' /\ Documents'
  BY NextDocuments
<1> QED BY <1>1, InitDocuments, TypedInvariant, StampedInvariant, InformedInvariant, PTL
        DEF Spec

(* The history as a whole: the current version is recorded and no earlier  *)
(* one is touched, whatever order the writers come in.                     *)
THEOREM HistoryStands == Spec => HistoryIsRecord
BY HistoryIsCurrent, HistoryIsKept, PTL DEF HistoryIsRecord

(* A closed deal keeps its status, stays out of the recycle bin, and is the *)
(* only one with invoice numbers or signatures, when every save names the  *)
(* version it was written on.                                              *)
THEOREM ClosedStays == ASSUME FALSE \notin Bases PROVE Spec => ClosedIsFinal
BY TerminalStays, ClosedIsNotDeleted, DocumentsAreOnClosedDeal, PTL DEF ClosedIsFinal

-----------------------------------------------------------------------------
(***************************************************************************)
(* What happens to the state of a page - the customer's decision, the      *)
(* invoice number, the signature - when a save deletes its row and creates *)
(* another.                                                                *)
(***************************************************************************)

(***************************************************************************)
(* A page has one row, and a save carries a stored page once.              *)
(***************************************************************************)
OnceIn(pages) ==
    /\ \A i, j \in DOMAIN pages : pages[i].page = pages[j].page => i = j
    /\ \A i \in DOMAIN pages : pages[i].page < nextId
PagesOnce == OnceIn(sheets) /\ \A p \in Req : OnceIn(fresh[p].sheets)

LEMMA CarryOnce ==
    ASSUME NEW payload \in Payloads, NEW pages \in RowSets,
           NEW k1 \in 1..Len(payload), NEW k2 \in 1..Len(payload),
           CarryFrom(payload, pages)[k1] = CarryFrom(payload, pages)[k2],
           CarryFrom(payload, pages)[k1] # NewPage
    PROVE  k1 = k2
<1>1. Len(payload) \in Nat /\ DOMAIN payload = 1..Len(payload)
  BY DEF Payloads
<1>2. CASE \E k \in DOMAIN payload : payload[k].id # NewPage
  <2>1. CarryFrom(payload, pages) = CarryById(payload, pages)
    BY <1>2 DEF CarryFrom
  <2>2. ASSUME NEW a \in 1..Len(payload), CarryById(payload, pages)[a] # NewPage
        PROVE  /\ CarryById(payload, pages)[a] = payload[a].id
               /\ \A j \in 1..(a - 1) : payload[j].id # payload[a].id
    BY <1>1, <2>2 DEF CarryById
  <2>3. /\ payload[k1].id = payload[k2].id
        /\ \A j \in 1..(k1 - 1) : payload[j].id # payload[k1].id
        /\ \A j \in 1..(k2 - 1) : payload[j].id # payload[k2].id
    BY <2>1, <2>2
  <2>4. k1 \in Nat /\ k2 \in Nat /\ k1 >= 1 /\ k2 >= 1
    BY <1>1
  <2>5. CASE k1 < k2
    <3>1. k1 \in 1..(k2 - 1)
      BY <2>4, <2>5
    <3> QED BY <2>3, <3>1
  <2>6. CASE k2 < k1
    <3>1. k2 \in 1..(k1 - 1)
      BY <2>4, <2>6
    <3> QED BY <2>3, <3>1
  <2> QED BY <2>4, <2>5, <2>6
<1>3. CASE ~(\E k \in DOMAIN payload : payload[k].id # NewPage)
  <2> DEFINE S == DOMAIN pages
  <2>1. S \in SUBSET Nat /\ IsFiniteSet(S)
    BY DEF RowSets
  <2>2. CASE Len(payload) = Cardinality(S)
    <3>1. CarryFrom(payload, pages) = InOrder(S)
      BY <1>3, <2>2 DEF CarryFrom
    <3>2. NthSmallest(S, k1) = NthSmallest(S, k2)
      BY <2>2, <3>1 DEF InOrder
    <3>3. /\ Cardinality({y \in S : y =< NthSmallest(S, k1)}) = k1
          /\ Cardinality({y \in S : y =< NthSmallest(S, k2)}) = k2
      BY <2>1, <2>2, NthSmallestIn
    <3> QED BY <3>2, <3>3
  <2>3. CASE Len(payload) # Cardinality(S)
    BY <1>1, <1>3, <2>3 DEF CarryFrom
  <2> QED BY <2>2, <2>3
<1> QED BY <1>2, <1>3

LEMMA SavedOnce ==
    ASSUME Typed, PagesOnce, NEW p \in Req, pc[p] = "commit", WroteSave(p)
    PROVE  OnceIn(sheets)'
<1> DEFINE n == Len(req[p].payload)
           old == fresh[p].sheets
           new == SaveSheets(p)
<1>1. req[p].kind = "save" /\ sheets' = new /\ nextId' = nextId + n
  BY DEF WroteSave
<1>2. /\ nextId \in Nat /\ n \in Nat /\ DOMAIN new = nextId..(nextId + n - 1)
      /\ old \in RowSets /\ req[p].payload \in Payloads
      /\ \A k \in 1..n : Carried(p, k) \in DOMAIN old \cup {NewPage}
  BY <1>1, SavedRows DEF Typed, Db, Phases, PhaseOK
<1>3. OnceIn(old) /\ \A i \in DOMAIN old : old[i].page \in Nat
  <2>1. OnceIn(old)
    BY DEF PagesOnce
  <2>2. \A i \in DOMAIN old : old[i] \in Page
    <3>1. PICK D \in SUBSET Nat : old \in [D -> Page]
      BY <1>2 DEF RowSets
    <3> QED BY <3>1
  <2>3. \A i \in DOMAIN old : old[i].page \in Nat
    BY <2>2 DEF Page
  <2> QED BY <2>1, <2>3
<1>4. ASSUME NEW k \in 1..n
      PROVE  /\ Carried(p, k) = NewPage => new[nextId + k - 1].page = nextId + k - 1
             /\ Carried(p, k) # NewPage =>
                  /\ new[nextId + k - 1].page = old[Carried(p, k)].page
                  /\ new[nextId + k - 1].page < nextId
  <2>1. Carried(p, k) # NewPage => Carried(p, k) \in DOMAIN old
    BY <1>2
  <2>2. /\ Carried(p, k) = NewPage => new[nextId + k - 1].page = nextId + k - 1
        /\ Carried(p, k) # NewPage => new[nextId + k - 1].page = old[Carried(p, k)].page
    BY <1>1, SavedRow
  <2> HIDE DEF new, old
  <2> QED BY <1>3, <2>1, <2>2 DEF OnceIn
<1>5. ASSUME NEW j \in DOMAIN new
      PROVE  j - nextId + 1 \in 1..n /\ nextId + (j - nextId + 1) - 1 = j
  <2>1. j \in nextId..(nextId + n - 1)
    BY <1>2
  <2> QED BY <1>2, <2>1
<1> HIDE DEF n, new, old
<1>6. ASSUME NEW k1 \in 1..n, NEW k2 \in 1..n,
             new[nextId + k1 - 1].page = new[nextId + k2 - 1].page
      PROVE  k1 = k2
  <2>1. k1 \in Nat /\ k2 \in Nat /\ k1 >= 1 /\ k2 >= 1
    BY <1>2
  <2>2. CASE Carried(p, k1) = NewPage \/ Carried(p, k2) = NewPage
    <3> DEFINE a == new[nextId + k1 - 1].page
               b == new[nextId + k2 - 1].page
    <3>1. /\ Carried(p, k1) = NewPage => a = nextId + k1 - 1
          /\ Carried(p, k1) # NewPage => a < nextId
      BY <1>4
    <3>2. /\ Carried(p, k2) = NewPage => b = nextId + k2 - 1
          /\ Carried(p, k2) # NewPage => b < nextId
      BY <1>4
    <3>3. a = b
      BY <1>6
    <3> HIDE DEF a, b
    <3> QED BY <1>2, <2>1, <2>2, <3>1, <3>2, <3>3
  <2>3. CASE Carried(p, k1) # NewPage /\ Carried(p, k2) # NewPage
    <3>1. Carried(p, k1) = Carried(p, k2)
      BY <1>2, <1>3, <1>4, <1>6, <2>3 DEF OnceIn
    <3> QED BY <1>2, <2>3, <3>1, CarryOnce DEF Carried, n, old
  <2> QED BY <2>2, <2>3
<1>7. ASSUME NEW i \in DOMAIN new, NEW j \in DOMAIN new, new[i].page = new[j].page
      PROVE  i = j
  <2>1. i - nextId + 1 = j - nextId + 1
    BY <1>5, <1>6, <1>7
  <2>2. i \in Int /\ j \in Int
    BY <1>2
  <2> QED BY <1>2, <2>1, <2>2
<1>8. ASSUME NEW i \in DOMAIN new PROVE new[i].page < nextId'
  <2>1. \E k \in 1..n : i = nextId + k - 1
    BY <1>5
  <2>2. PICK k \in 1..n : i = nextId + k - 1
    BY <2>1
  <2>3. k \in Nat /\ k >= 1 /\ k =< n
    BY <1>2
  <2>4. CASE Carried(p, k) = NewPage
    BY <1>1, <1>2, <1>4, <2>2, <2>3, <2>4 DEF n
  <2>5. CASE Carried(p, k) # NewPage
    <3>1. new[i].page < nextId /\ new[i].page \in Nat
      BY <1>2, <1>3, <1>4, <2>2, <2>5
    <3> QED BY <1>1, <1>2, <3>1 DEF n
  <2> QED BY <2>4, <2>5
<1> QED BY <1>1, <1>7, <1>8 DEF OnceIn, new
LEMMA OnceKept ==
    ASSUME NEW pages, OnceIn(pages), nextId' >= nextId, nextId \in Nat, nextId' \in Nat,
           pages \in RowSets \cup {<<>>}
    PROVE  \A i \in DOMAIN pages : pages[i].page < nextId'
<1>1. ASSUME NEW i \in DOMAIN pages PROVE pages[i].page < nextId'
  <2>1. pages \in RowSets
    BY <1>1
  <2>2. pages[i].page \in Nat /\ pages[i].page < nextId
    <3>1. pages[i] \in Page
      BY <1>1, <2>1 DEF RowSets
    <3>2. pages[i].page \in Nat
      BY <3>1 DEF Page
    <3> QED BY <1>1, <3>2 DEF OnceIn
  <2> QED BY <2>2
<1> QED BY <1>1

LEMMA NextIdGrows ==
    ASSUME Typed, NEW p \in Req, Wrote(p), pc[p] = "commit" PROVE nextId' >= nextId /\ nextId' \in Nat
<1>1. nextId \in Nat
  BY DEF Typed, Db
<1>2. CASE WroteSave(p)
  BY <1>1, <1>2, SavedRows DEF WroteSave
<1>3. CASE ~WroteSave(p)
  <2>1. nextId' = nextId
    BY <1>3 DEF Wrote, WroteHead, WrotePage, WroteStatus, WroteDelete
  <2> QED BY <1>1, <2>1
<1> QED BY <1>2, <1>3

LEMMA WroteOnce ==
    ASSUME Typed, PagesOnce, NEW p \in Req, Wrote(p), pc[p] = "commit" PROVE OnceIn(sheets)'
<1>1. CASE WroteSave(p)
  BY <1>1, SavedOnce
<1>2. CASE WrotePage(p)
  <2>1. DOMAIN sheets' = DOMAIN sheets /\ nextId' = nextId
        /\ \A i \in DOMAIN sheets : sheets'[i].page = sheets[i].page
    BY <1>2 DEF WrotePage
  <2> QED BY <2>1 DEF PagesOnce, OnceIn
<1>3. CASE WroteHead(p) \/ WroteStatus(p) \/ WroteDelete(p)
  <2>1. sheets' = sheets /\ nextId' = nextId
    BY <1>3 DEF WroteHead, WroteStatus, WroteDelete
  <2> QED BY <2>1 DEF PagesOnce, OnceIn
<1> QED BY <1>1, <1>2, <1>3 DEF Wrote, WroteSave

LEMMA InitOnce == Init => PagesOnce
<1>1. ASSUME Init PROVE OnceIn(sheets)
  BY <1>1, DataAssumption DEF Init, OnceIn
<1>2. ASSUME Init, NEW p \in Req PROVE OnceIn(fresh[p].sheets)
  <2>1. fresh[p].sheets = <<>>
    BY <1>2 DEF Init, NothingRead
  <2> QED BY <2>1 DEF OnceIn
<1> QED BY <1>1, <1>2 DEF PagesOnce

LEMMA NextOnce ==
    ASSUME Typed, PagesOnce, [Next]_vars PROVE PagesOnce'
<1>1. CASE UNCHANGED vars
  BY <1>1 DEF vars, db, local, PagesOnce, OnceIn
<1>2. ASSUME NEW p \in Req, OthersKept(p), Does(p) PROVE PagesOnce'
  <2>1. OnceIn(sheets)'
    <3>1. CASE Wrote(p) /\ pc[p] = "commit"
      BY <3>1, WroteOnce
    <3>2. CASE UNCHANGED db
      BY <3>2 DEF db, PagesOnce, OnceIn
    <3> QED BY <1>2, <3>1, <3>2 DEF Does, Opened, Accepted, Advanced, ReadOn, Quit
  <2>2. nextId \in Nat /\ nextId' \in Nat /\ nextId' >= nextId
    <3>1. nextId \in Nat
      BY DEF Typed, Db
    <3>2. CASE UNCHANGED db
      BY <3>1, <3>2 DEF db
    <3>3. CASE Wrote(p) /\ pc[p] = "commit"
      BY <3>1, <3>3, NextIdGrows
    <3> QED BY <1>2, <3>2, <3>3 DEF Does, Opened, Accepted, Advanced, ReadOn, Quit
  <2>3. ASSUME NEW q \in Req, fresh'[q] = fresh[q] PROVE OnceIn(fresh[q].sheets)'
    <3>1. fresh[q].sheets \in RowSets \cup {<<>>} /\ OnceIn(fresh[q].sheets)
      BY DEF Typed, Tables, Reads, PagesOnce
    <3>2. \A i \in DOMAIN fresh[q].sheets : fresh[q].sheets[i].page < nextId'
      BY <2>2, <3>1, OnceKept
    <3> QED BY <2>3, <3>1, <3>2 DEF OnceIn
  <2>4. OnceIn(fresh[p].sheets)'
    <3>1. CASE ReadOn(p)
      <4>1. fresh'[p].sheets = sheets' /\ OnceIn(sheets)'
        BY <2>1, <3>1 DEF ReadOn, db
      <4> QED BY <4>1 DEF OnceIn
    <3>2. CASE Ended(p)
      BY <3>2 DEF Ended, NothingRead, OnceIn
    <3>3. CASE Opened(p) \/ Accepted(p) \/ Advanced(p)
      <4>1. fresh'[p] = fresh[p]
        BY <3>3 DEF Opened, Accepted, Advanced, local
      <4> QED BY <2>3, <4>1
    <3> QED BY <1>2, <3>1, <3>2, <3>3 DEF Does, Quit
  <2>5. ASSUME NEW q \in Req \ {p} PROVE OnceIn(fresh[q].sheets)'
    BY <1>2, <2>3 DEF OthersKept
  <2> QED BY <2>1, <2>4, <2>5 DEF PagesOnce
<1> QED BY <1>1, <1>2, StepKinds

(* Every page has one row, and its number was given before.                *)
THEOREM PagesOnceInvariant == Spec => []PagesOnce
BY TypedInvariant, InitOnce, NextOnce, PTL DEF Spec

(***************************************************************************)
(* The route that writes one page names a row that existed.                *)
(***************************************************************************)
Targets == \A p \in Req : req[p].target < nextId

LEMMA SubmitRequest ==
    ASSUME Typed, NEW p \in Req, NEW r, NEW allowed, NEW phase, Submit(p, r, allowed, phase)
    PROVE  req'[p] \in {r, NoRequest}
<1>1. CASE allowed /\ ~quote.deleted
  BY <1>1 DEF Submit, Typed, Tables
<1>2. CASE ~(allowed /\ ~quote.deleted)
  BY <1>2 DEF Submit, RollBack, Finish, Typed, Tables
<1> QED BY <1>1, <1>2

LEMMA ArriveTarget ==
    ASSUME Typed, NEW p \in Req, Arrive(p)
    PROVE  req'[p].target \in {req[p].target, NewPage} \cup DOMAIN sheets
<1>1. NoRequest.target = NewPage
  BY DEF NoRequest
<1>2. CASE Load(p)
  <2>1. PICK b \in Bases : req' = [req EXCEPT
            ![p] = [NoRequest EXCEPT !.base = IF b THEN quote.updatedAt ELSE NoBase]]
    BY <1>2 DEF Load
  <2> QED BY <2>1 DEF Typed, Tables, NoRequest
<1>3. CASE ArriveSave(p)
  <2>1. PICK e \in Edits, price \in Prices, v \in VatEdits, n \in Renumbers, s \in Senders :
         LET r == [req[p] EXCEPT !.kind = "save", !.vat = v, !.renumber = n, !.right = s,
                    !.payload = PayloadOf(e, loaded[p].pages, price)]
         IN Submit(p, r, CanEdit(s) /\ BaseMatches(r), "arrived")
    BY <1>3 DEF ArriveSave
  <2> DEFINE r == [req[p] EXCEPT !.kind = "save", !.vat = v, !.renumber = n, !.right = s,
                    !.payload = PayloadOf(e, loaded[p].pages, price)]
  <2>2. r.target = req[p].target
    BY DEF Typed, Tables, Requests
  <2>3. Submit(p, r, CanEdit(s) /\ BaseMatches(r), "arrived")
    BY <2>1
  <2> HIDE DEF r
  <2> QED BY <1>1, <2>2, <2>3, SubmitRequest
<1>4. CASE ArriveHead(p)
  <2>1. PICK v \in VatEdits, s \in Senders :
         LET r == [req[p] EXCEPT !.kind = "head", !.vat = v, !.right = s]
         IN Submit(p, r, CanEdit(s) /\ BaseMatches(r), IF v = Keep THEN "commit" ELSE "arrived")
    BY <1>4 DEF ArriveHead
  <2> DEFINE r == [req[p] EXCEPT !.kind = "head", !.vat = v, !.right = s]
             phase == IF v = Keep THEN "commit" ELSE "arrived"
  <2>2. r.target = req[p].target
    BY DEF Typed, Tables, Requests
  <2>3. Submit(p, r, CanEdit(s) /\ BaseMatches(r), phase)
    BY <2>1
  <2> HIDE DEF r, phase
  <2> QED BY <1>1, <2>2, <2>3, SubmitRequest
<1>5. ASSUME NEW kind, NEW values, NEW allowed, NEW phase,
             OnePage(p, kind, values, allowed, phase)
      PROVE  req'[p].target \in {req[p].target, NewPage} \cup DOMAIN sheets
  <2>1. PICK i \in DOMAIN sheets, v \in values :
         Submit(p, [NoRequest EXCEPT !.kind = kind, !.target = i, !.value = v], allowed, phase)
    BY <1>5 DEF OnePage
  <2> DEFINE r == [NoRequest EXCEPT !.kind = kind, !.target = i, !.value = v]
  <2>2. r.target = i
    BY DEF NoRequest
  <2>3. Submit(p, r, allowed, phase)
    BY <2>1
  <2> HIDE DEF r
  <2> QED BY <1>1, <2>2, <2>3, SubmitRequest
<1>6. CASE ArriveDecide(p) \/ ArriveInvoice(p) \/ ArriveSign(p)
  BY <1>5, <1>6 DEF ArriveDecide, ArriveInvoice, ArriveSign
<1>7. ASSUME NEW r, NEW allowed, NEW phase, Submit(p, r, allowed, phase), r.target = NewPage
      PROVE  req'[p].target \in {req[p].target, NewPage} \cup DOMAIN sheets
  BY <1>1, <1>7, SubmitRequest
<1>8. CASE ArriveConvert(p)
  <2>1. Submit(p, [NoRequest EXCEPT !.kind = "convert"], quote.status \notin Terminal, "arrived")
    BY <1>8 DEF ArriveConvert, WholeQuote
  <2>2. [NoRequest EXCEPT !.kind = "convert"].target = NewPage
    BY DEF NoRequest
  <2> QED BY <1>7, <2>1, <2>2
<1>9. CASE ArriveLost(p)
  <2>1. Submit(p, [NoRequest EXCEPT !.kind = "lost"], quote.status \notin Terminal, "commit")
    BY <1>9 DEF ArriveLost, WholeQuote
  <2>2. [NoRequest EXCEPT !.kind = "lost"].target = NewPage
    BY DEF NoRequest
  <2> QED BY <1>7, <2>1, <2>2
<1>10. CASE ArriveDelete(p)
  <2>1. PICK s \in Senders :
         Submit(p, [NoRequest EXCEPT !.kind = "delete", !.right = s], MayDelete(s), "commit")
    BY <1>10 DEF ArriveDelete
  <2>2. [NoRequest EXCEPT !.kind = "delete", !.right = s].target = NewPage
    BY DEF NoRequest
  <2> QED BY <1>7, <2>1, <2>2
<1> QED BY <1>2, <1>3, <1>4, <1>6, <1>8, <1>9, <1>10 DEF Arrive
LEMMA InitTargets == Init => Targets
BY DataAssumption DEF Init, Targets, NoRequest, NewPage

LEMMA NextTargets ==
    ASSUME Typed, Targets, [Next]_vars PROVE Targets'
<1>1. CASE UNCHANGED vars
  BY <1>1 DEF vars, db, local, Targets
<1>2. nextId \in Nat /\ nextId >= 1 /\ \A i \in DOMAIN sheets : i < nextId
  <2>1. nextId \in Nat /\ DOMAIN sheets \subseteq 1..(nextId - 1) /\ DOMAIN sheets # {}
    BY DEF Typed, Db, RowSets
  <2> QED BY <2>1
<1>3. ASSUME NEW p \in Req, OthersKept(p), Does(p), req'[p].target < nextId PROVE Targets'
  <2>1. nextId' >= nextId /\ nextId' \in Nat
    <3>1. CASE UNCHANGED db
      BY <1>2, <3>1 DEF db
    <3>2. CASE Wrote(p) /\ pc[p] = "commit"
      BY <3>2, NextIdGrows
    <3> QED BY <1>3, <3>1, <3>2 DEF Does, Opened, Accepted, Advanced, ReadOn, Quit
  <2>2. ASSUME NEW q \in Req PROVE req'[q].target < nextId /\ req'[q].target \in Nat
    <3>1. req'[q] \in Requests
      <4>1. Typed'
        BY NextTyped
      <4> QED BY <4>1 DEF Typed, Tables
    <3>2. req'[q].target < nextId
      BY <1>3 DEF OthersKept, Targets
    <3> QED BY <3>1, <3>2 DEF Requests
  <2>3. ASSUME NEW q \in Req PROVE req'[q].target < nextId'
    BY <1>2, <2>1, <2>2
  <2> QED BY <2>3 DEF Targets
<1>4. ASSUME NEW p \in Req, Arrive(p) PROVE Targets'
  <2>1. req'[p].target < nextId
    BY <1>2, <1>4, ArriveTarget DEF Targets, NewPage
  <2> QED BY <1>3, <1>4, <2>1, ArriveShape DEF Does, Quit
<1>5. ASSUME NEW p \in Req, OthersKept(p), Does(p),
             req'[p] = req[p] \/ Ended(p)
      PROVE Targets'
  <2>1. req'[p].target < nextId
    BY <1>2, <1>5 DEF Targets, Ended, NoRequest, NewPage
  <2> QED BY <1>3, <1>5, <2>1
<1>6. ASSUME NEW p \in Req, StartRows(p) \/ LockRow(p) \/ LockQuote(p) PROVE Targets'
  BY <1>5, <1>6, AdvanceShape DEF Does, Advanced, local
<1>7. ASSUME NEW p \in Req, Read(p) PROVE Targets'
  BY <1>5, <1>7, ReadShape DEF Does, Quit, ReadOn
<1>8. ASSUME NEW p \in Req, Commits(p) PROVE Targets'
  BY <1>5, <1>8, CommitShape, CommitWrites DEF Does
<1>9. ASSUME NEW p \in Req, DeadlockAbort(p) \/ Fail(p) PROVE Targets'
  BY <1>5, <1>9, AbortsShape DEF AbortShape, Does, Quit
<1> QED BY <1>1, <1>4, <1>6, <1>7, <1>8, <1>9, NextShape

(* A request names only rows that were created before it.                  *)
THEOREM TargetsInvariant == Spec => []Targets
BY TypedInvariant, InitTargets, NextTargets, PTL DEF Spec

(***************************************************************************)
(* The rows a request has locked when it counts on them.  A decision holds *)
(* the page it writes, unless that row is gone.  A save whose base is the  *)
(* stamp of the quote holds every row, and what it read is what is stored: *)
(* no other save came between, and no route writes a page without its row. *)
(***************************************************************************)
HoldsTarget(p) ==
    req[p].kind \in {"decide", "invoice"} /\ req[p].target \in DOMAIN sheets =>
      /\ pc[p] = "rows" => req[p].target \in want[p] \cup held[p]
      /\ pc[p] \in {"read", "commit"} => req[p].target \in held[p]

HoldsPages(p) ==
    req[p].kind = "save" /\ req[p].base = quote.updatedAt =>
      /\ pc[p] = "rows" => DOMAIN sheets \subseteq want[p] \cup held[p]
      /\ pc[p] \in {"quote", "read", "erase", "commit"} => DOMAIN sheets \subseteq held[p]
      /\ pc[p] \in {"erase", "commit"} => fresh[p].sheets = sheets

Holding == \A p \in Req : HoldsTarget(p) /\ HoldsPages(p)

LEMMA InitHolding == Init => Holding
BY DEF Init, Holding, HoldsTarget, HoldsPages, NoRequest

(* What another request writes takes nothing from what p holds.            *)
LEMMA WroteHolding ==
    ASSUME Typed, LocksExclusive, Based, Targets, Holding, NEW p \in Req, NEW q \in Req \ {p},
           OthersKept(p), Wrote(p), pc[p] = "commit"
    PROVE  HoldsTarget(q)' /\ HoldsPages(q)'
<1>1. /\ pc'[q] = pc[q] /\ req'[q] = req[q] /\ fresh'[q] = fresh[q]
      /\ want'[q] = want[q] /\ held'[q] = held[q]
  BY DEF OthersKept
<1>2. quote.updatedAt \in Nat /\ req[q].base \in Nat /\ req[q].target \in Nat
      /\ nextId \in Nat /\ req[q].base =< quote.updatedAt /\ req[q].target < nextId
  <2>1. quote \in QuoteRow /\ req[q] \in Requests /\ nextId \in Nat
    BY DEF Typed, Db, Tables
  <2> QED BY <2>1 DEF QuoteRow, Requests, Based, BasedOn, Targets
<1>3. HoldsTarget(q) /\ HoldsPages(q)
  BY DEF Holding
<1>4. CASE WroteSave(p)
  <2>1. quote'.updatedAt = quote.updatedAt + 1
    BY <1>4, PricedShape DEF WroteSave
  <2>2. HoldsPages(q)'
    <3>1. req'[q].base # quote'.updatedAt
      BY <1>1, <1>2, <2>1
    <3> QED BY <3>1 DEF HoldsPages
  <2>3. req[q].target \notin DOMAIN sheets'
    <3>1. DOMAIN sheets' = nextId..(nextId + Len(req[p].payload) - 1)
          /\ Len(req[p].payload) \in Nat
      BY <1>4, SavedRows DEF WroteSave
    <3> QED BY <1>2, <3>1
  <2> QED BY <1>1, <2>2, <2>3 DEF HoldsTarget
<1>5. CASE WrotePage(p)
  <2>1. DOMAIN sheets' = DOMAIN sheets /\ quote' = quote /\ req[p].target \in DOMAIN sheets
    BY <1>5 DEF WrotePage
  <2>2. ASSUME req[q].kind = "save", req[q].base = quote.updatedAt,
               pc[q] \in {"erase", "commit"}
        PROVE  FALSE
    <3>1. req[p].target \in held[q]
      BY <1>3, <2>1, <2>2 DEF HoldsPages
    <3>2. CASE req[p].kind = "decide"
      <4>1. req[p].target \in held[p]
        BY <2>1, <3>2 DEF Holding, HoldsTarget
      <4> QED BY <3>1, <4>1 DEF LocksExclusive
    <3>3. CASE req[p].kind # "decide"
      BY <1>5, <3>1, <3>3 DEF WrotePage, RowFree
    <3> QED BY <3>2, <3>3
  <2> QED BY <1>1, <1>3, <2>1, <2>2 DEF HoldsTarget, HoldsPages
<1>6. CASE WroteHead(p) \/ WroteStatus(p) \/ WroteDelete(p)
  <2>1. sheets' = sheets
    BY <1>6 DEF WroteHead, WroteStatus, WroteDelete
  <2>2. Stamps
    BY WroteStamps
  <2>3. HoldsPages(q)'
    <3>1. CASE quote'.updatedAt = quote.updatedAt + 1
      <4>1. req'[q].base # quote'.updatedAt
        BY <1>1, <1>2, <3>1
      <4> QED BY <4>1 DEF HoldsPages
    <3>2. CASE quote' = quote
      BY <1>1, <1>3, <2>1, <3>2 DEF HoldsPages
    <3> QED BY <2>2, <3>1, <3>2 DEF Stamps
  <2> QED BY <1>1, <1>3, <2>1, <2>3 DEF HoldsTarget
<1> QED BY <1>4, <1>5, <1>6 DEF Wrote

LEMMA OthersHolding ==
    ASSUME Typed, LocksExclusive, Based, Targets, Holding, NEW p \in Req,
           OthersKept(p), Does(p), HoldsTarget(p)', HoldsPages(p)'
    PROVE  Holding'
<1>1. ASSUME NEW q \in Req \ {p} PROVE HoldsTarget(q)' /\ HoldsPages(q)'
  <2>1. CASE UNCHANGED db
    <3>1. /\ pc'[q] = pc[q] /\ req'[q] = req[q] /\ fresh'[q] = fresh[q]
          /\ want'[q] = want[q] /\ held'[q] = held[q] /\ sheets' = sheets /\ quote' = quote
      BY <2>1 DEF OthersKept, db
    <3> QED BY <3>1 DEF Holding, HoldsTarget, HoldsPages
  <2>2. CASE Wrote(p) /\ pc[p] = "commit"
    BY <2>2, WroteHolding
  <2> QED BY <2>1, <2>2 DEF Does, Opened, Accepted, Advanced, ReadOn, Quit
<1> QED BY <1>1 DEF Holding
(* The request's own steps.                                                *)
LEMMA ArriveHolding ==
    ASSUME Typed, Informed, NEW p \in Req, Arrive(p) PROVE HoldsTarget(p)' /\ HoldsPages(p)'
<1>1. CASE Ended(p)
  BY <1>1 DEF Ended, NoRequest, HoldsTarget, HoldsPages
<1>2. CASE Opened(p)
  BY <1>2 DEF Opened, HoldsTarget, HoldsPages
<1>3. CASE Accepted(p)
  <2>1. pc[p] \in {"idle", "editing"} /\ fresh' = fresh /\ pc'[p] \in {"arrived", "commit"}
    BY <1>3 DEF Accepted
  <2>2. fresh'[p].vat = Keep
    BY <2>1 DEF Informed, InformedOn, NothingRead
  <2>3. Typed'
    BY <1>3, ArriveTyped
  <2>4. ~HasRead(p)'
    BY <2>2, <2>3, DataAssumption DEF Typed, Phases, PhaseOK
  <2>5. req'[p].kind \in {"save", "decide", "invoice"} => pc'[p] = "arrived"
    BY <1>3, <2>1, <2>4 DEF HasRead, Accepted
  <2> QED BY <2>5 DEF HoldsTarget, HoldsPages
<1> QED BY <1>1, <1>2, <1>3, ArriveShape

LEMMA LockHolding ==
    ASSUME Typed, Holding, NEW p \in Req, StartRows(p) \/ LockRow(p) \/ LockQuote(p)
    PROVE  HoldsTarget(p)' /\ HoldsPages(p)'
<1>1. sheets' = sheets /\ quote' = quote /\ req' = req /\ fresh' = fresh
  BY DEF StartRows, LockRow, LockQuote, db, local
<1>2. CASE StartRows(p)
  <2>1. pc'[p] = "rows" /\ want'[p] = DOMAIN sheets
    BY <1>2 DEF StartRows, Typed, Tables
  <2> QED BY <1>1, <2>1 DEF HoldsTarget, HoldsPages
<1>3. CASE LockQuote(p)
  <2>1. pc[p] = "quote" /\ pc'[p] = "read" /\ held' = held /\ req[p].kind = "save"
    BY <1>3 DEF LockQuote, Typed, Tables, Phases, PhaseOK
  <2> QED BY <1>1, <2>1 DEF Holding, HoldsTarget, HoldsPages
<1>4. CASE LockRow(p)
  <2> DEFINE rest == want[p] \cap DOMAIN sheets
             i == NextRow(p)
  <2>1. pc[p] = "rows" \/ (pc[p] = "erase" /\ req[p].kind = "save")
    BY <1>4 DEF LockRow, Typed, Phases, PhaseOK
  <2>2. CASE rest = {}
    <3>1. held' = held /\ pc'[p] = AfterRows(p)
      BY <1>4, <2>2 DEF LockRow, Typed, Tables
    <3> QED BY <1>1, <2>1, <2>2, <3>1 DEF AfterRows, Holding, HoldsTarget, HoldsPages
  <2>3. CASE rest # {}
    <3>1. /\ held'[p] = held[p] \cup {i} /\ want'[p] = rest \ {i}
          /\ pc'[p] = IF rest = {i} THEN AfterRows(p) ELSE pc[p]
      BY <1>4, <2>3 DEF LockRow, Typed, Tables
    <3> HIDE DEF i
    <3>2. \A x \in DOMAIN sheets : x \in want[p] \cup held[p] => x \in want'[p] \cup held'[p]
      BY <3>1
    <3>3. rest = {i} => want'[p] = {}
      BY <3>1
    <3>4. \A x \in held[p] : x \in held'[p]
      BY <3>1
    <3> HIDE DEF rest
    <3>5. HoldsTarget(p)'
      <4>1. CASE pc'[p] = pc[p]
        BY <1>1, <2>1, <3>2, <4>1 DEF Holding, HoldsTarget
      <4>2. CASE rest = {i} /\ pc'[p] = AfterRows(p)
        BY <1>1, <2>1, <3>2, <3>3, <4>2 DEF AfterRows, Holding, HoldsTarget
      <4> QED BY <3>1, <4>1, <4>2
    <3>6. HoldsPages(p)'
      <4>1. CASE pc'[p] = pc[p]
        BY <1>1, <2>1, <3>2, <3>4, <4>1 DEF Holding, HoldsPages
      <4>2. CASE rest = {i} /\ pc'[p] = AfterRows(p)
        BY <1>1, <2>1, <3>2, <3>3, <3>4, <4>2 DEF AfterRows, Holding, HoldsPages
      <4> QED BY <3>1, <4>1, <4>2
    <3> QED BY <3>5, <3>6
  <2> QED BY <2>2, <2>3
<1> QED BY <1>2, <1>3, <1>4

LEMMA ReadHolding ==
    ASSUME Typed, Holding, NEW p \in Req, ReadOn(p) PROVE HoldsTarget(p)' /\ HoldsPages(p)'
<1>1. /\ sheets' = sheets /\ quote' = quote /\ req' = req /\ held' = held
      /\ fresh'[p].sheets = sheets /\ pc[p] = "read" /\ pc'[p] \in {"commit", "erase"}
  BY DEF ReadOn, db
<1> QED BY <1>1 DEF Holding, HoldsTarget, HoldsPages

LEMMA NextHolding ==
    ASSUME Typed, LocksExclusive, Based, Informed, Targets, Holding, [Next]_vars PROVE Holding'
<1>1. CASE UNCHANGED vars
  BY <1>1 DEF vars, db, local, locks, Holding, HoldsTarget, HoldsPages
<1>2. ASSUME NEW p \in Req, Ended(p) PROVE HoldsTarget(p)' /\ HoldsPages(p)'
  BY <1>2 DEF Ended, NoRequest, HoldsTarget, HoldsPages
<1>3. ASSUME NEW p \in Req, Arrive(p) PROVE Holding'
  BY <1>3, ArriveHolding, ArriveShape, OthersHolding DEF Does, Quit
<1>4. ASSUME NEW p \in Req, StartRows(p) \/ LockRow(p) \/ LockQuote(p) PROVE Holding'
  BY <1>4, LockHolding, AdvanceShape, OthersHolding DEF Does
<1>5. ASSUME NEW p \in Req, Read(p) PROVE Holding'
  BY <1>2, <1>5, ReadHolding, ReadShape, OthersHolding DEF Does, Quit
<1>6. ASSUME NEW p \in Req, Commits(p) PROVE Holding'
  BY <1>2, <1>6, CommitShape, CommitWrites, OthersHolding DEF Does
<1>7. ASSUME NEW p \in Req, DeadlockAbort(p) \/ Fail(p) PROVE Holding'
  BY <1>2, <1>7, AbortsShape, OthersHolding DEF AbortShape, Does, Quit
<1> QED BY <1>1, <1>3, <1>4, <1>5, <1>6, <1>7, NextShape

(* Under its locks a request counts on rows that are really locked: the page*)
(* of a decision, and all pages of a save whose base is current.           *)
THEOREM HoldingInvariant == Spec => []Holding
BY TypedInvariant, LocksAreExclusive, BasedInvariant, InformedInvariant, TargetsInvariant,
   InitHolding, NextHolding, PTL DEF Spec

(***************************************************************************)
(* The state of a page survives a save.                                    *)
(***************************************************************************)
StateKept(id) ==
    LET now == {j \in DOMAIN sheets' : sheets'[j].page = sheets[id].page}
    IN /\ Cardinality(now) = 1
       /\ \A j \in now : StateOf(sheets'[j]) = StateOf(sheets[id])

(* The first place of a payload that names the row carries it.             *)
LEMMA CarriedFirst ==
    ASSUME NEW payload \in Payloads, NEW pages \in RowSets,
           NEW k \in DOMAIN payload, payload[k].id \in DOMAIN pages, payload[k].id # NewPage
    PROVE  \E first \in 1..Len(payload) : CarryFrom(payload, pages)[first] = payload[k].id
<1> DEFINE id == payload[k].id
           T == {j \in DOMAIN payload : payload[j].id = id}
<1>1. Len(payload) \in Nat /\ DOMAIN payload = 1..Len(payload)
  BY DEF Payloads
<1>2. T \subseteq Nat /\ T # {}
  BY <1>1
<1> HIDE DEF T
<1>3. PICK first \in T : \A j \in T : first =< j
  BY <1>2, SmallestNat
<1>4. first \in 1..Len(payload) /\ payload[first].id = id
  BY <1>1 DEF T
<1>5. \A j \in 1..(first - 1) : payload[j].id # id
  <2>1. SUFFICES ASSUME NEW j \in 1..(first - 1), payload[j].id = id PROVE FALSE
    OBVIOUS
  <2>2. j \in T
    BY <1>1, <1>4, <2>1 DEF T
  <2> QED BY <1>3, <1>4, <2>1, <2>2
<1>6. CarryById(payload, pages)[first] = id
  BY <1>1, <1>4, <1>5 DEF CarryById
<1>7. CarryFrom(payload, pages) = CarryById(payload, pages)
  BY DEF CarryFrom
<1> QED BY <1>4, <1>6, <1>7

LEMMA SaveKeepsState ==
    ASSUME Typed, PagesOnce, Holding, NEW p \in Req, pc[p] = "commit", WroteSave(p),
           req[p].base = quote.updatedAt, NEW k \in DOMAIN req[p].payload,
           req[p].payload[k].id \in DOMAIN sheets
    PROVE  StateKept(req[p].payload[k].id)
<1> DEFINE id == req[p].payload[k].id
           n == Len(req[p].payload)
           now == {j \in DOMAIN sheets' : sheets'[j].page = sheets[id].page}
<1>1. req[p].kind = "save" /\ sheets' = SaveSheets(p) /\ fresh[p].sheets = sheets
  BY DEF WroteSave, Holding, HoldsPages
<1>2. /\ req[p].payload \in Payloads /\ sheets \in RowSets /\ nextId \in Nat /\ n \in Nat
      /\ DOMAIN sheets' = nextId..(nextId + n - 1)
      /\ \A a \in 1..n : Carried(p, a) \in DOMAIN sheets \cup {NewPage}
  BY <1>1, SavedRows DEF Typed, Db, Phases, PhaseOK
<1>3. id # NewPage
  BY DEF Typed, Db, NewPage
<1>4. PICK first \in 1..n : Carried(p, first) = id
  BY <1>1, <1>2, <1>3, CarriedFirst DEF Carried
<1>5. ASSUME NEW a \in 1..n
      PROVE  LET row == sheets'[nextId + a - 1]
                 c == Carried(p, a)
             IN /\ c = NewPage => row.page = nextId + a - 1
                /\ c # NewPage => row.page = sheets[c].page /\ StateOf(row) = StateOf(sheets[c])
  <2> DEFINE c == Carried(p, a)
             row == SaveSheets(p)[nextId + a - 1]
  <2> PICK j : j = nextId + a - 1
    OBVIOUS
  <2>1. j \in DOMAIN SaveSheets(p) /\ From(p, j) = c
    <3>1. j \in nextId..(nextId + n - 1) /\ j - nextId + 1 = a
      BY <1>2
    <3> QED BY <1>1, <1>2, <3>1 DEF From
  <2> PICK old : old = fresh[p].sheets[c]
    OBVIOUS
  <2> HIDE DEF c, row
  <2>2. row = SaveSheets(p)[j]
    BY DEF row
  <2>3. c = NewPage => row.page = j
    BY <1>1, <2>1, <2>2, RowNew
  <2>4. c # NewPage => row.page = old.page /\ StateOf(row) = StateOf(old)
    BY <1>1, <2>1, <2>2, RowOld
  <2> QED BY <1>1, <2>3, <2>4 DEF c, row
<1> HIDE DEF id, n
<1>6. nextId + first - 1 \in DOMAIN sheets'
  BY <1>2
<1>7. nextId + first - 1 \in now
      /\ StateOf(sheets'[nextId + first - 1]) = StateOf(sheets[id])
  BY <1>3, <1>4, <1>5, <1>6
<1>8. ASSUME NEW j \in now PROVE j = nextId + first - 1
  <2> DEFINE a == j - nextId + 1
  <2>1. a \in 1..n /\ j = nextId + a - 1 /\ a >= 1 /\ a \in Nat
    <3>1. j \in nextId..(nextId + n - 1) /\ nextId \in Nat /\ n \in Nat
      BY <1>2
    <3> HIDE DEF n, now
    <3> QED BY <3>1
  <2> HIDE DEF a
  <2>2. sheets'[nextId + a - 1].page = sheets[id].page
    BY <2>1
  <2>3. id \in DOMAIN sheets /\ sheets[id].page < nextId
    BY DEF id, PagesOnce, OnceIn
  <2>4. Carried(p, a) # NewPage
    <3>1. SUFFICES ASSUME Carried(p, a) = NewPage PROVE FALSE
      OBVIOUS
    <3>2. sheets[id].page = nextId + a - 1
      BY <1>5, <2>1, <2>2, <3>1
    <3> QED BY <1>2, <2>1, <2>3, <3>2
  <2>5. sheets[Carried(p, a)].page = sheets[id].page /\ Carried(p, a) \in DOMAIN sheets
    BY <1>2, <1>5, <2>1, <2>2, <2>4
  <2>6. Carried(p, a) = id
    BY <2>3, <2>5 DEF PagesOnce, OnceIn
  <2>7. a = first
    BY <1>1, <1>2, <1>4, <2>1, <2>4, <2>6, CarryOnce DEF Carried, n
  <2> QED BY <2>1, <2>7
<1>9. now = {nextId + first - 1}
  BY <1>7, <1>8
<1>10. Cardinality(now) = 1
  BY <1>9, FS_Singleton
<1> QED BY <1>7, <1>9, <1>10 DEF StateKept, id

LEMMA HeadKeepsState ==
    ASSUME Typed, PagesOnce, NEW p \in Req, WroteHead(p), NEW id \in DOMAIN sheets
    PROVE  StateKept(id)
<1>1. sheets' = sheets
  BY DEF WroteHead
<1>2. {j \in DOMAIN sheets' : sheets'[j].page = sheets[id].page} = {id}
  BY <1>1 DEF PagesOnce, OnceIn
<1> QED BY <1>1, <1>2, FS_Singleton DEF StateKept

LEMMA NextState ==
    ASSUME Typed, Stamped, PagesOnce, Holding, [Next]_vars
    PROVE  \A p \in Req : Saves(p) =>
             \A k \in DOMAIN req[p].payload :
                req[p].payload[k].id \in DOMAIN sheets => StateKept(req[p].payload[k].id)
<1>1. SUFFICES ASSUME NEW p \in Req, Saves(p), NEW k \in DOMAIN req[p].payload,
                      req[p].payload[k].id \in DOMAIN sheets
               PROVE  StateKept(req[p].payload[k].id)
  OBVIOUS
<1>2. BaseHolds(p) /\ (WroteSave(p) \/ WroteHead(p)) /\ pc[p] = "commit"
  BY <1>1, SavedShape DEF Saves
<1>3. req[p].base = quote.updatedAt
  BY <1>1, <1>2 DEF BaseHolds, Stamped, Editing, Saves
<1>4. CASE WroteSave(p)
  BY <1>1, <1>2, <1>3, <1>4, SaveKeepsState
<1>5. CASE WroteHead(p)
  BY <1>1, <1>5, HeadKeepsState
<1> QED BY <1>2, <1>4, <1>5

(* A save deletes and recreates every row, yet the decision, the invoice   *)
(* number and the signature of each page its payload names are afterwards  *)
(* on exactly one row, as they were stored at the commit, however many     *)
(* other requests wrote them meanwhile - as long as editors send the base. *)
THEOREM SheetStateSurvives == ASSUME FALSE \notin Bases PROVE Spec => SheetStateSurvivesSave
<1>1. Typed /\ Stamped /\ PagesOnce /\ Holding /\ [Next]_vars =>
        [\A p \in Req : Saves(p) =>
          \A k \in DOMAIN req[p].payload :
             LET id == req[p].payload[k].id IN
             id \in DOMAIN sheets =>
                LET now == {j \in DOMAIN sheets' : sheets'[j].page = sheets[id].page}
                IN /\ Cardinality(now) = 1
                   /\ \A j \in now : StateOf(sheets'[j]) = StateOf(sheets[id])]_vars
  BY NextState DEF StateKept
<1> QED BY <1>1, TypedInvariant, StampedInvariant, PagesOnceInvariant, HoldingInvariant, PTL
        DEF Spec, SheetStateSurvivesSave

(***************************************************************************)
(* A customer's decision is refused when a page has an invoice number, and *)
(* from then to its commit it holds every page, unless they are replaced:  *)
(* nobody gives a page a number meanwhile.                                 *)
(***************************************************************************)
DecidesOn(p) ==
    req[p].kind = "decide" /\ req[p].target \in DOMAIN sheets =>
      /\ pc[p] = "rows" => DOMAIN sheets \subseteq want[p] \cup held[p]
      /\ pc[p] \in {"read", "commit"} => DOMAIN sheets \subseteq held[p]
      /\ pc[p] = "commit" => ~Invoiced(sheets)

Deciding == \A p \in Req : DecidesOn(p)

LEMMA InitDeciding == Init => Deciding
BY DEF Init, Deciding, DecidesOn, NoRequest

(* What another request writes gives no page a number behind a decision.   *)
LEMMA WroteDeciding ==
    ASSUME Typed, LocksExclusive, Targets, Deciding, NEW p \in Req, NEW q \in Req \ {p},
           OthersKept(p), Wrote(p), pc[p] = "commit"
    PROVE  DecidesOn(q)'
<1>1. /\ pc'[q] = pc[q] /\ req'[q] = req[q] /\ want'[q] = want[q] /\ held'[q] = held[q]
  BY DEF OthersKept
<1>2. DecidesOn(q)
  BY DEF Deciding
<1>3. CASE WroteSave(p)
  <2>1. DOMAIN sheets' = nextId..(nextId + Len(req[p].payload) - 1) /\ Len(req[p].payload) \in Nat
    BY <1>3, SavedRows DEF WroteSave
  <2>2. nextId \in Nat /\ req[q].target \in Nat /\ req[q].target < nextId
    <3>1. req[q] \in Requests /\ nextId \in Nat
      BY DEF Typed, Db, Tables
    <3> QED BY <3>1 DEF Requests, Targets
  <2>3. req[q].target \notin DOMAIN sheets'
    BY <2>1, <2>2
  <2> QED BY <1>1, <2>3 DEF DecidesOn
<1>4. CASE WrotePage(p)
  <2>1. DOMAIN sheets' = DOMAIN sheets /\ req[p].target \in DOMAIN sheets
    BY <1>4 DEF WrotePage
  <2>2. ASSUME req[q].kind = "decide", req[q].target \in DOMAIN sheets, pc[q] = "commit",
               NEW i \in DOMAIN sheets
        PROVE  sheets'[i].inv = sheets[i].inv
    <3>1. i \in held[q] /\ req[p].target \in held[q]
      BY <1>2, <2>1, <2>2 DEF DecidesOn
    <3>2. req[p].kind = "decide"
      BY <1>4, <3>1 DEF WrotePage, RowFree
    <3> QED BY <1>4, <3>2 DEF WrotePage
  <2> QED BY <1>1, <1>2, <2>1, <2>2 DEF DecidesOn, Invoiced
<1>5. CASE WroteHead(p) \/ WroteStatus(p) \/ WroteDelete(p)
  <2>1. sheets' = sheets
    BY <1>5 DEF WroteHead, WroteStatus, WroteDelete
  <2> QED BY <1>1, <1>2, <2>1 DEF DecidesOn
<1> QED BY <1>3, <1>4, <1>5 DEF Wrote

LEMMA OthersDeciding ==
    ASSUME Typed, LocksExclusive, Targets, Deciding, NEW p \in Req, OthersKept(p), Does(p),
           DecidesOn(p)'
    PROVE  Deciding'
<1>1. ASSUME NEW q \in Req \ {p} PROVE DecidesOn(q)'
  <2>1. CASE UNCHANGED db
    <3>1. /\ pc'[q] = pc[q] /\ req'[q] = req[q] /\ want'[q] = want[q] /\ held'[q] = held[q]
          /\ sheets' = sheets
      BY <2>1 DEF OthersKept, db
    <3> QED BY <3>1 DEF Deciding, DecidesOn
  <2>2. CASE Wrote(p) /\ pc[p] = "commit"
    BY <2>2, WroteDeciding
  <2> QED BY <2>1, <2>2 DEF Does, Opened, Accepted, Advanced, ReadOn, Quit
<1> QED BY <1>1 DEF Deciding

LEMMA LockDeciding ==
    ASSUME Typed, Deciding, NEW p \in Req, StartRows(p) \/ LockRow(p) \/ LockQuote(p)
    PROVE  DecidesOn(p)'
<1>1. sheets' = sheets /\ req' = req
  BY DEF StartRows, LockRow, LockQuote, db, local
<1>2. CASE StartRows(p)
  <2>1. pc'[p] = "rows" /\ want'[p] = DOMAIN sheets
    BY <1>2 DEF StartRows, Typed, Tables
  <2> QED BY <1>1, <2>1 DEF DecidesOn
<1>3. CASE LockQuote(p)
  <2>1. req[p].kind = "save"
    BY <1>3 DEF LockQuote, Typed, Phases, PhaseOK
  <2> QED BY <1>1, <2>1 DEF DecidesOn
<1>4. CASE LockRow(p)
  <2> DEFINE rest == want[p] \cap DOMAIN sheets
             i == NextRow(p)
  <2>1. pc[p] = "rows" \/ req[p].kind = "save"
    BY <1>4 DEF LockRow, Typed, Phases, PhaseOK
  <2>2. req[p].kind = "decide" /\ pc[p] = "rows" => AfterRows(p) = "read"
    BY DEF AfterRows
  <2>3. CASE rest = {}
    <3>1. held' = held /\ pc'[p] = AfterRows(p)
      BY <1>4, <2>3 DEF LockRow, Typed, Tables
    <3> QED BY <1>1, <2>1, <2>2, <2>3, <3>1 DEF Deciding, DecidesOn
  <2>4. CASE rest # {}
    <3>1. /\ held'[p] = held[p] \cup {i} /\ want'[p] = rest \ {i}
          /\ pc'[p] = IF rest = {i} THEN AfterRows(p) ELSE pc[p]
      BY <1>4, <2>4 DEF LockRow, Typed, Tables
    <3> HIDE DEF i
    <3>2. \A x \in DOMAIN sheets : x \in want[p] \cup held[p] => x \in want'[p] \cup held'[p]
      BY <3>1
    <3>3. rest = {i} => want'[p] = {}
      BY <3>1
    <3> HIDE DEF rest
    <3>4. CASE pc'[p] = pc[p]
      BY <1>1, <2>1, <3>2, <3>4 DEF Deciding, DecidesOn
    <3>5. CASE rest = {i} /\ pc'[p] = AfterRows(p)
      BY <1>1, <2>1, <2>2, <3>2, <3>3, <3>5 DEF Deciding, DecidesOn
    <3> QED BY <3>1, <3>4, <3>5
  <2> QED BY <2>3, <2>4
<1> QED BY <1>2, <1>3, <1>4

LEMMA ArriveDeciding ==
    ASSUME Typed, Informed, NEW p \in Req, Arrive(p) PROVE DecidesOn(p)'
<1>1. CASE Ended(p)
  BY <1>1 DEF Ended, NoRequest, DecidesOn
<1>2. CASE Opened(p)
  BY <1>2 DEF Opened, DecidesOn
<1>3. CASE Accepted(p)
  <2>1. pc[p] \in {"idle", "editing"} /\ fresh' = fresh /\ pc'[p] \in {"arrived", "commit"}
    BY <1>3 DEF Accepted
  <2>2. fresh'[p].vat = Keep
    BY <2>1 DEF Informed, InformedOn, NothingRead
  <2>3. Typed'
    BY <1>3, ArriveTyped
  <2>4. ~HasRead(p)'
    BY <2>2, <2>3, DataAssumption DEF Typed, Phases, PhaseOK
  <2>5. req'[p].kind = "decide" => pc'[p] = "arrived"
    BY <2>1, <2>4 DEF HasRead
  <2> QED BY <2>5 DEF DecidesOn
<1> QED BY <1>1, <1>2, <1>3, ArriveShape

LEMMA ReadDeciding ==
    ASSUME Typed, Deciding, NEW p \in Req, ReadOn(p) PROVE DecidesOn(p)'
<1>1. /\ sheets' = sheets /\ req' = req /\ held' = held /\ ~InvoiceStops(p)
      /\ pc[p] = "read" /\ pc'[p] \in {"commit", "erase"}
  BY DEF ReadOn, db
<1> QED BY <1>1 DEF Deciding, DecidesOn, InvoiceStops

LEMMA NextDeciding ==
    ASSUME Typed, LocksExclusive, Informed, Targets, Deciding, [Next]_vars PROVE Deciding'
<1>1. CASE UNCHANGED vars
  BY <1>1 DEF vars, db, local, locks, Deciding, DecidesOn
<1>2. ASSUME NEW p \in Req, Ended(p) PROVE DecidesOn(p)'
  BY <1>2 DEF Ended, NoRequest, DecidesOn
<1>3. ASSUME NEW p \in Req, Arrive(p) PROVE Deciding'
  BY <1>3, ArriveDeciding, ArriveShape, OthersDeciding DEF Does, Quit
<1>4. ASSUME NEW p \in Req, StartRows(p) \/ LockRow(p) \/ LockQuote(p) PROVE Deciding'
  BY <1>4, LockDeciding, AdvanceShape, OthersDeciding DEF Does
<1>5. ASSUME NEW p \in Req, Read(p) PROVE Deciding'
  BY <1>2, <1>5, ReadDeciding, ReadShape, OthersDeciding DEF Does, Quit
<1>6. ASSUME NEW p \in Req, Commits(p) PROVE Deciding'
  BY <1>2, <1>6, CommitShape, CommitWrites, OthersDeciding DEF Does
<1>7. ASSUME NEW p \in Req, DeadlockAbort(p) \/ Fail(p) PROVE Deciding'
  BY <1>2, <1>7, AbortsShape, OthersDeciding DEF AbortShape, Does, Quit
<1> QED BY <1>1, <1>3, <1>4, <1>5, <1>6, <1>7, NextShape

(* A decision about to commit has found no invoice number, and none has    *)
(* come since.                                                             *)
THEOREM DecidingInvariant == Spec => []Deciding
BY TypedInvariant, LocksAreExclusive, InformedInvariant, TargetsInvariant,
   InitDeciding, NextDeciding, PTL DEF Spec

(* A save with the current base finds the pages it read.                   *)
LEMMA SaveFinds ==
    ASSUME Stamped, Holding, NEW p \in Req, pc[p] = "commit", WroteSave(p)
    PROVE  fresh[p].sheets = sheets /\ sheets' = SaveSheets(p) /\ req[p].kind = "save"
BY DEF WroteSave, BaseHolds, Stamped, Editing, Holding, HoldsPages

(* The rows it makes are new pages, numbered above all before ...          *)
LEMMA SavedNew ==
    ASSUME Typed, Stamped, PagesOnce, Holding, NEW p \in Req, pc[p] = "commit", WroteSave(p),
           NEW j \in DOMAIN sheets', From(p, j) = NewPage
    PROVE  /\ sheets'[j].page = j /\ sheets'[j].inv = FALSE
           /\ \A i \in DOMAIN sheets : sheets[i].page # j
<1>1. req[p].kind = "save" /\ sheets' = SaveSheets(p)
  BY DEF WroteSave
<1>2. j \in DOMAIN SaveSheets(p)
  BY <1>1
<1>3. SaveSheets(p)[j].page = j /\ SaveSheets(p)[j].inv = FALSE
  BY <1>1, <1>2, RowNew
<1>4. ASSUME NEW i \in DOMAIN sheets PROVE sheets[i].page # j
  <2>1. sheets[i] \in Page /\ sheets[i].page < nextId
    BY DEF Typed, Db, RowSets, PagesOnce, OnceIn
  <2>2. sheets[i].page \in Nat
    BY <2>1 DEF Page
  <2>3. DOMAIN sheets' = nextId..(nextId + Len(req[p].payload) - 1) /\ nextId \in Nat
        /\ Len(req[p].payload) \in Nat
    BY <1>1, SavedRows DEF Typed, Db
  <2> QED BY <2>1, <2>2, <2>3
<1> QED BY <1>1, <1>3, <1>4

(* ... or stored pages, with the decision and the papers they have.        *)
LEMMA SavedOld ==
    ASSUME Typed, Stamped, PagesOnce, Holding, NEW p \in Req, pc[p] = "commit", WroteSave(p),
           NEW j \in DOMAIN sheets', NEW c, c = From(p, j), c # NewPage
    PROVE  /\ c \in DOMAIN sheets /\ sheets'[j].page = sheets[c].page
           /\ StateOf(sheets'[j]) = StateOf(sheets[c])
<1>1. fresh[p].sheets = sheets /\ sheets' = SaveSheets(p) /\ req[p].kind = "save"
  BY SaveFinds
<1>2. j \in DOMAIN SaveSheets(p)
  BY <1>1
<1>3. c \in DOMAIN sheets
  <2>1. c \in DOMAIN fresh[p].sheets \cup {NewPage}
    BY <1>1, <1>2, RowSource
  <2> QED BY <1>1, <2>1
<1> PICK row, was : row = SaveSheets(p)[j] /\ was = fresh[p].sheets[c]
  OBVIOUS
<1>4. row.page = was.page /\ StateOf(row) = StateOf(was)
  BY <1>1, <1>2, RowOld
<1> QED BY <1>1, <1>3, <1>4

(* So the row of a stored page comes from that page's row.                 *)
LEMMA SavedFrom ==
    ASSUME Typed, Stamped, PagesOnce, Holding, NEW p \in Req, pc[p] = "commit", WroteSave(p),
           NEW j \in DOMAIN sheets', NEW i \in DOMAIN sheets, sheets[i].page = sheets'[j].page
    PROVE  From(p, j) = i /\ i # NewPage
<1> PICK c : c = From(p, j)
  OBVIOUS
<1>1. i # NewPage
  BY DEF Typed, Db, NewPage
<1>2. c # NewPage
  <2>1. SUFFICES ASSUME From(p, j) = NewPage PROVE FALSE
    OBVIOUS
  <2>2. sheets'[j].page = j /\ \A a \in DOMAIN sheets : sheets[a].page # j
    BY <2>1, SavedNew
  <2> QED BY <2>2
<1>3. c \in DOMAIN sheets /\ sheets'[j].page = sheets[c].page
  BY <1>2, SavedOld
<1> QED BY <1>1, <1>3 DEF PagesOnce, OnceIn

LEMMA NextDecision ==
    ASSUME Typed, Stamped, PagesOnce, Holding, Deciding, [Next]_vars, Invoiced(sheets),
           NEW i \in DOMAIN sheets, NEW j \in DOMAIN sheets', sheets[i].page = sheets'[j].page
    PROVE  sheets'[j].cust = sheets[i].cust
<1>1. CASE sheets' = sheets
  BY <1>1 DEF PagesOnce, OnceIn
<1>2. ASSUME NEW p \in Req, Wrote(p), pc[p] = "commit" PROVE sheets'[j].cust = sheets[i].cust
  <2>1. CASE WroteSave(p)
    <3>1. From(p, j) = i /\ i # NewPage
      BY <1>2, <2>1, SavedFrom
    <3>2. StateOf(sheets'[j]) = StateOf(sheets[i])
      BY <1>2, <2>1, <3>1, SavedOld
    <3> QED BY <3>2 DEF StateOf
  <2>2. CASE WrotePage(p)
    <3>1. DOMAIN sheets' = DOMAIN sheets /\ sheets'[j].page = sheets[j].page
          /\ req[p].target \in DOMAIN sheets
      BY <2>2 DEF WrotePage
    <3>2. i = j
      BY <3>1 DEF PagesOnce, OnceIn
    <3>3. req[p].kind # "decide"
      BY <1>2, <3>1 DEF Deciding, DecidesOn
    <3> QED BY <2>2, <3>1, <3>2, <3>3 DEF WrotePage
  <2>3. CASE WroteHead(p) \/ WroteStatus(p) \/ WroteDelete(p)
    BY <1>1, <2>3 DEF WroteHead, WroteStatus, WroteDelete
  <2> QED BY <1>2, <2>1, <2>2, <2>3 DEF Wrote
<1> QED BY <1>1, <1>2, StepKinds DEF Does, Opened, Accepted, Advanced, ReadOn, Quit, db, vars

(* Once a page has an invoice number, no decision of the customer changes: *)
(* not by a request that was checked before the number came, nor by a save.*)
THEOREM DecisionsAreFrozen == ASSUME FALSE \notin Bases PROVE Spec => DecisionFrozenByInvoice
<1>1. Typed /\ Stamped /\ PagesOnce /\ Holding /\ Deciding /\ [Next]_vars =>
        [Invoiced(sheets) =>
          \A i \in DOMAIN sheets, j \in DOMAIN sheets' :
             sheets[i].page = sheets'[j].page => sheets'[j].cust = sheets[i].cust]_vars
  BY NextDecision
<1> QED BY <1>1, TypedInvariant, StampedInvariant, PagesOnceInvariant, HoldingInvariant,
           DecidingInvariant, PTL DEF Spec, DecisionFrozenByInvoice

(* What others wrote on a page stays on it through any save, and once there*)
(* is an invoice the customer's decision too.                              *)
THEOREM PageStateIsKept == ASSUME FALSE \notin Bases PROVE Spec => PageStateStays
BY SheetStateSurvives, DecisionsAreFrozen DEF PageStateStays

(***************************************************************************)
(* Production codes.  capSoMaSheet leaves a carried page its code; a new   *)
(* page gets one above the mark, each a different one.                     *)
(***************************************************************************)
Kept(carry) == {k \in DOMAIN carry : carry[k] # NewPage}
Mark(carry, pages, seq) == Max({seq} \cup {pages[carry[k]].code : k \in Kept(carry)})
NewBy(carry, k) == Cardinality(1..k \ Kept(carry))

LEMMA CodesForAre ==
    ASSUME NEW carry, NEW pages, NEW seq, NEW k \in DOMAIN carry
    PROVE  CodesFor(carry, pages, seq)[k] =
             IF carry[k] # NewPage THEN pages[carry[k]].code
             ELSE Mark(carry, pages, seq) + NewBy(carry, k)
BY DEF CodesFor, Mark, NewBy, Kept

LEMMA MarkAbove ==
    ASSUME NEW pages \in RowSets, NEW n \in Nat, NEW seq \in Nat,
           NEW carry \in [1..n -> DOMAIN pages \cup {NewPage}]
    PROVE  Mark(carry, pages, seq) \in Nat /\ Mark(carry, pages, seq) >= seq
<1> DEFINE kept == Kept(carry)
           codes == {pages[carry[k]].code : k \in kept}
           all == {seq} \cup codes
<1>1. kept \in SUBSET (1..n) /\ IsFiniteSet(kept)
  <2>1. kept \in SUBSET (1..n)
    BY DEF Kept
  <2>2. IsFiniteSet(1..n)
    BY FS_Interval
  <2> HIDE DEF kept
  <2> QED BY <2>1, <2>2, FS_Subset
<1>2. ASSUME NEW k \in kept PROVE pages[carry[k]].code \in Nat
  <2>1. carry[k] \in DOMAIN pages
    BY DEF Kept
  <2>2. pages \in [DOMAIN pages -> Page]
    BY DEF RowSets
  <2>3. pages[carry[k]] \in Page
    BY <2>1, <2>2
  <2> QED BY <2>3 DEF Page
<1>3. codes \in SUBSET Nat /\ IsFiniteSet(codes)
  <2> DEFINE f == [k \in kept |-> pages[carry[k]].code]
  <2>1. f \in [kept -> Nat] /\ codes = {f[k] : k \in kept}
    BY <1>2
  <2> HIDE DEF f
  <2>2. IsFiniteSet({f[k] : k \in kept})
    BY <2>1, <1>1, FiniteImage
  <2> QED BY <2>1, <2>2, <1>2
<1>4. all = codes \cup {seq}
  OBVIOUS
<1> HIDE DEF codes
<1>5. IsFiniteSet(all) /\ all \in SUBSET Nat /\ seq \in all
  BY <1>3, <1>4, FS_AddElement
<1> HIDE DEF all
<1>6. Max(all) \in Nat /\ Max(all) >= seq
  BY <1>5, MaxNat
<1> QED BY <1>6 DEF all, codes, Mark

LEMMA NewByGrows ==
    ASSUME NEW carry, NEW k \in Nat \ {0}, carry[k] = NewPage
    PROVE  /\ NewBy(carry, k) \in Nat /\ NewBy(carry, k) >= 1
           /\ \A i \in Nat : i < k => NewBy(carry, i) < NewBy(carry, k)
<1> DEFINE New(i) == 1..i \ Kept(carry)
<1>1. ASSUME NEW i \in Nat PROVE IsFiniteSet(New(i)) /\ Cardinality(New(i)) \in Nat
  <2>1. IsFiniteSet(1..i)
    BY FS_Interval
  <2> QED BY <2>1, FS_Subset, FS_CardinalityType
<1>2. ASSUME NEW i \in Nat, i < k PROVE Cardinality(New(i)) < Cardinality(New(k))
  <2>1. New(i) \in SUBSET New(k) /\ k \in New(k) /\ k \notin New(i)
    BY <1>2 DEF Kept
  <2> HIDE DEF New
  <2>2. New(i) # New(k)
    BY <2>1
  <2>3. /\ Cardinality(New(i)) <= Cardinality(New(k))
        /\ Cardinality(New(k)) = Cardinality(New(i)) => New(k) = New(i)
    BY <1>1, <2>1, FS_Subset
  <2> QED BY <1>1, <2>2, <2>3
<1>3. Cardinality(New(k)) >= 1
  <2>1. 0 \in Nat /\ k \in Nat /\ 0 < k
    OBVIOUS
  <2> HIDE DEF New
  <2>2. Cardinality(New(0)) < Cardinality(New(k))
    BY <1>2, <2>1
  <2>3. Cardinality(New(0)) \in Nat /\ Cardinality(New(k)) \in Nat
    BY <1>1, <2>1
  <2> QED BY <2>2, <2>3
<1> QED BY <1>1, <1>2, <1>3 DEF NewBy

(* The codes of the rows a save makes.                                     *)
LEMMA CodeKept ==
    ASSUME Typed, NEW p \in Req, pc[p] = "commit", req[p].kind = "save", ~MayRenumber(p),
           NEW j \in DOMAIN SaveSheets(p), From(p, j) # NewPage
    PROVE  SaveSheets(p)[j].code = fresh[p].sheets[From(p, j)].code
<1> PICK n, k, old, carry, seq : /\ n = Len(req[p].payload) /\ k = j - nextId + 1
                  /\ old = fresh[p].sheets /\ carry = CarryFrom(req[p].payload, old)
                  /\ seq = seen[p].seq
  OBVIOUS
<1>1. n \in Nat /\ nextId \in Nat /\ j \in nextId..(nextId + n - 1)
  BY SavedRows DEF Typed, Db
<1>2. k \in 1..n
  BY <1>1
<1>3. req[p].payload \in Payloads /\ old \in RowSets
  BY DEF Typed, Phases, PhaseOK, HasRead
<1>4. DOMAIN carry = 1..n
  BY <1>3, CarryType
<1>5. From(p, j) = carry[k] /\ CodeGiven(p, j) = CodesFor(carry, old, seq)[k]
  BY DEF From, Carried, CodeGiven, CodesGiven
<1>6. CodesFor(carry, old, seq)[k] = old[carry[k]].code
  BY <1>2, <1>4, <1>5, CodesForAre
<1>7. SaveSheets(p)[j].code = CodeGiven(p, j)
  BY RowCode
<1> QED BY <1>5, <1>6, <1>7

LEMMA CodeAbove ==
    ASSUME Typed, NEW p \in Req, pc[p] = "commit", req[p].kind = "save", ~MayRenumber(p),
           NEW j \in DOMAIN SaveSheets(p), From(p, j) = NewPage
    PROVE  /\ SaveSheets(p)[j].code \in Nat /\ SaveSheets(p)[j].code > seen[p].seq
           /\ \A i \in DOMAIN SaveSheets(p) : From(p, i) = NewPage /\ i < j =>
                 SaveSheets(p)[i].code < SaveSheets(p)[j].code
<1> PICK n, old, carry, seq : /\ n = Len(req[p].payload)
                  /\ old = fresh[p].sheets /\ carry = CarryFrom(req[p].payload, old)
                  /\ seq = seen[p].seq
  OBVIOUS
<1> DEFINE K(i) == i - nextId + 1
<1>1. n \in Nat /\ nextId \in Nat /\ DOMAIN SaveSheets(p) = nextId..(nextId + n - 1)
  BY SavedRows DEF Typed, Db
<1>2. req[p].payload \in Payloads /\ old \in RowSets /\ seq \in Nat
  BY DEF Typed, Phases, PhaseOK, HasRead, Tables, Sights
<1>3. carry \in [1..n -> DOMAIN old \cup {NewPage}]
  BY <1>2, CarryType
<1> PICK mark : mark = Mark(carry, old, seq)
  OBVIOUS
<1>4. mark \in Nat /\ mark >= seq
  BY <1>1, <1>2, <1>3, MarkAbove
<1>5. ASSUME NEW i \in DOMAIN SaveSheets(p), From(p, i) = NewPage
      PROVE  K(i) \in 1..n /\ carry[K(i)] = NewPage
             /\ SaveSheets(p)[i].code = mark + NewBy(carry, K(i))
  <2> PICK k : k = K(i)
    OBVIOUS
  <2>1. k \in 1..n
    BY <1>1
  <2>2. carry[k] = NewPage
    BY <1>5 DEF From, Carried
  <2>3. CodesFor(carry, old, seq)[k] = mark + NewBy(carry, k)
    BY <1>3, <2>1, <2>2, CodesForAre
  <2>4. CodeGiven(p, i) = CodesFor(carry, old, seq)[k]
    BY DEF CodeGiven, CodesGiven
  <2>5. SaveSheets(p)[i].code = CodeGiven(p, i)
    BY RowCode
  <2> QED BY <2>1, <2>2, <2>3, <2>4, <2>5
<1>6. ASSUME NEW i \in DOMAIN SaveSheets(p), From(p, i) = NewPage
      PROVE  NewBy(carry, K(i)) \in Nat /\ NewBy(carry, K(i)) >= 1
  <2> PICK k : k = K(i)
    OBVIOUS
  <2>1. k \in 1..n /\ carry[k] = NewPage
    BY <1>5, <1>6
  <2>2. k \in Nat \ {0} /\ carry[k] = NewPage
    BY <1>1, <2>1
  <2>3. NewBy(carry, k) \in Nat /\ NewBy(carry, k) >= 1
    BY <2>2, NewByGrows
  <2> QED BY <2>3
<1>7. ASSUME NEW i \in DOMAIN SaveSheets(p), From(p, i) = NewPage, i < j
      PROVE  NewBy(carry, K(i)) < NewBy(carry, K(j))
  <2> PICK k, l : k = K(j) /\ l = K(i)
    OBVIOUS
  <2>1. k \in Nat \ {0} /\ carry[k] = NewPage /\ l \in Nat
    <3>1. k \in 1..n /\ carry[k] = NewPage /\ l \in 1..n
      BY <1>5, <1>7
    <3> QED BY <1>1, <3>1
  <2>2. l < k
    BY <1>1, <1>7
  <2>3. NewBy(carry, l) < NewBy(carry, k)
    BY <2>1, <2>2, NewByGrows
  <2> QED BY <2>3
<1> HIDE DEF K
<1>8. SaveSheets(p)[j].code \in Nat /\ SaveSheets(p)[j].code > seen[p].seq
  BY <1>2, <1>4, <1>5, <1>6
<1>9. ASSUME NEW i \in DOMAIN SaveSheets(p), From(p, i) = NewPage, i < j
      PROVE  SaveSheets(p)[i].code < SaveSheets(p)[j].code
  <2>1. NewBy(carry, K(i)) < NewBy(carry, K(j))
    BY <1>7, <1>9
  <2>2. NewBy(carry, K(i)) \in Nat /\ NewBy(carry, K(j)) \in Nat
    BY <1>6, <1>9
  <2>3. SaveSheets(p)[i].code = mark + NewBy(carry, K(i))
    BY <1>5, <1>9
  <2>4. SaveSheets(p)[j].code = mark + NewBy(carry, K(j))
    BY <1>5
  <2> QED BY <1>4, <2>1, <2>2, <2>3, <2>4
<1> QED BY <1>8, <1>9

LEMMA CodeRenumbered ==
    ASSUME Typed, NEW p \in Req, pc[p] = "commit", req[p].kind = "save", MayRenumber(p),
           NEW j \in DOMAIN SaveSheets(p)
    PROVE  SaveSheets(p)[j].code = j - nextId + 1
<1> PICK n, k, old, carry : /\ n = Len(req[p].payload) /\ k = j - nextId + 1
                  /\ old = fresh[p].sheets /\ carry = CarryFrom(req[p].payload, old)
  OBVIOUS
<1>1. n \in Nat /\ nextId \in Nat /\ j \in nextId..(nextId + n - 1)
  BY SavedRows DEF Typed, Db
<1>2. k \in 1..n
  BY <1>1
<1>3. req[p].payload \in Payloads /\ old \in RowSets
  BY DEF Typed, Phases, PhaseOK, HasRead
<1>4. DOMAIN carry = 1..n
  BY <1>3, CarryType
<1>5. CodeGiven(p, j) = k
  BY <1>2, <1>4 DEF CodeGiven, CodesGiven
<1>6. SaveSheets(p)[j].code = CodeGiven(p, j)
  BY RowCode
<1> QED BY <1>5, <1>6

(***************************************************************************)
(* Every code in use has been given; the codes given since the last        *)
(* renumbering stay at or below the high-water mark, and name one page     *)
(* each.                                                                   *)
(***************************************************************************)
CodesKnown ==
    /\ CodesOf(sheets) \subseteq issued
    /\ issued \subseteq Nat \X Nat
    /\ \A a \in issued : a[1] =< quote.seq
    /\ CodeNeverReissued

LEMMA InitCodes == Init => CodesKnown
<1> SUFFICES ASSUME Init PROVE CodesKnown
  OBVIOUS
<1>1. /\ DOMAIN sheets = 1..InitPages /\ quote.seq = InitPages /\ issued = CodesOf(sheets)
      /\ \A i \in 1..InitPages : sheets[i].code = i /\ sheets[i].page = i
  BY DEF Init
<1>2. \A a \in issued : \E i \in 1..InitPages : a = <<i, i>>
  BY <1>1 DEF CodesOf
<1>3. issued \subseteq Nat \X Nat /\ \A a \in issued : a[1] =< quote.seq
  BY <1>1, <1>2
<1>4. CodeNeverReissued
  BY <1>2 DEF CodeNeverReissued
<1> QED BY <1>1, <1>3, <1>4 DEF CodesKnown

(* The codes of a save: one that was given already to the same page, or one*)
(* above all that were given - or, when it renumbers, their place.         *)
LEMMA SavedCode ==
    ASSUME Typed, Stamped, Holding, Informed, CodesKnown, NEW p \in Req, pc[p] = "commit",
           WroteSave(p), ~MayRenumber(p), NEW j \in DOMAIN SaveSheets(p)
    PROVE  \/ From(p, j) # NewPage /\ <<SaveSheets(p)[j].code, SaveSheets(p)[j].page>> \in issued
           \/ From(p, j) = NewPage /\ SaveSheets(p)[j].code > quote.seq
<1>1. req[p].kind = "save" /\ fresh[p].sheets = sheets
  BY SaveFinds
<1>2. CASE From(p, j) = NewPage
  <2>1. seen[p].seq = quote.seq
    BY <1>1 DEF WroteSave, BaseHolds, Stamped, Editing, Informed, InformedOn
  <2>2. SaveSheets(p)[j].code > seen[p].seq
    BY <1>1, <1>2, CodeAbove
  <2> QED BY <1>2, <2>1, <2>2
<1>3. CASE From(p, j) # NewPage
  <2> PICK c, row, was : c = From(p, j) /\ row = SaveSheets(p)[j] /\ was = sheets[c]
    OBVIOUS
  <2>1. c \in DOMAIN sheets
    BY <1>1, <1>3, RowSource
  <2>2. row.page = was.page
    BY <1>1, <1>3, RowOld
  <2>3. row.code = was.code
    BY <1>1, <1>3, CodeKept
  <2>4. <<was.code, was.page>> \in issued
    BY <2>1 DEF CodesKnown, CodesOf
  <2> QED BY <1>3, <2>2, <2>3, <2>4
<1> QED BY <1>2, <1>3

LEMMA TopIsTop ==
    ASSUME NEW pages \in RowSets
    PROVE  Top(pages) \in Nat /\ \A i \in DOMAIN pages : pages[i].code =< Top(pages)
<1> PICK f, codes : f = [i \in DOMAIN pages |-> pages[i].code] /\ codes = {f[i] : i \in DOMAIN pages}
  OBVIOUS
<1>1. pages \in [DOMAIN pages -> Page] /\ IsFiniteSet(DOMAIN pages) /\ DOMAIN pages # {}
  BY DEF RowSets
<1>2. f \in [DOMAIN pages -> Nat]
  BY <1>1 DEF Page
<1>3. codes \in SUBSET Nat /\ codes # {}
  BY <1>1, <1>2
<1>4. IsFiniteSet(codes)
  <2>1. IsFiniteSet({f[i] : i \in DOMAIN pages})
    BY <1>1, <1>2, FiniteImage
  <2> QED BY <2>1
<1>5. Max(codes) \in codes /\ \A y \in codes : Max(codes) >= y
  BY <1>3, <1>4, MaxNat
<1>6. Top(pages) = Max(codes)
  <2>1. codes = {pages[i].code : i \in DOMAIN pages}
    OBVIOUS
  <2> QED BY <2>1 DEF Top
<1>7. \A i \in DOMAIN pages : f[i] = pages[i].code /\ f[i] \in codes
  OBVIOUS
<1> QED BY <1>2, <1>3, <1>5, <1>6, <1>7

LEMMA SavedTop ==
    ASSUME Typed, NEW p \in Req, pc[p] = "commit", WroteSave(p), ~MayRenumber(p)
    PROVE  /\ quote'.seq \in Nat /\ quote'.seq >= seen[p].seq
           /\ \A j \in DOMAIN SaveSheets(p) : SaveSheets(p)[j].code =< quote'.seq
<1> PICK new, top, seq, two : /\ new = SaveSheets(p) /\ top = Top(new) /\ seq = seen[p].seq
                              /\ two = {seq} \cup {top}
  OBVIOUS
<1>1. req[p].kind = "save" /\ quote \in QuoteRow
  BY DEF WroteSave, Typed, Db
<1>2. quote'.seq = SeqAfter(p)
  BY <1>1, PricedShape DEF WroteSave
<1>3. new \in RowSets /\ seq \in Nat
  BY <1>1, SaveSheetsType DEF Typed, Tables, Sights
<1>4. top \in Nat /\ \A j \in DOMAIN new : new[j].code =< top
  BY <1>3, TopIsTop
<1>5. IsFiniteSet(two)
  <2> PICK one : one = {seq}
    OBVIOUS
  <2>1. IsFiniteSet(one)
    BY FS_Singleton
  <2>2. IsFiniteSet(one \cup {top})
    BY ONLY <2>1, FS_AddElement
  <2> QED BY <2>2
<1>6. Max(two) \in two /\ \A y \in two : Max(two) >= y
  BY <1>3, <1>4, <1>5, MaxNat
<1>7. {seq, top} = two
  OBVIOUS
<1>8. quote'.seq = Max(two)
  BY <1>2, <1>7 DEF SeqAfter
<1>9. quote'.seq \in Nat /\ quote'.seq >= seq /\ quote'.seq >= top
  BY <1>3, <1>4, <1>6, <1>8
<1>10. \A j \in DOMAIN new : new[j].code \in Nat
  <2>1. new \in [DOMAIN new -> Page]
    BY <1>3 DEF RowSets
  <2> QED BY <2>1 DEF Page
<1>11. ASSUME NEW j \in DOMAIN new PROVE new[j].code =< quote'.seq
  <2> PICK c, q : c = new[j].code /\ q = quote'.seq
    OBVIOUS
  <2>1. c \in Nat /\ c =< top /\ q \in Nat /\ q >= top
    BY <1>4, <1>9, <1>10
  <2>2. c =< q
    BY <1>4, <2>1
  <2> QED BY <2>2
<1> QED BY <1>9, <1>11

LEMMA WroteSaveCodes ==
    ASSUME Typed, Stamped, Holding, Informed, PagesOnce, CodesKnown, NEW p \in Req,
           pc[p] = "commit", WroteSave(p)
    PROVE  CodesKnown'
<1> PICK new, n : new = SaveSheets(p) /\ n = Len(req[p].payload)
  OBVIOUS
<1>1. /\ req[p].kind = "save" /\ sheets' = new
      /\ issued' = (IF MayRenumber(p) THEN {} ELSE issued) \cup CodesOf(new)
  BY DEF WroteSave
<1>2. n \in Nat /\ nextId \in Nat /\ DOMAIN new = nextId..(nextId + n - 1) /\ new \in RowSets
  BY <1>1, SavedRows, SaveSheetsType DEF Typed, Db
<1>3. \A j \in DOMAIN new : new[j].code \in Nat /\ new[j].page \in Nat
  <2>1. new \in [DOMAIN new -> Page]
    BY <1>2 DEF RowSets
  <2> QED BY <2>1 DEF Page
<1>4. \A a \in CodesOf(new) : \E j \in DOMAIN new : a = <<new[j].code, new[j].page>>
  BY DEF CodesOf
<1>5. CodesOf(new) \subseteq Nat \X Nat
  BY <1>3, <1>4
<1>6. issued' \subseteq Nat \X Nat /\ CodesOf(sheets') \subseteq issued'
  BY <1>1, <1>5 DEF CodesKnown
<1>7. CASE MayRenumber(p)
  <2>1. \A j \in DOMAIN new : new[j].code = j - nextId + 1
    BY <1>1, <1>7, CodeRenumbered
  <2>2. quote'.seq = n
    <3>1. quote'.seq = SeqAfter(p)
      BY <1>1, PricedShape DEF WroteSave, Typed, Db
    <3> QED BY <1>7, <3>1 DEF SeqAfter
  <2>3. ASSUME NEW a \in issued' PROVE a[1] =< quote'.seq
    <3>1. PICK j \in DOMAIN new : a = <<new[j].code, new[j].page>>
      BY <1>1, <1>4, <1>7
    <3>2. a[1] = j - nextId + 1 /\ j \in nextId..(nextId + n - 1)
      BY <1>2, <2>1, <3>1
    <3> QED BY <1>2, <2>2, <3>2
  <2>4. ASSUME NEW a \in issued', NEW b \in issued', a[1] = b[1] PROVE a[2] = b[2]
    <3>1. PICK i \in DOMAIN new : a = <<new[i].code, new[i].page>>
      BY <1>1, <1>4, <1>7
    <3>2. PICK j \in DOMAIN new : b = <<new[j].code, new[j].page>>
      BY <1>1, <1>4, <1>7
    <3>3. i - nextId + 1 = j - nextId + 1
      BY <2>1, <2>4, <3>1, <3>2
    <3>4. i = j
      BY <1>2, <3>3
    <3> QED BY <3>1, <3>2, <3>4
  <2> QED BY <1>6, <2>3, <2>4 DEF CodesKnown, CodeNeverReissued
<1>8. CASE ~MayRenumber(p)
  <2> DEFINE Made(j) == From(p, j) = NewPage
  <2>1. \A j \in DOMAIN new :
           \/ ~Made(j) /\ <<new[j].code, new[j].page>> \in issued
           \/ Made(j) /\ new[j].code > quote.seq
    BY <1>8, SavedCode
  <2>2. \A i, j \in DOMAIN new : Made(i) /\ Made(j) /\ i < j => new[i].code < new[j].code
    BY <1>1, <1>8, CodeAbove
  <2>3. seen[p].seq = quote.seq /\ quote.seq \in Nat
    BY <1>1 DEF WroteSave, BaseHolds, Stamped, Editing, Informed, InformedOn, Typed, Db, QuoteRow
  <2>4. quote'.seq \in Nat /\ quote'.seq >= quote.seq /\ \A j \in DOMAIN new : new[j].code =< quote'.seq
    BY <1>8, <2>3, SavedTop
  <2> HIDE DEF Made
  <2>5. ASSUME NEW a \in issued'
        PROVE  a \in issued \/ \E j \in DOMAIN new : /\ a = <<new[j].code, new[j].page>>
                                                     /\ Made(j) /\ new[j].code > quote.seq
    <3>1. a \in issued \/ a \in CodesOf(new)
      BY <1>1, <1>8
    <3>2. CASE a \in CodesOf(new)
      BY <1>4, <2>1, <3>2
    <3> QED BY <3>1, <3>2
  <2>6. ASSUME NEW a \in issued PROVE a[1] \in Nat /\ a[1] =< quote.seq
    BY DEF CodesKnown
  <2>7. ASSUME NEW a \in issued' PROVE a[1] =< quote'.seq
    <3>1. CASE a \in issued
      BY <2>3, <2>4, <2>6, <3>1
    <3>2. CASE a \notin issued
      <4>1. PICK j \in DOMAIN new : a = <<new[j].code, new[j].page>>
        BY <2>5, <3>2
      <4> QED BY <2>4, <4>1
    <3> QED BY <3>1, <3>2
  <2>8. ASSUME NEW a \in issued', NEW b \in issued', a[1] = b[1] PROVE a[2] = b[2]
    <3>1. CASE a \in issued /\ b \in issued
      BY <2>8, <3>1 DEF CodesKnown, CodeNeverReissued
    <3>2. CASE a \in issued /\ b \notin issued
      <4>1. PICK j \in DOMAIN new : b = <<new[j].code, new[j].page>> /\ new[j].code > quote.seq
        BY <2>5, <3>2
      <4>2. b[1] > quote.seq /\ b[1] \in Nat
        BY <1>3, <4>1
      <4> QED BY <2>3, <2>6, <2>8, <3>2, <4>2
    <3>3. CASE a \notin issued /\ b \in issued
      <4>1. PICK j \in DOMAIN new : a = <<new[j].code, new[j].page>> /\ new[j].code > quote.seq
        BY <2>5, <3>3
      <4>2. a[1] > quote.seq /\ a[1] \in Nat
        BY <1>3, <4>1
      <4> QED BY <2>3, <2>6, <2>8, <3>3, <4>2
    <3>4. CASE a \notin issued /\ b \notin issued
      <4>1. PICK i \in DOMAIN new : a = <<new[i].code, new[i].page>> /\ Made(i)
        BY <2>5, <3>4
      <4>2. PICK j \in DOMAIN new : b = <<new[j].code, new[j].page>> /\ Made(j)
        BY <2>5, <3>4
      <4>3. new[i].code = new[j].code
        BY <2>8, <4>1, <4>2
      <4>4. ~(i < j) /\ ~(j < i)
        BY <1>3, <2>2, <4>1, <4>2, <4>3
      <4>5. i = j
        BY <1>2, <4>4
      <4> QED BY <4>1, <4>2, <4>5
    <3> QED BY <3>1, <3>2, <3>3, <3>4
  <2> QED BY <1>6, <2>7, <2>8 DEF CodesKnown, CodeNeverReissued
<1> QED BY <1>7, <1>8

LEMMA NextCodes ==
    ASSUME Typed, Stamped, Holding, Informed, PagesOnce, CodesKnown, [Next]_vars
    PROVE  CodesKnown'
<1>1. CASE issued' = issued /\ CodesOf(sheets)' = CodesOf(sheets) /\ quote'.seq = quote.seq
  BY <1>1 DEF CodesKnown, CodeNeverReissued
<1>2. CASE UNCHANGED db
  BY <1>1, <1>2 DEF db, CodesOf
<1>3. ASSUME NEW p \in Req, Wrote(p), pc[p] = "commit" PROVE CodesKnown'
  <2>1. CASE WroteSave(p)
    BY <1>3, <2>1, WroteSaveCodes
  <2>2. CASE WrotePage(p)
    <3>1. CodesOf(sheets') = CodesOf(sheets)
      BY <2>2 DEF WrotePage, CodesOf
    <3> QED BY <1>1, <2>2, <3>1 DEF WrotePage
  <2>3. CASE WroteHead(p)
    <3>1. quote \in QuoteRow
      BY DEF Typed, Db
    <3>2. quote'.seq = quote.seq
      BY <2>3, <3>1, PricedShape DEF WroteHead, QuoteRow
    <3> QED BY <1>1, <2>3, <3>2 DEF WroteHead
  <2>4. CASE WroteStatus(p) \/ WroteDelete(p)
    <3>1. quote \in QuoteRow
      BY DEF Typed, Db
    <3>2. quote'.seq = quote.seq
      BY <2>4, <3>1 DEF WroteStatus, WroteDelete, QuoteRow
    <3> QED BY <1>1, <2>4, <3>2 DEF WroteStatus, WroteDelete
  <2> QED BY <1>3, <2>1, <2>2, <2>3, <2>4 DEF Wrote
<1> QED BY <1>2, <1>3, StepKinds DEF Does, Opened, Accepted, Advanced, ReadOn, Quit, vars

(* The codes in use, and all given since a renumbering, name one page each,*)
(* as long as editors send the base: the mark a save read is the stored.   *)
THEOREM CodesKnownInvariant == ASSUME FALSE \notin Bases PROVE Spec => []CodesKnown
BY TypedInvariant, StampedInvariant, HoldingInvariant, InformedInvariant, PagesOnceInvariant,
   InitCodes, NextCodes, PTL DEF Spec

LEMMA NextInvoicedCode ==
    ASSUME Typed, Stamped, PagesOnce, Holding, [Next]_vars,
           NEW i \in DOMAIN sheets, NEW j \in DOMAIN sheets', sheets[i].page = sheets'[j].page,
           sheets[i].inv
    PROVE  sheets'[j].code = sheets[i].code
<1>1. CASE sheets' = sheets
  BY <1>1 DEF PagesOnce, OnceIn
<1>2. ASSUME NEW p \in Req, Wrote(p), pc[p] = "commit" PROVE sheets'[j].code = sheets[i].code
  <2>1. CASE WroteSave(p)
    <3>1. fresh[p].sheets = sheets /\ sheets' = SaveSheets(p) /\ req[p].kind = "save"
      BY <1>2, <2>1, SaveFinds
    <3>2. ~MayRenumber(p)
      BY <3>1 DEF MayRenumber, Invoiced
    <3>3. From(p, j) = i /\ i # NewPage
      BY <1>2, <2>1, SavedFrom
    <3>4. j \in DOMAIN SaveSheets(p)
      BY <3>1
    <3>5. SaveSheets(p)[j].code = fresh[p].sheets[From(p, j)].code
      BY <1>2, <3>1, <3>2, <3>3, <3>4, CodeKept
    <3> QED BY <3>1, <3>3, <3>5
  <2>2. CASE WrotePage(p)
    <3>1. DOMAIN sheets' = DOMAIN sheets /\ sheets'[j].page = sheets[j].page
      BY <2>2 DEF WrotePage
    <3>2. i = j
      BY <3>1 DEF PagesOnce, OnceIn
    <3> QED BY <2>2, <3>2 DEF WrotePage
  <2>3. CASE WroteHead(p) \/ WroteStatus(p) \/ WroteDelete(p)
    BY <1>1, <2>3 DEF WroteHead, WroteStatus, WroteDelete
  <2> QED BY <1>2, <2>1, <2>2, <2>3 DEF Wrote
<1> QED BY <1>1, <1>2, StepKinds DEF Does, Opened, Accepted, Advanced, ReadOn, Quit, db, vars

(* No production code is given to a second page, whatever saves append,    *)
(* copy, drop or reorder, and none changes once there is an invoice: a     *)
(* renumbering is refused then.                                            *)
THEOREM CodesAreKept == ASSUME FALSE \notin Bases PROVE Spec => CodesStand
<1>1. Typed /\ Stamped /\ PagesOnce /\ Holding /\ [Next]_vars =>
        [\A i \in DOMAIN sheets, j \in DOMAIN sheets' :
            sheets[i].page = sheets'[j].page /\ sheets[i].inv =>
              sheets'[j].code = sheets[i].code]_vars
  BY NextInvoicedCode
<1>2. CodesKnown => CodeNeverReissued
  BY DEF CodesKnown
<1> QED BY <1>1, <1>2, TypedInvariant, StampedInvariant, PagesOnceInvariant, HoldingInvariant,
           CodesKnownInvariant, PTL DEF Spec, CodesStand, InvoicedCodeFrozen

(***************************************************************************)
(* A payload without ids, matched by position.                             *)
(***************************************************************************)
LEMMA InOrderInterval ==
    ASSUME NEW first \in Nat, NEW n \in Nat, NEW k \in 1..n
    PROVE  InOrder(first..(first + n - 1))[k] = first + k - 1
<1> PICK last, S : last = first + n - 1 /\ S = first..last
  OBVIOUS
<1>1. first \in Int /\ last \in Int /\ last - first + 1 = n /\ first =< last
  OBVIOUS
<1>2. S \in SUBSET Nat /\ IsFiniteSet(S) /\ Cardinality(S) = n
  BY <1>1, FS_Interval
<1> PICK x : x = NthSmallest(S, k)
  OBVIOUS
<1> PICK T : T = {y \in S : y =< x}
  OBVIOUS
<1>3. k \in 1..Cardinality(S)
  BY <1>2
<1>4. x \in S /\ Cardinality(T) = k
  <2>1. NthSmallest(S, k) \in S
    BY <1>2, <1>3, NthSmallestIn
  <2>2. Cardinality({y \in S : y =< NthSmallest(S, k)}) = k
    BY <1>2, <1>3, NthSmallestIn
  <2>3. T = {y \in S : y =< NthSmallest(S, k)}
    OBVIOUS
  <2> QED BY <2>1, <2>2, <2>3
<1>5. x \in Int /\ x >= first /\ T = first..x
  <2>1. x \in first..last
    BY <1>4
  <2>2. x \in Int /\ first =< x /\ x =< last
    BY <1>1, <2>1
  <2>3. ASSUME NEW y PROVE y \in T <=> y \in first..x
    BY <1>1, <2>2
  <2> QED BY <2>2, <2>3
<1>6. Cardinality(first..x) = x - first + 1
  BY <1>1, <1>5, FS_Interval
<1>7. x - first + 1 = k
  BY <1>4, <1>5, <1>6
<1>8. InOrder(S)[k] = x
  BY <1>3 DEF InOrder
<1> QED BY <1>5, <1>7, <1>8

LEMMA SavedByPosition ==
    ASSUME Typed, Stamped, Holding, NEW p \in Req, pc[p] = "commit", WroteSave(p),
           \A k \in DOMAIN req[p].payload : req[p].payload[k].id = NewPage,
           Len(req[p].payload) = Cardinality(DOMAIN sheets),
           NEW k \in DOMAIN req[p].payload
    PROVE  StateOf(sheets[InOrder(DOMAIN sheets)[k]]) = StateOf(sheets'[InOrder(DOMAIN sheets')[k]])
<1> PICK n, j, c : n = Len(req[p].payload) /\ j = nextId + k - 1 /\ c = InOrder(DOMAIN sheets)[k]
  OBVIOUS
<1>1. fresh[p].sheets = sheets /\ sheets' = SaveSheets(p) /\ req[p].kind = "save"
  BY SaveFinds
<1>2. /\ n \in Nat /\ nextId \in Nat /\ k \in 1..n
      /\ DOMAIN sheets' = nextId..(nextId + n - 1)
  BY <1>1, SavedRows DEF Typed, Db
<1>3. InOrder(DOMAIN sheets')[k] = j
  <2> PICK first, D : first = nextId /\ D = DOMAIN sheets'
    OBVIOUS
  <2>1. first \in Nat /\ D = first..(first + n - 1)
    BY <1>2
  <2>2. InOrder(first..(first + n - 1))[k] = first + k - 1
    BY <1>2, <2>1, InOrderInterval
  <2>3. InOrder(D)[k] = first + k - 1
    BY <2>1, <2>2
  <2> QED BY <2>3
<1>4. CarryFrom(req[p].payload, sheets) = InOrder(DOMAIN sheets)
  <2> PICK payload, pages : payload = req[p].payload /\ pages = sheets
    OBVIOUS
  <2>1. ~\E a \in DOMAIN payload : payload[a].id # NewPage
    OBVIOUS
  <2>2. Len(payload) = Cardinality(DOMAIN pages)
    OBVIOUS
  <2>3. CarryFrom(payload, pages) = InOrder(DOMAIN pages)
    BY ONLY <2>1, <2>2 DEF CarryFrom
  <2> QED BY <2>3
<1>5. j - nextId + 1 = k /\ j \in DOMAIN SaveSheets(p)
  BY <1>1, <1>2
<1>6. From(p, j) = c
  BY <1>1, <1>4, <1>5 DEF From, Carried
<1>7. c \in DOMAIN sheets /\ c # NewPage
  <2>1. sheets \in RowSets /\ DOMAIN sheets \subseteq 1..(nextId - 1)
    BY DEF Typed, Db
  <2>2. DOMAIN sheets \in SUBSET Nat /\ IsFiniteSet(DOMAIN sheets)
    BY <2>1 DEF RowSets
  <2>3. InOrder(DOMAIN sheets) \in [1..Cardinality(DOMAIN sheets) -> DOMAIN sheets]
    BY <2>2, InOrderType
  <2>4. c \in DOMAIN sheets
    BY <1>2, <2>3
  <2> QED BY <1>2, <2>1, <2>4 DEF NewPage
<1> PICK row, was : row = SaveSheets(p)[j] /\ was = fresh[p].sheets[c]
  OBVIOUS
<1>8. StateOf(row) = StateOf(was)
  BY <1>1, <1>5, <1>6, <1>7, RowOld
<1> QED BY <1>1, <1>3, <1>8

(* A payload without ids, of an editor that never loaded them, keeps every *)
(* page's decision, invoice number and signature in its place, as long as  *)
(* the editor sends the base.                                              *)
THEOREM PositionKeepsState == ASSUME FALSE \notin Bases PROVE Spec => PositionalSaveKeepsState
<1>1. ASSUME Typed, Stamped, Holding, [Next]_vars, NEW p \in Req,
             Saves(p), req[p].kind = "save",
             \A k \in DOMAIN req[p].payload : req[p].payload[k].id = NewPage,
             Len(req[p].payload) = Cardinality(DOMAIN sheets)
      PROVE  [k \in DOMAIN req[p].payload |-> StateOf(sheets[InOrder(DOMAIN sheets)[k]])]
             = [k \in DOMAIN req[p].payload |-> StateOf(sheets'[InOrder(DOMAIN sheets')[k]])]
  <2>1. WroteSave(p) /\ pc[p] = "commit"
    BY <1>1, SavedShape DEF WroteHead, Saves
  <2>2. \A k \in DOMAIN req[p].payload :
           StateOf(sheets[InOrder(DOMAIN sheets)[k]]) = StateOf(sheets'[InOrder(DOMAIN sheets')[k]])
    BY <1>1, <2>1, SavedByPosition
  <2> QED BY <2>2
<1>2. Typed /\ Stamped /\ Holding /\ [Next]_vars =>
        [\A p \in Req :
           /\ Saves(p) /\ req[p].kind = "save"
           /\ \A k \in DOMAIN req[p].payload : req[p].payload[k].id = NewPage
           /\ Len(req[p].payload) = Cardinality(DOMAIN sheets)
           => [k \in DOMAIN req[p].payload |-> StateOf(sheets[InOrder(DOMAIN sheets)[k]])]
              = [k \in DOMAIN req[p].payload |-> StateOf(sheets'[InOrder(DOMAIN sheets')[k]])]]_vars
  BY <1>1
<1> QED BY <1>2, TypedInvariant, StampedInvariant, HoldingInvariant, PTL
        DEF Spec, PositionalSaveKeepsState

(***************************************************************************)
(* The order of the locks.  Until a save replaces the rows, every request  *)
(* takes them in id order before the Quote row: what it holds is a first   *)
(* part of the list, and a save has nothing left to lock when it erases.   *)
(***************************************************************************)
Replaced == nextId # InitPages + 1

OrderedOn(p) ==
    /\ held[p] \subseteq DOMAIN sheets
    /\ \A x \in held[p], y \in DOMAIN sheets : y < x => y \in held[p]
    /\ pc[p] = "rows" => want[p] = DOMAIN sheets \ held[p]
    /\ pc[p] \in {"quote", "read"} \/ quoteLock = p => held[p] = DOMAIN sheets
    /\ pc[p] # "erase"

Ordered == nextId >= InitPages + 1 /\ (~Replaced => \A p \in Req : OrderedOn(p))

LEMMA InitOrdered == Init => Ordered
BY DEF Init, Ordered, OrderedOn

(* Rows are replaced for good; other writes leave the ids.                 *)
LEMMA RowsStay ==
    ASSUME Typed, Ordered, NEW p \in Req, Does(p)
    PROVE  /\ nextId' >= InitPages + 1 /\ (Replaced => Replaced')
           /\ ~Replaced' => DOMAIN sheets' = DOMAIN sheets
<1>1. nextId \in Nat /\ nextId >= InitPages + 1 /\ InitPages \in Nat
  BY DEF Typed, Db, Ordered
<1>2. CASE UNCHANGED db
  BY <1>1, <1>2 DEF db, Replaced
<1>3. CASE WroteSave(p) /\ pc[p] = "commit"
  <2>1. req[p].kind = "save"
    BY <1>3 DEF WroteSave
  <2>2. req[p].payload \in Payloads
    BY <2>1 DEF Typed, Phases, PhaseOK
  <2>3. Len(req[p].payload) \in Nat \ {0}
    BY <2>2 DEF Payloads
  <2>4. nextId' = nextId + Len(req[p].payload)
    BY <1>3 DEF WroteSave
  <2> QED BY <1>1, <2>3, <2>4 DEF Replaced
<1>4. CASE WroteHead(p) \/ WrotePage(p) \/ WroteStatus(p) \/ WroteDelete(p)
  BY <1>1, <1>4 DEF WroteHead, WrotePage, WroteStatus, WroteDelete, Replaced
<1> QED BY <1>2, <1>3, <1>4 DEF Does, Wrote, Opened, Accepted, Advanced, ReadOn, Quit

LEMMA OthersOrdered ==
    ASSUME Typed, Ordered, NEW p \in Req, OthersKept(p), Does(p),
           quoteLock' \in {quoteLock, p, NoReq},
           ~Replaced /\ ~Replaced' => OrderedOn(p)'
    PROVE  Ordered'
<1>1. /\ nextId' >= InitPages + 1 /\ (Replaced => Replaced')
      /\ ~Replaced' => DOMAIN sheets' = DOMAIN sheets
  BY RowsStay
<1>2. ASSUME ~Replaced', NEW q \in Req \ {p} PROVE OrderedOn(q)'
  <2>1. pc'[q] = pc[q] /\ held'[q] = held[q] /\ want'[q] = want[q]
    BY DEF OthersKept
  <2>2. DOMAIN sheets' = DOMAIN sheets /\ OrderedOn(q)
    BY <1>1, <1>2 DEF Ordered
  <2>3. quoteLock' = q => quoteLock = q
    OBVIOUS
  <2> QED BY <2>1, <2>2, <2>3 DEF OrderedOn
<1> QED BY <1>1, <1>2 DEF Ordered

LEMMA LockOrdered ==
    ASSUME Typed, LocksExclusive, NEW p \in Req, OrderedOn(p),
           StartRows(p) \/ LockRow(p) \/ LockQuote(p)
    PROVE  OrderedOn(p)'
<1>1. sheets' = sheets /\ req' = req
  BY DEF StartRows, LockRow, LockQuote, db, local
<1>2. sheets \in RowSets
  BY DEF Typed, Db
<1>3. DOMAIN sheets \in SUBSET Nat
  BY <1>2 DEF RowSets
<1>4. CASE StartRows(p)
  <2>1. pc'[p] = "rows" /\ want'[p] = DOMAIN sheets /\ held' = held /\ quoteLock' = quoteLock
    BY <1>4 DEF StartRows, Typed, Tables
  <2>2. held[p] = {} /\ quoteLock # p
    BY <1>4 DEF StartRows, LocksExclusive, InTx
  <2> QED BY <1>1, <2>1, <2>2 DEF OrderedOn
<1>5. CASE LockQuote(p)
  <2>1. pc'[p] = "read" /\ held' = held /\ pc[p] = "quote"
    BY <1>5 DEF LockQuote, Typed, Tables
  <2> QED BY <1>1, <2>1 DEF OrderedOn
<1>6. CASE LockRow(p)
  <2> DEFINE rest == want[p] \cap DOMAIN sheets
             i == NextRow(p)
  <2>1. pc[p] = "rows" /\ rest = DOMAIN sheets \ held[p] /\ quoteLock' = quoteLock
    BY <1>6 DEF LockRow, OrderedOn
  <2>2. AfterRows(p) \in {"quote", "read", "commit"}
    BY <2>1 DEF AfterRows
  <2>3. CASE rest = {}
    <3>1. held' = held /\ pc'[p] = AfterRows(p)
      BY <1>6, <2>3 DEF LockRow, Typed, Tables
    <3>2. held[p] = DOMAIN sheets
      BY <2>1, <2>3 DEF OrderedOn
    <3> QED BY <1>1, <2>1, <2>2, <3>1, <3>2 DEF OrderedOn
  <2>4. CASE rest # {}
    <3>1. /\ held'[p] = held[p] \cup {i} /\ want'[p] = rest \ {i}
          /\ pc'[p] = IF rest = {i} THEN AfterRows(p) ELSE pc[p]
      BY <1>6, <2>4 DEF LockRow, Typed, Tables
    <3>2. i \in rest /\ \A y \in rest : i =< y
      <4>1. Min(rest) \in rest /\ \A y \in rest : Min(rest) =< y
        <5>1. rest \in SUBSET Nat
          BY <1>3
        <5> HIDE DEF rest
        <5> QED BY <2>4, <5>1, MinNat
      <4> QED BY <4>1 DEF NextRow
    <3> HIDE DEF i
    <3>3. held'[p] \subseteq DOMAIN sheets /\ i \in DOMAIN sheets
      BY <3>1, <3>2 DEF OrderedOn
    <3>4. ASSUME NEW x \in held'[p], NEW y \in DOMAIN sheets, y < x PROVE y \in held'[p]
      <4>1. CASE x \in held[p]
        BY <3>1, <3>4, <4>1 DEF OrderedOn
      <4>2. CASE x = i
        <5>1. y \notin rest
          BY <1>3, <3>2, <3>3, <3>4, <4>2
        <5> QED BY <2>1, <3>1, <5>1
      <4> QED BY <3>1, <4>1, <4>2
    <3>5. want'[p] = DOMAIN sheets \ held'[p]
      BY <2>1, <3>1
    <3>6. CASE rest = {i}
      <4>1. held'[p] = DOMAIN sheets /\ pc'[p] = AfterRows(p)
        BY <2>1, <3>1, <3>3, <3>6
      <4> QED BY <1>1, <2>2, <4>1 DEF OrderedOn
    <3>7. CASE rest # {i}
      <4>1. pc'[p] = "rows"
        BY <2>1, <3>1, <3>7
      <4>2. quoteLock # p
        <5>1. held[p] # DOMAIN sheets
          BY <2>1, <2>4
        <5> QED BY <5>1 DEF OrderedOn
      <4> QED BY <1>1, <2>1, <3>3, <3>4, <3>5, <4>1, <4>2 DEF OrderedOn
    <3> QED BY <3>6, <3>7
  <2> QED BY <2>3, <2>4
<1> QED BY <1>4, <1>5, <1>6

LEMMA EndedOrdered ==
    ASSUME Typed, NEW p \in Req, Ended(p) PROVE OrderedOn(p)' /\ quoteLock' \in {quoteLock, NoReq}
BY DEF Ended, OrderedOn, Final

LEMMA NextOrdered ==
    ASSUME Typed, LocksExclusive, Ordered, [Next]_vars PROVE Ordered'
<1>1. CASE UNCHANGED vars
  BY <1>1 DEF vars, db, locks, Ordered, OrderedOn, Replaced
<1>2. ASSUME NEW p \in Req, OthersKept(p), Does(p), Ended(p) PROVE Ordered'
  BY <1>2, EndedOrdered, OthersOrdered
<1>3. ASSUME NEW p \in Req, Arrive(p) PROVE Ordered'
  <2>1. OthersKept(p) /\ Does(p) /\ pc[p] \in {"idle", "editing"}
    BY <1>3, ArriveShape DEF Does, Quit
  <2>2. CASE Opened(p) \/ Accepted(p)
    <3>1. /\ held' = held /\ want' = want /\ quoteLock' = quoteLock /\ sheets' = sheets
          /\ pc'[p] \in {"editing", "arrived", "commit"} /\ nextId' = nextId
      BY <2>2 DEF Opened, Accepted, locks, db
    <3>2. held[p] = {} /\ quoteLock # p
      BY <2>1 DEF LocksExclusive, InTx
    <3>3. OrderedOn(p)'
      BY <3>1, <3>2 DEF OrderedOn
    <3> QED BY <2>1, <3>1, <3>3, OthersOrdered
  <2> QED BY <1>2, <1>3, <2>1, <2>2, ArriveShape
<1>4. ASSUME NEW p \in Req, StartRows(p) \/ LockRow(p) \/ LockQuote(p) PROVE Ordered'
  <2>1. OthersKept(p) /\ Does(p)
    BY <1>4, AdvanceShape DEF Does
  <2>2. quoteLock' \in {quoteLock, p}
    BY <1>4 DEF StartRows, LockRow, LockQuote
  <2>3. ~Replaced => OrderedOn(p)'
    BY <1>4, LockOrdered DEF Ordered
  <2> QED BY <2>1, <2>2, <2>3, OthersOrdered
<1>5. ASSUME NEW p \in Req, Read(p) PROVE Ordered'
  <2>1. OthersKept(p) /\ Does(p)
    BY <1>5, ReadShape DEF Does, Quit
  <2>2. CASE ReadOn(p)
    <3>1. quoteLock' = quoteLock /\ held' = held /\ sheets' = sheets /\ pc[p] = "read"
      BY <2>2 DEF ReadOn, db
    <3>2. ASSUME ~Replaced PROVE OrderedOn(p)'
      <4>1. OrderedOn(p) /\ held[p] = DOMAIN sheets
        BY <3>1, <3>2 DEF Ordered, OrderedOn
      <4>2. DOMAIN sheets \ held[p] = {}
        BY <4>1
      <4>3. pc'[p] = "commit"
        BY <1>5, <2>2, <4>2 DEF Read, ReadOn, Typed, Tables
      <4> QED BY <3>1, <4>1, <4>3 DEF OrderedOn
    <3> QED BY <2>1, <3>1, <3>2, OthersOrdered
  <2> QED BY <1>2, <1>5, <2>1, <2>2, ReadShape
<1>6. ASSUME NEW p \in Req, Commits(p) PROVE Ordered'
  <2>1. OthersKept(p) /\ Does(p) /\ Ended(p)
    BY <1>6, CommitShape, CommitWrites DEF Does, Quit
  <2> QED BY <1>2, <2>1
<1>7. ASSUME NEW p \in Req, DeadlockAbort(p) \/ Fail(p) PROVE Ordered'
  <2>1. OthersKept(p) /\ Does(p) /\ Ended(p)
    BY <1>7, AbortsShape DEF AbortShape, Does, Quit
  <2> QED BY <1>2, <2>1
<1> QED BY <1>1, <1>3, <1>4, <1>5, <1>6, <1>7, NextShape

LEMMA OrderedInvariant == Spec => []Ordered
BY TypedInvariant, LocksAreExclusive, InitOrdered, NextOrdered, PTL DEF Spec

(* The save that replaced them is over.                                    *)
SaveIsOver == Replaced => \E p \in Req : pc[p] \in Final

LEMMA NextSaveIsOver == Typed /\ Ordered /\ SaveIsOver /\ [Next]_vars => SaveIsOver'
<1> SUFFICES ASSUME Typed, Ordered, SaveIsOver, [Next]_vars PROVE SaveIsOver'
  OBVIOUS
<1>1. CASE UNCHANGED vars
  BY <1>1 DEF vars, db, SaveIsOver, Replaced
<1>2. ASSUME NEW p \in Req, OthersKept(p), Does(p) PROVE SaveIsOver'
  <2>1. CASE Ended(p)
    BY <2>1 DEF Ended, SaveIsOver
  <2>2. CASE UNCHANGED db /\ pc[p] \notin Final
    <3>1. Replaced' = Replaced
      BY <2>2 DEF db, Replaced
    <3> QED BY <1>2, <2>2, <3>1 DEF SaveIsOver, OthersKept
  <2> QED BY <1>2, <2>1, <2>2 DEF Does, Opened, Accepted, Advanced, ReadOn, Quit, InTx, Final
<1> QED BY <1>1, <1>2, StepKinds

LEMMA SaveIsOverInvariant == Spec => []SaveIsOver
<1>1. Init => SaveIsOver
  BY DEF Init, SaveIsOver, Replaced
<1> QED BY <1>1, NextSaveIsOver, TypedInvariant, OrderedInvariant, PTL DEF Spec

(***************************************************************************)
(* Sums.  SumFunction adds what one element gives to the sum over the      *)
(* others; which one, its definition leaves open.  Induction on the size   *)
(* of the set, by its least counterexample: the recursion has a solution,  *)
(* and a sum of numbers is a number.                                       *)
(***************************************************************************)
FirstOf(s) == CHOOSE x \in s : TRUE
Added(f, g, s) == IF s = {} THEN 0 ELSE f[FirstOf(s)] + g[s \ {FirstOf(s)}]
Adds(f, D, g) == g = [s \in SUBSET D |-> Added(f, g, s)]
SumsOf(f, D) == CHOOSE g : Adds(f, D, g)

LEMMA SumIs == ASSUME NEW f, NEW D PROVE SumFunctionOnSet(f, D) = SumsOf(f, D)[D]
BY DEF SumFunctionOnSet, FoldFunctionOnSet, MapThenFoldSet, SumsOf, Adds, Added, FirstOf

Upto(D, n) == {s \in SUBSET D : Cardinality(s) =< n}
AddsUpto(f, D, g, n) == g = [s \in Upto(D, n) |-> Added(f, g, s)]

LEMMA FirstIn == ASSUME NEW s, s # {} PROVE FirstOf(s) \in s
BY DEF FirstOf

LEMMA OneLess ==
    ASSUME NEW D, IsFiniteSet(D), NEW s \in SUBSET D
    PROVE  /\ Cardinality(s) \in Nat
           /\ s # {} => /\ s \ {FirstOf(s)} \in SUBSET D
                        /\ Cardinality(s \ {FirstOf(s)}) = Cardinality(s) - 1
                        /\ Cardinality(s) >= 1
           /\ s = {} => Cardinality(s) = 0
<1>1. IsFiniteSet(s)
  BY FS_Subset
<1>2. Cardinality(s) \in Nat /\ (Cardinality(s) = 0 <=> s = {})
  BY <1>1, FS_CardinalityType, FS_EmptySet
<1>3. s # {} => FirstOf(s) \in s
  BY FirstIn
<1>4. s # {} => Cardinality(s \ {FirstOf(s)}) = Cardinality(s) - 1
  BY <1>1, <1>3, FS_RemoveElement
<1> QED BY <1>2, <1>4

LEMMA UptoIs ==
    ASSUME NEW D, IsFiniteSet(D)
    PROVE  /\ \A s \in Upto(D, 0) : s = {}
           /\ \A m \in Nat \ {0} : Upto(D, m - 1) \subseteq Upto(D, m)
           /\ \A m \in Nat \ {0} : \A s \in Upto(D, m) :
                s # {} => s \ {FirstOf(s)} \in Upto(D, m - 1)
<1>1. ASSUME NEW s \in SUBSET D
      PROVE  /\ Cardinality(s) \in Nat
             /\ s # {} => /\ s \ {FirstOf(s)} \in SUBSET D
                          /\ Cardinality(s \ {FirstOf(s)}) = Cardinality(s) - 1
                          /\ Cardinality(s) >= 1
  BY OneLess
<1>2. ASSUME NEW s \in Upto(D, 0) PROVE s = {}
  <2>1. s \in SUBSET D /\ Cardinality(s) =< 0
    BY DEF Upto
  <2>2. Cardinality(s) \in Nat /\ (s # {} => Cardinality(s) >= 1)
    BY <1>1, <2>1, Zenon
  <2> QED BY <2>1, <2>2
<1>3. ASSUME NEW m \in Nat \ {0}, NEW s \in Upto(D, m - 1) PROVE s \in Upto(D, m)
  <2>1. s \in SUBSET D /\ Cardinality(s) =< m - 1
    BY DEF Upto
  <2>2. Cardinality(s) \in Nat
    BY <1>1, <2>1, Zenon
  <2>3. Cardinality(s) =< m
    BY <2>1, <2>2
  <2> QED BY <2>1, <2>3 DEF Upto
<1>4. ASSUME NEW m \in Nat \ {0}, NEW s \in Upto(D, m), s # {}
      PROVE  s \ {FirstOf(s)} \in Upto(D, m - 1)
  <2>1. s \in SUBSET D /\ Cardinality(s) =< m
    BY DEF Upto
  <2> PICK r : r = s \ {FirstOf(s)}
    OBVIOUS
  <2>2. r \in SUBSET D /\ Cardinality(r) = Cardinality(s) - 1 /\ Cardinality(s) \in Nat
    BY <1>1, <1>4, <2>1
  <2>3. Cardinality(r) =< m - 1
    BY <2>1, <2>2
  <2> QED BY <2>2, <2>3 DEF Upto
<1> QED BY <1>2, <1>3, <1>4

LEMMA SumsExist ==
    ASSUME NEW f, NEW D, IsFiniteSet(D) PROVE \E g : Adds(f, D, g)
<1> DEFINE Bad == {n \in Nat : ~\E g : AddsUpto(f, D, g, n)}
<1>1. Bad = {}
  <2> SUFFICES ASSUME Bad # {} PROVE FALSE
    OBVIOUS
  <2>1. PICK m \in Bad : \A n \in Bad : m =< n
    BY SmallestNat, Bad \subseteq Nat, Bad # {}
  <2>2. m \in Nat /\ ~\E g : AddsUpto(f, D, g, m)
    BY <2>1
  <2>3. CASE m = 0
    <3> DEFINE g == [s \in Upto(D, 0) |-> 0]
    <3>1. \A s \in Upto(D, 0) : s = {}
      BY UptoIs
    <3>2. PICK z : z = g
      OBVIOUS
    <3>3. \A s \in Upto(D, 0) : Added(f, z, s) = 0
      BY <3>1 DEF Added
    <3>4. z = [s \in Upto(D, 0) |-> Added(f, z, s)]
      BY <3>2, <3>3
    <3>5. AddsUpto(f, D, z, 0)
      BY <3>4 DEF AddsUpto
    <3> QED BY <2>2, <2>3, <3>5
  <2>4. CASE m # 0
    <3>1. m - 1 \in Nat /\ m - 1 \notin Bad
      BY <2>1, <2>2, <2>4
    <3>2. PICK h : AddsUpto(f, D, h, m - 1)
      BY <3>1
    <3> DEFINE g == [s \in Upto(D, m) |-> Added(f, h, s)]
    <3>3. ASSUME NEW s \in Upto(D, m - 1) PROVE g[s] = h[s]
      <4>1. s \in Upto(D, m)
        BY <2>2, <2>4, UptoIs
      <4>2. g[s] = Added(f, h, s)
        BY <4>1
      <4>3. h[s] = Added(f, h, s)
        BY <3>2 DEF AddsUpto
      <4> QED BY <4>2, <4>3
    <3>4. ASSUME NEW s \in Upto(D, m) PROVE Added(f, g, s) = Added(f, h, s)
      <4>1. s # {} => s \ {FirstOf(s)} \in Upto(D, m - 1)
        BY <2>2, <2>4, UptoIs
      <4>2. s # {} => g[s \ {FirstOf(s)}] = h[s \ {FirstOf(s)}]
        <5> HIDE DEF g
        <5> QED BY <3>3, <4>1
      <4> HIDE DEF g
      <4> QED BY <4>2 DEF Added
    <3>5. g = [s \in Upto(D, m) |-> Added(f, g, s)]
      <4> PICK G : G = g
        OBVIOUS
      <4>1. \A s \in Upto(D, m) : Added(f, G, s) = Added(f, h, s)
        BY <3>4
      <4>2. G = [s \in Upto(D, m) |-> Added(f, G, s)]
        BY <4>1
      <4> QED BY <4>2
    <3> QED BY <2>2, <3>5 DEF AddsUpto
  <2> QED BY <2>3, <2>4
<1>2. Cardinality(D) \in Nat
  BY FS_CardinalityType
<1>3. PICK g : AddsUpto(f, D, g, Cardinality(D))
  BY <1>1, <1>2
<1>4. Upto(D, Cardinality(D)) = SUBSET D
  BY FS_Subset DEF Upto
<1> QED BY <1>3, <1>4 DEF Adds, AddsUpto

LEMMA SumsAdd ==
    ASSUME NEW f, NEW D, IsFiniteSet(D), NEW s \in SUBSET D
    PROVE  SumsOf(f, D)[s] = Added(f, SumsOf(f, D), s)
<1>1. Adds(f, D, SumsOf(f, D))
  BY SumsExist DEF SumsOf
<1> QED BY <1>1 DEF Adds

LEMMA SumNat ==
    ASSUME NEW D, IsFiniteSet(D), NEW f \in [D -> Nat]
    PROVE  SumFunction(f) \in Nat
<1> PICK g : g = SumsOf(f, D)
  OBVIOUS
<1> DEFINE Bad == {n \in Nat : \E s \in SUBSET D : Cardinality(s) = n /\ g[s] \notin Nat}
<1>1. Bad = {}
  <2> SUFFICES ASSUME Bad # {} PROVE FALSE
    OBVIOUS
  <2>1. PICK m \in Bad : \A n \in Bad : m =< n
    BY SmallestNat, Bad \subseteq Nat, Bad # {}
  <2>2. PICK s \in SUBSET D : Cardinality(s) = m /\ g[s] \notin Nat
    BY <2>1
  <2>3. g[s] = Added(f, g, s)
    BY SumsAdd
  <2>4. s # {}
    BY <2>2, <2>3 DEF Added
  <2> PICK r : r = s \ {FirstOf(s)}
    OBVIOUS
  <2>5. r \in SUBSET D /\ Cardinality(r) = m - 1 /\ m >= 1 /\ FirstOf(s) \in D
    BY <2>2, <2>4, OneLess, FirstIn
  <2>6. g[r] \in Nat
    <3>1. m - 1 \notin Bad /\ m - 1 \in Nat
      BY <2>1, <2>5
    <3> QED BY <2>5, <3>1
  <2>7. g[s] = f[FirstOf(s)] + g[r]
    BY <2>3, <2>4 DEF Added
  <2>8. f[FirstOf(s)] \in Nat
    BY <2>5
  <2> QED BY <2>2, <2>6, <2>7, <2>8
<1>2. Cardinality(D) \in Nat /\ Cardinality(D) \notin Bad
  BY <1>1, FS_CardinalityType
<1>3. g[D] \in Nat
  BY <1>2
<1>4. SumFunction(f) = g[D]
  BY SumIs DEF SumFunction
<1> QED BY <1>3, <1>4

LEMMA RevenueNat ==
    ASSUME NEW pages \in RowSets, NEW vat \in Vats
    PROVE  ConvertedTotalOf(pages, vat) \in Nat
<1> DEFINE kept == {i \in DOMAIN pages : pages[i].cust # "rejected"}
           prices == [i \in kept |-> pages[i].price]
<1>1. pages \in [DOMAIN pages -> Page] /\ IsFiniteSet(DOMAIN pages)
  BY DEF RowSets
<1>2. IsFiniteSet(kept)
  BY <1>1, FS_Subset
<1>3. prices \in [kept -> Nat]
  BY <1>1 DEF Page
<1>4. SumFunction(prices) \in Nat
  <2> HIDE DEF prices, kept
  <2> QED BY <1>2, <1>3, SumNat
<1>5. ConvertedTotalOf(pages, vat) = SumFunction(prices) * (100 + vat)
  BY DEF ConvertedTotalOf, TotalOf, PriceList, RestrictValues, Restrict
<1>6. vat \in Nat
  OBVIOUS
<1> HIDE DEF prices
<1> QED BY <1>4, <1>5, <1>6

(***************************************************************************)
(* The recorded revenue.  It is made from the pages read under the locks   *)
(* by a close, a decision, a save or a change of VAT; every other step     *)
(* leaves what it is made from.                                            *)
(***************************************************************************)
SamePages(a, b) ==
    /\ DOMAIN a = DOMAIN b
    /\ \A i \in DOMAIN b : a[i].price = b[i].price /\ a[i].cust = b[i].cust

LEMMA RevenueOfSame ==
    ASSUME NEW a, NEW b, SamePages(a, b), NEW vat
    PROVE  ConvertedTotalOf(a, vat) = ConvertedTotalOf(b, vat)
<1>1. {i \in DOMAIN a : a[i].cust # "rejected"} = {i \in DOMAIN b : b[i].cust # "rejected"}
  BY DEF SamePages
<1>2. PriceList(RestrictValues(a, LAMBDA s : s.cust # "rejected"))
        = PriceList(RestrictValues(b, LAMBDA s : s.cust # "rejected"))
  BY <1>1 DEF SamePages, PriceList, RestrictValues, Restrict
<1> QED BY <1>2 DEF ConvertedTotalOf, TotalOf

Untouched ==
    /\ quote'.vat = quote.vat
    /\ quote'.status = "converted" <=> quote.status = "converted"
    /\ convertedTotal' = convertedTotal
    /\ SamePages(sheets', sheets)

Reprices(p) ==
    /\ quote'.vat = VatStored(p) /\ quote'.status = Reopened(p)
    /\ \/ sheets' = SaveSheets(p) /\ convertedTotal' = RevenueAfter(p, sheets')
       \/ sheets' = sheets /\ convertedTotal' = RevenueAfter(p, fresh[p].sheets)

Decides(p) ==
    /\ quote' = quote
    /\ convertedTotal' = IF fresh[p].status = "converted" /\ fresh[p].won
                         THEN ConvertedTotalOf(sheets', fresh[p].vat)
                         ELSE convertedTotal

Closes(p) ==
    /\ quote.status \notin Terminal /\ quote'.status = "converted"
    /\ quote'.vat = quote.vat /\ sheets' = sheets
    /\ convertedTotal' = ConvertedTotalOf(fresh[p].sheets, fresh[p].vat)

Records(p) ==
    /\ pc[p] = "commit" /\ HasRead(p)
    /\ \/ req[p].kind \in {"save", "head"} /\ Reprices(p)
       \/ req[p].kind = "decide" /\ Decides(p)
       \/ req[p].kind = "convert" /\ Closes(p)

LEMMA DbUntouched == ASSUME UNCHANGED db PROVE Untouched
BY DEF db, Untouched, SamePages

LEMMA CommitRevenue ==
    ASSUME Typed, NEW p \in Req, Commits(p) PROVE Untouched \/ Records(p)
<1>1. quote \in QuoteRow /\ sheets \in [DOMAIN sheets -> Page]
  BY DEF Typed, Db, RowSets
<1>2. CASE RollBack(p, "refused") \/ RollBack(p, "failed")
  BY <1>2, DbUntouched DEF RollBack
<1>3. CASE ~(RollBack(p, "refused") \/ RollBack(p, "failed"))
  <2>1. CASE CommitSave(p)
    <3>1. pc[p] = "commit" /\ req[p].kind = "save" /\ sheets' = SaveSheets(p)
      BY <1>3, <2>1 DEF CommitSave
    <3>2. \E seq : WritePriced(p, SaveSheets(p), seq)
      BY <1>3, <2>1 DEF CommitSave
    <3>3. PICK seq : WritePriced(p, SaveSheets(p), seq)
      BY <3>2
    <3>4. quote'.vat = VatStored(p) /\ quote'.status = Reopened(p)
          /\ convertedTotal' = RevenueAfter(p, SaveSheets(p))
      BY <3>3, PricedShape DEF WritePriced
    <3> QED BY <3>1, <3>4 DEF Records, Reprices, HasRead
  <2>2. CASE CommitHead(p) /\ req[p].vat = Keep
    <3>1. quote' = [quote EXCEPT !.updatedAt = @ + 1] /\ UNCHANGED <<convertedTotal, sheets>>
      BY <1>3, <2>2 DEF CommitHead
    <3> QED BY <1>1, <3>1 DEF Untouched, SamePages, QuoteRow
  <2>3. CASE CommitHead(p) /\ req[p].vat # Keep
    <3>1. /\ pc[p] = "commit" /\ req[p].kind = "head" /\ sheets' = sheets
          /\ WritePriced(p, fresh[p].sheets, quote.seq)
      BY <1>3, <2>3 DEF CommitHead
    <3>2. quote'.vat = VatStored(p) /\ quote'.status = Reopened(p)
          /\ convertedTotal' = RevenueAfter(p, fresh[p].sheets)
      BY <3>1, PricedShape DEF WritePriced
    <3> QED BY <2>3, <3>1, <3>2 DEF Records, Reprices, HasRead
  <2>4. CASE CommitDecide(p)
    <3>1. pc[p] = "commit" /\ req[p].kind = "decide" /\ Decides(p)
      BY <1>3, <2>4 DEF CommitDecide, Decides
    <3> QED BY <3>1 DEF Records, HasRead
  <2>5. CASE CommitInvoice(p) \/ CommitSign(p)
    <3>1. UNCHANGED <<quote, convertedTotal>> /\ req[p].target \in DOMAIN sheets
          /\ req[p].kind \in {"invoice", "sign"}
      BY <1>3, <2>5 DEF CommitInvoice, CommitSign, WritePage
    <3>2. \/ sheets' = [sheets EXCEPT ![req[p].target].inv = (req[p].value = "set")]
          \/ sheets' = [sheets EXCEPT ![req[p].target].signed = (req[p].value = "set")]
      BY <1>3, <2>5 DEF CommitInvoice, CommitSign, WritePage
    <3>3. SamePages(sheets', sheets)
      BY <1>1, <3>1, <3>2 DEF SamePages, Page
    <3> QED BY <3>1, <3>3 DEF Untouched
  <2>6. CASE CommitConvert(p)
    <3>1. /\ pc[p] = "commit" /\ req[p].kind = "convert" /\ quote.status \notin Terminal
          /\ quote' = [quote EXCEPT !.updatedAt = @ + 1, !.status = "converted"]
          /\ convertedTotal' = ConvertedTotalOf(fresh[p].sheets, fresh[p].vat)
          /\ sheets' = sheets
      BY <1>3, <2>6 DEF CommitConvert, WriteStatus, NotTerminal
    <3>2. quote'.status = "converted" /\ quote'.vat = quote.vat
      BY <1>1, <3>1 DEF QuoteRow
    <3> QED BY <3>1, <3>2 DEF Records, Closes, HasRead
  <2>7. CASE CommitLost(p)
    <3>1. /\ quote.status \notin Terminal /\ UNCHANGED <<convertedTotal, sheets>>
          /\ quote' = [quote EXCEPT !.updatedAt = @ + 1, !.status = "lost"]
      BY <1>3, <2>7 DEF CommitLost, WriteStatus, NotTerminal
    <3>2. quote'.status = "lost" /\ quote'.vat = quote.vat
      BY <1>1, <3>1 DEF QuoteRow
    <3> QED BY <3>1, <3>2 DEF Untouched, SamePages, Terminal
  <2>8. CASE CommitDelete(p)
    <3>1. /\ quote' = [quote EXCEPT !.deleted = TRUE, !.updatedAt = @ + 1]
          /\ UNCHANGED <<convertedTotal, sheets>>
      BY <1>3, <2>8 DEF CommitDelete
    <3> QED BY <1>1, <3>1 DEF Untouched, SamePages, QuoteRow
  <2> QED BY <2>1, <2>2, <2>3, <2>4, <2>5, <2>6, <2>7, <2>8 DEF Commits
<1> QED BY <1>2, <1>3

(* What a step does to the requests and to the revenue.                    *)
LEMMA StepRevenue ==
    ASSUME Typed, [Next]_vars
    PROVE  \/ UNCHANGED vars
           \/ \E p \in Req : OthersKept(p) /\ Does(p) /\ (Untouched \/ (Records(p) /\ Ended(p)))
<1>1. ASSUME NEW p \in Req, Commits(p)
      PROVE  OthersKept(p) /\ Does(p) /\ (Untouched \/ (Records(p) /\ Ended(p)))
  BY <1>1, CommitShape, CommitWrites, CommitRevenue DEF Does
<1>2. ASSUME NEW p \in Req, OthersKept(p), UNCHANGED db,
             Opened(p) \/ Accepted(p) \/ Advanced(p) \/ ReadOn(p) \/ Quit(p)
      PROVE  OthersKept(p) /\ Does(p) /\ (Untouched \/ (Records(p) /\ Ended(p)))
  BY <1>2, DbUntouched DEF Does
<1>3. ASSUME NEW p \in Req, Arrive(p) \/ StartRows(p) \/ LockRow(p) \/ LockQuote(p) \/ Read(p)
                            \/ DeadlockAbort(p) \/ Fail(p)
      PROVE  OthersKept(p) /\ UNCHANGED db
             /\ (Opened(p) \/ Accepted(p) \/ Advanced(p) \/ ReadOn(p) \/ Quit(p))
  BY <1>3, ArriveShape, AdvanceShape, ReadShape, AbortsShape
     DEF AbortShape, Quit, Opened, Accepted, Advanced, ReadOn
<1> QED BY <1>1, <1>2, <1>3, NextShape

(* A transaction that found a revenue recorded: it still is.               *)
Won == \A p \in Req : fresh[p].won => convertedTotal # NoTotal

LEMMA RecordsNat ==
    ASSUME Typed, Typed', NEW p \in Req, Records(p)
    PROVE  convertedTotal' = convertedTotal \/ convertedTotal' \in Nat
<1>1. /\ sheets' \in RowSets /\ fresh[p].sheets \in RowSets /\ fresh[p].vat \in Vats
      /\ VatFor(p) \in Vats
  BY VatForIn DEF Records, Typed, Db, Phases, PhaseOK
<1> QED BY <1>1, RevenueNat DEF Records, Reprices, RevenueAfter, Decides, Closes

LEMMA RevenueThere ==
    ASSUME Typed, Typed', [Next]_vars, convertedTotal # NoTotal
    PROVE  convertedTotal' # NoTotal
<1>1. ASSUME Untouched PROVE convertedTotal' # NoTotal
  BY <1>1 DEF Untouched
<1>2. ASSUME NEW p \in Req, Records(p) PROVE convertedTotal' # NoTotal
  BY <1>2, RecordsNat
<1> QED BY <1>1, <1>2, StepRevenue DEF vars, db

LEMMA InitWon == Init => Won
BY DEF Init, Won, NothingRead

LEMMA NextWon ==
    ASSUME Typed, Typed', Won, [Next]_vars PROVE Won'
<1>1. CASE UNCHANGED vars
  BY <1>1 DEF vars, db, local, Won
<1>2. ASSUME NEW p \in Req, OthersKept(p), Does(p) PROVE Won'
  <2>1. ASSUME NEW q \in Req \ {p}, fresh'[q].won PROVE convertedTotal' # NoTotal
    BY <1>2, <2>1, RevenueThere DEF OthersKept, Won
  <2>2. ASSUME fresh'[p].won PROVE convertedTotal' # NoTotal
    <3>1. CASE Ended(p)
      BY <2>2, <3>1 DEF Ended, NothingRead
    <3>2. CASE ReadOn(p)
      <4>1. fresh'[p].won = (convertedTotal # NoTotal)
        BY <3>2 DEF ReadOn
      <4>2. convertedTotal # NoTotal
        BY <2>2, <4>1, Zenon
      <4> QED BY <4>2, RevenueThere
    <3>3. CASE fresh' = fresh
      BY <2>2, <3>3, RevenueThere DEF Won
    <3> QED BY <1>2, <3>1, <3>2, <3>3 DEF Does, Opened, Accepted, Advanced, Quit, local
  <2> QED BY <2>1, <2>2 DEF Won
<1> QED BY <1>1, <1>2, StepKinds

LEMMA WonInvariant == Spec => []Won
BY TypedInvariant, InitWon, NextWon, PTL DEF Spec

LEMMA RevenueMade ==
    ASSUME Typed, Won, [Next]_vars, convertedTotal = NoTotal, convertedTotal' # NoTotal
    PROVE  quote.status \notin Terminal /\ quote'.status = "converted"
<1>1. PICK p \in Req : Records(p)
  BY StepRevenue DEF vars, db, Untouched
<1>2. ~fresh[p].won
  BY DEF Won
<1> QED BY <1>1, <1>2 DEF Records, Reprices, RevenueAfter, Decides, Closes

(* For any number of requests, with or without a base: a recorded revenue  *)
(* is never lost, and none is recorded but by the close of an open deal.   *)
THEOREM RevenueIsKept == Spec => ConvertedTotalKept
<1>1. Typed /\ Typed' /\ Won /\ [Next]_vars =>
        [/\ convertedTotal # NoTotal => convertedTotal' # NoTotal
         /\ convertedTotal = NoTotal /\ convertedTotal' # NoTotal =>
              quote.status \notin Terminal /\ quote'.status = "converted"]_vars
  BY RevenueThere, RevenueMade
<1> QED BY <1>1, TypedInvariant, WonInvariant, PTL DEF Spec, ConvertedTotalKept

(* What p read is still what the revenue is made from: status and VAT, the *)
(* revenue's being there, and each page's price and decision.              *)
Current(p) ==
    /\ fresh[p].vat = quote.vat
    /\ fresh[p].status = "converted" <=> quote.status = "converted"
    /\ fresh[p].won <=> convertedTotal # NoTotal
    /\ DOMAIN fresh[p].sheets = DOMAIN sheets
    /\ \A i \in DOMAIN sheets : /\ fresh[p].sheets[i].price = sheets[i].price
                                /\ fresh[p].sheets[i].cust = sheets[i].cust
(* Whoever has read finds it so at its commit; before the first save since *)
(* it holds every page, afterwards if nobody else is left.                 *)
ReadsCurrent ==
    \A p \in Req : HasRead(p) => /\ Current(p)
                                 /\ ~Replaced => held[p] = DOMAIN sheets

(* Once rows were replaced, no two requests are left.                      *)
Settled == Replaced => \A p, q \in Req : p # q => pc[p] \in Final \/ pc[q] \in Final

LEMMA CurrentKept ==
    ASSUME NEW q \in Req, Current(q), fresh'[q] = fresh[q], Untouched PROVE Current(q)'
BY DEF Current, Untouched, SamePages

LEMMA NotReadYet ==
    ASSUME Typed, Informed, NEW p \in Req, Arrive(p) PROVE ~HasRead(p)'
<1>1. CASE Ended(p)
  BY <1>1 DEF Ended, Final, HasRead
<1>2. CASE Opened(p)
  BY <1>2 DEF Opened, HasRead
<1>3. CASE Accepted(p)
  <2>1. pc[p] \in {"idle", "editing"} /\ fresh' = fresh
    BY <1>3 DEF Accepted
  <2>2. fresh'[p].vat = Keep
    BY <2>1 DEF Informed, InformedOn, NothingRead
  <2>3. Typed'
    BY <1>3, ArriveTyped
  <2> QED BY <2>2, <2>3 DEF Typed, Phases, PhaseOK
<1> QED BY <1>1, <1>2, <1>3, ArriveShape

LEMMA LocksRead ==
    ASSUME Typed, NEW p \in Req, StartRows(p) \/ LockRow(p) \/ LockQuote(p), HasRead(p)'
    PROVE  pc[p] = "erase" /\ HasRead(p)
<1>1. pc \in [Req -> Phase] /\ req' = req /\ want \in [Req -> SUBSET (1..(nextId - 1))]
  BY DEF StartRows, LockRow, LockQuote, local, Typed, Tables
<1>2. CASE StartRows(p) \/ LockQuote(p)
  <2>1. pc'[p] \in {"rows", "read"}
    BY <1>1, <1>2 DEF StartRows, LockQuote
  <2> QED BY <2>1 DEF HasRead
<1>3. CASE LockRow(p)
  <2>1. pc[p] \in {"rows", "erase"} /\ pc'[p] \in {pc[p], AfterRows(p)}
    BY <1>1, <1>3 DEF LockRow
  <2>2. CASE pc[p] = "rows"
    <3>1. AfterRows(p) \in {"quote", "read"} \/ (req[p].kind = "invoice" /\ AfterRows(p) = "commit")
      BY <2>2 DEF AfterRows
    <3> QED BY <1>1, <2>1, <2>2, <3>1 DEF HasRead
  <2> QED BY <2>1, <2>2 DEF HasRead
<1> QED BY <1>2, <1>3

(* Before the first save whoever has read holds every page, so nobody else *)
(* has; afterwards nobody else is left.                                    *)
LEMMA ReadsAlone ==
    ASSUME Typed, LocksExclusive, ReadsCurrent, Settled,
           NEW p \in Req, HasRead(p), NEW q \in Req, HasRead(q)
    PROVE  p = q
<1> SUFFICES ASSUME p # q PROVE FALSE
  OBVIOUS
<1>1. CASE Replaced
  BY <1>1 DEF Settled, HasRead, Final
<1>2. CASE ~Replaced
  <2>1. held[p] = DOMAIN sheets /\ held[q] = DOMAIN sheets
    BY <1>2 DEF ReadsCurrent
  <2>2. DOMAIN sheets # {}
    BY DEF Typed, Db, RowSets
  <2> QED BY <2>1, <2>2 DEF LocksExclusive
<1> QED BY <1>1, <1>2

LEMMA OthersCurrent ==
    ASSUME Typed, LocksExclusive, Ordered, ReadsCurrent, Settled, NEW p \in Req,
           OthersKept(p), Does(p), Untouched \/ Records(p),
           HasRead(p)' => Current(p)' /\ (~Replaced' => held'[p] = DOMAIN sheets')
    PROVE  ReadsCurrent'
<1>1. (Replaced => Replaced') /\ (~Replaced' => DOMAIN sheets' = DOMAIN sheets)
  BY RowsStay
<1>2. ASSUME NEW q \in Req \ {p}, HasRead(q)'
      PROVE  Current(q)' /\ (~Replaced' => held'[q] = DOMAIN sheets')
  <2>1. pc'[q] = pc[q] /\ req'[q] = req[q] /\ fresh'[q] = fresh[q] /\ held'[q] = held[q]
    BY DEF OthersKept
  <2>2. HasRead(q)
    BY <1>2, <2>1 DEF HasRead
  <2>3. ~Records(p)
    BY <2>2, ReadsAlone DEF Records
  <2>4. Current(q)'
    BY <2>1, <2>2, <2>3, CurrentKept DEF ReadsCurrent
  <2>5. ~Replaced => held[q] = DOMAIN sheets
    BY <2>2 DEF ReadsCurrent
  <2> QED BY <1>1, <2>1, <2>4, <2>5
<1> QED BY <1>2 DEF ReadsCurrent

LEMMA NextReads ==
    ASSUME Typed, LocksExclusive, Informed, Ordered, ReadsCurrent, Settled, [Next]_vars
    PROVE  ReadsCurrent'
<1>1. CASE UNCHANGED vars
  BY <1>1 DEF vars, db, local, locks, ReadsCurrent, HasRead, Current, Replaced
<1>2. ASSUME NEW p \in Req, OthersKept(p), Does(p), Ended(p), Untouched \/ Records(p)
      PROVE  ReadsCurrent'
  <2>1. ~HasRead(p)'
    BY <1>2 DEF Ended, Final, HasRead
  <2> QED BY <1>2, <2>1, OthersCurrent
<1>3. ASSUME NEW p \in Req, Arrive(p) PROVE ReadsCurrent'
  <2>1. OthersKept(p) /\ Does(p) /\ UNCHANGED db
    BY <1>3, ArriveShape DEF Does, Quit, Opened, Accepted
  <2>2. ~HasRead(p)'
    BY <1>3, NotReadYet
  <2> QED BY <2>1, <2>2, DbUntouched, OthersCurrent
<1>4. ASSUME NEW p \in Req, StartRows(p) \/ LockRow(p) \/ LockQuote(p) PROVE ReadsCurrent'
  <2>1. OthersKept(p) /\ Does(p) /\ UNCHANGED db /\ fresh' = fresh
    BY <1>4, AdvanceShape DEF Does, Advanced, local
  <2>2. ASSUME HasRead(p)' PROVE Current(p)' /\ (~Replaced' => held'[p] = DOMAIN sheets')
    <3>1. pc[p] = "erase" /\ HasRead(p)
      BY <1>4, <2>2, LocksRead
    <3>2. Current(p)'
      BY <2>1, <3>1, DbUntouched, CurrentKept DEF ReadsCurrent
    <3>3. Replaced
      BY <3>1 DEF Ordered, OrderedOn
    <3>4. Replaced'
      BY <2>1, <3>3 DEF db, Replaced
    <3> QED BY <3>2, <3>4
  <2> QED BY <2>1, <2>2, DbUntouched, OthersCurrent
<1>5. ASSUME NEW p \in Req, Read(p) PROVE ReadsCurrent'
  <2>1. CASE ReadOn(p)
    <3>1. OthersKept(p) /\ Does(p) /\ UNCHANGED db /\ held' = held
      BY <1>5, <2>1, ReadShape DEF Does, ReadOn, Ended, Final
    <3>2. Current(p)'
      <4>1. /\ fresh'[p].sheets = sheets /\ fresh'[p].status = quote.status
            /\ fresh'[p].vat = quote.vat /\ fresh'[p].won = (convertedTotal # NoTotal)
        BY <2>1 DEF ReadOn
      <4>2. quote' = quote /\ sheets' = sheets /\ convertedTotal' = convertedTotal
        BY <3>1 DEF db
      <4>3. fresh'[p].won <=> convertedTotal' # NoTotal
        BY <4>1, <4>2, Zenon
      <4> QED BY <4>1, <4>2, <4>3 DEF Current
    <3>3. ~Replaced => held[p] = DOMAIN sheets
      BY <2>1 DEF ReadOn, Ordered, OrderedOn
    <3>4. ~Replaced' => held'[p] = DOMAIN sheets'
      BY <3>1, <3>3 DEF db, Replaced
    <3> QED BY <3>1, <3>2, <3>4, DbUntouched, OthersCurrent
  <2>2. CASE ~ReadOn(p)
    <3>1. OthersKept(p) /\ Does(p) /\ UNCHANGED db /\ Ended(p)
      BY <1>5, <2>2, ReadShape DEF Does, Quit
    <3> QED BY <1>2, <3>1, DbUntouched
  <2> QED BY <2>1, <2>2
<1>6. ASSUME NEW p \in Req, Commits(p) PROVE ReadsCurrent'
  <2>1. OthersKept(p) /\ Does(p) /\ Ended(p)
    BY <1>6, CommitShape, CommitWrites DEF Does
  <2>2. Untouched \/ Records(p)
    BY <1>6, CommitRevenue
  <2> QED BY <1>2, <2>1, <2>2
<1>7. ASSUME NEW p \in Req, DeadlockAbort(p) \/ Fail(p) PROVE ReadsCurrent'
  <2>1. OthersKept(p) /\ Does(p) /\ Ended(p) /\ UNCHANGED db
    BY <1>7, AbortsShape DEF AbortShape, Does, Quit
  <2> QED BY <1>2, <2>1, DbUntouched
<1> QED BY <1>1, <1>3, <1>4, <1>5, <1>6, <1>7, NextShape

(* What is recorded from what is still stored is the sum of the pages kept.*)
LEMMA NextMatches ==
    ASSUME Typed, ReadsCurrent, ConvertedTotalMatches, [Next]_vars
    PROVE  ConvertedTotalMatches'
<1> SUFFICES ASSUME quote'.status = "converted", convertedTotal' # NoTotal
             PROVE  convertedTotal' = ConvertedTotalOf(sheets', quote'.vat)
  BY DEF ConvertedTotalMatches
<1>1. CASE UNCHANGED vars
  BY <1>1 DEF vars, db, ConvertedTotalMatches
<1>2. CASE Untouched
  <2>1. convertedTotal' = ConvertedTotalOf(sheets, quote.vat)
    BY <1>2 DEF Untouched, ConvertedTotalMatches
  <2> QED BY <1>2, <2>1, RevenueOfSame DEF Untouched
<1>3. ASSUME NEW p \in Req, Records(p)
      PROVE  convertedTotal' = ConvertedTotalOf(sheets', quote'.vat)
  <2>1. Current(p) /\ fresh[p].vat \in Vats
    BY <1>3 DEF Records, ReadsCurrent, Typed, Phases, PhaseOK
  <2>2. \A vat : ConvertedTotalOf(fresh[p].sheets, vat) = ConvertedTotalOf(sheets, vat)
    BY <2>1, RevenueOfSame DEF Current, SamePages
  <2>3. CASE Closes(p)
    BY <2>1, <2>2, <2>3 DEF Closes, Current
  <2>4. CASE Decides(p)
    BY <2>1, <2>4 DEF Decides, Current
  <2>5. CASE Reprices(p)
    <3>1. quote.status = "converted"
      BY <2>5 DEF Reprices, Reopened
    <3>2. quote'.vat = VatFor(p)
      BY <2>1, <2>5 DEF Reprices, VatStored, VatFor, Current
    <3>3. PICK pages : /\ convertedTotal' = RevenueAfter(p, pages)
                       /\ pages = sheets' \/ (sheets' = sheets /\ pages = fresh[p].sheets)
      BY <2>5 DEF Reprices
    <3>4. fresh[p].won
      BY <2>1, <3>3 DEF RevenueAfter, Current
    <3>5. convertedTotal' = ConvertedTotalOf(pages, VatFor(p))
      BY <2>1, <3>1, <3>3, <3>4 DEF RevenueAfter, Current
    <3> QED BY <2>2, <3>2, <3>3, <3>5
  <2> QED BY <1>3, <2>3, <2>4, <2>5 DEF Records
<1> QED BY <1>1, <1>2, <1>3, StepRevenue

LEMMA InitRevenue == Init => ReadsCurrent /\ ConvertedTotalMatches
<1> SUFFICES ASSUME Init PROVE ReadsCurrent /\ ConvertedTotalMatches
  OBVIOUS
<1>1. ReadsCurrent
  BY DEF Init, ReadsCurrent, HasRead
<1>2. (\A i \in DOMAIN sheets : sheets[i].cust = "none") /\ quote.vat = Min(Vats)
  BY DEF Init
<1>3. PriceList(RestrictValues(sheets, LAMBDA s : s.cust # "rejected")) = PriceList(sheets)
  <2>1. {i \in DOMAIN sheets : sheets[i].cust # "rejected"} = DOMAIN sheets
    BY <1>2
  <2> QED BY <2>1 DEF PriceList, RestrictValues, Restrict
<1>4. ConvertedTotalOf(sheets, quote.vat) = TotalOf(sheets, quote.vat)
  BY <1>3 DEF ConvertedTotalOf, TotalOf
<1>5. convertedTotal \in {TotalOf(sheets, quote.vat), NoTotal}
  BY <1>2 DEF Init
<1> QED BY <1>1, <1>4, <1>5 DEF ConvertedTotalMatches

(* For any number of requests, with or without a base, the recorded        *)
(* revenue is that of the pages kept until a save first replaces rows.     *)
THEOREM RevenueBeforeSave == Spec => [](~Replaced => ConvertedTotalMatches)
<1> DEFINE Right == ~Replaced => ReadsCurrent /\ ConvertedTotalMatches
<1>1. Init => Right
  BY InitRevenue
<1>2. Typed /\ LocksExclusive /\ Informed /\ Ordered /\ Right /\ [Next]_vars => Right'
  <2> SUFFICES ASSUME Typed, LocksExclusive, Informed, Ordered, Right, [Next]_vars, ~Replaced'
               PROVE  ReadsCurrent' /\ ConvertedTotalMatches'
    OBVIOUS
  <2>1. ~Replaced
    BY StepKinds, RowsStay DEF vars, db, Replaced
  <2> QED BY <2>1, NextReads, NextMatches DEF Settled
<1>3. Right => (~Replaced => ConvertedTotalMatches)
  OBVIOUS
<1> HIDE DEF Right
<1> QED BY <1>1, <1>2, <1>3, TypedInvariant, LocksAreExclusive, InformedInvariant,
           OrderedInvariant, PTL DEF Spec

(* Of two requests, the recorded revenue is that of the pages kept at any  *)
(* time: the save that replaces rows waits for the other's, or comes last. *)
THEOREM RevenueOfPairs ==
    ASSUME NEW a, NEW b, Req = {a, b} PROVE Spec => RevenueIsRight
<1>1. SaveIsOver => Settled
  BY DEF SaveIsOver, Settled
<1>2. Typed /\ LocksExclusive /\ Informed /\ Ordered /\ SaveIsOver /\ ReadsCurrent
        /\ ConvertedTotalMatches /\ [Next]_vars => ReadsCurrent' /\ ConvertedTotalMatches'
  BY <1>1, NextReads, NextMatches
<1>3. Spec => []ConvertedTotalMatches
  BY <1>2, InitRevenue, TypedInvariant, LocksAreExclusive, InformedInvariant,
     OrderedInvariant, SaveIsOverInvariant, PTL DEF Spec
<1> QED BY <1>3, RevenueIsKept DEF RevenueIsRight

(***************************************************************************)
(* Progress.                                                               *)
(***************************************************************************)

(* The Quote row is taken after the pages.                                 *)
QuoteLast == \A p \in Req : quoteLock = p => pc[p] \in {"read", "erase", "commit"}

LEMMA QuoteLastKept == Typed /\ LocksExclusive /\ QuoteLast /\ [Next]_vars => QuoteLast'
<1> SUFFICES ASSUME Typed, LocksExclusive, QuoteLast, [Next]_vars PROVE QuoteLast'
  OBVIOUS
<1>1. CASE UNCHANGED vars
  BY <1>1 DEF vars, locks, QuoteLast
<1>2. ASSUME NEW p \in Req, OthersKept(p), quoteLock' \in {quoteLock, NoReq, p},
             quoteLock' = p => pc'[p] \in {"read", "erase", "commit"}
      PROVE  QuoteLast'
  BY <1>2 DEF QuoteLast, OthersKept
<1>3. ASSUME NEW p \in Req, OthersKept(p), Ended(p) PROVE QuoteLast'
  BY <1>2, <1>3 DEF Ended
<1>4. ASSUME NEW p \in Req, Arrive(p) PROVE QuoteLast'
  <2>1. OthersKept(p) /\ pc[p] \in {"idle", "editing"}
    BY <1>4, ArriveShape
  <2>2. quoteLock # p
    BY <2>1 DEF LocksExclusive, InTx
  <2>3. CASE Opened(p) \/ Accepted(p)
    <3>1. quoteLock' = quoteLock
      BY <2>3 DEF Opened, Accepted, locks
    <3> QED BY <1>2, <2>1, <2>2, <3>1
  <2> QED BY <1>3, <1>4, <2>1, <2>3, ArriveShape
<1>5. ASSUME NEW p \in Req, StartRows(p) \/ LockRow(p) \/ LockQuote(p) PROVE QuoteLast'
  <2>1. OthersKept(p)
    BY <1>5, AdvanceShape
  <2>2. CASE LockQuote(p)
    <3>1. quoteLock' = p /\ pc'[p] = "read"
      BY <2>2 DEF LockQuote, Typed, Tables
    <3> QED BY <1>2, <2>1, <3>1
  <2>3. CASE StartRows(p) \/ LockRow(p)
    <3>1. quoteLock' = quoteLock /\ pc[p] \in {"arrived", "rows", "erase"}
      BY <2>3 DEF StartRows, LockRow
    <3>2. CASE quoteLock = p
      <4>1. pc[p] = "erase" /\ LockRow(p)
        BY <2>3, <3>1, <3>2 DEF QuoteLast, StartRows
      <4>2. pc'[p] \in {pc[p], AfterRows(p)}
        <5>1. pc \in [Req -> Phase]
          BY DEF Typed, Tables
        <5>2. \/ pc' = [pc EXCEPT ![p] = AfterRows(p)]
              \/ pc' = [pc EXCEPT ![p] = pc[p]]
          BY <4>1 DEF LockRow
        <5> QED BY <5>1, <5>2
      <4>3. AfterRows(p) = "commit"
        BY <4>1 DEF AfterRows
      <4>4. pc'[p] \in {"erase", "commit"}
        BY <4>1, <4>2, <4>3
      <4> QED BY <1>2, <2>1, <3>1, <4>4
    <3> QED BY <1>2, <2>1, <3>1, <3>2
  <2> QED BY <1>5, <2>2, <2>3
<1>6. ASSUME NEW p \in Req, Read(p) PROVE QuoteLast'
  <2>1. OthersKept(p)
    BY <1>6, ReadShape
  <2>2. CASE ReadOn(p)
    <3>1. quoteLock' = quoteLock /\ pc'[p] \in {"erase", "commit"}
      BY <2>2 DEF ReadOn
    <3> QED BY <1>2, <2>1, <3>1
  <2> QED BY <1>3, <1>6, <2>1, <2>2, ReadShape
<1>7. ASSUME NEW p \in Req, Commits(p) \/ DeadlockAbort(p) \/ Fail(p) PROVE QuoteLast'
  BY <1>3, <1>7, CommitShape, AbortsShape DEF AbortShape
<1> QED BY <1>1, <1>4, <1>5, <1>6, <1>7, NextShape

LEMMA QuoteLastInvariant == Spec => []QuoteLast
<1>1. Init => QuoteLast
  BY DEF Init, QuoteLast
<1> QED BY <1>1, QuoteLastKept, TypedInvariant, LocksAreExclusive, PTL DEF Spec

(* Whoever waits waits for somebody in a transaction.                      *)
LEMMA WaitsForSomebody ==
    ASSUME Typed, LocksExclusive, Holding, QuoteLast, NEW p \in Req, pc[p] \in InTx, ~Free(p)
    PROVE  Blocker(p) # {} /\ \A q \in Blocker(p) : q \in Req /\ pc[q] \in InTx
<1> DEFINE row == CASE pc[p] \in {"rows", "erase"} /\ want[p] \cap DOMAIN sheets # {}
                         -> {NextRow(p)}
                    [] pc[p] = "commit" /\ req[p].kind = "sign" -> {req[p].target}
                    [] OTHER -> {}
           needsQuote == pc[p] = "quote" \/ NeedsQuote(p)
<1>1. Blocker(p) = {q \in Req \ {p} : held[q] \cap row # {} \/ (needsQuote /\ quoteLock = q)}
  BY DEF Blocker, NeedsQuote
<1> HIDE DEF row, needsQuote
<1>2. \A q \in Blocker(p) : q \in Req /\ pc[q] \in InTx
  BY <1>1 DEF LocksExclusive
<1>3. ASSUME NEW i, i \in row, ~RowFree(i, p) PROVE Blocker(p) # {}
  BY <1>1, <1>3 DEF RowFree
<1>4. ASSUME needsQuote, quoteLock \in Req \ {p} PROVE Blocker(p) # {}
  BY <1>1, <1>4
<1>5. quoteLock \in Req \cup {NoReq}
  BY DEF Typed, Tables
<1>6. CASE pc[p] \in {"rows", "erase"} /\ want[p] \cap DOMAIN sheets # {}
           /\ ~RowFree(NextRow(p), p)
  BY <1>2, <1>3, <1>6 DEF row
<1>7. CASE pc[p] = "quote" /\ quoteLock # NoReq
  BY <1>2, <1>4, <1>5, <1>7 DEF needsQuote, QuoteLast
<1>8. CASE NeedsRow(p) /\ req[p].target \in DOMAIN sheets /\ ~RowFree(req[p].target, p)
  <2>1. CASE req[p].kind = "sign"
    BY <1>2, <1>3, <1>8, <2>1 DEF row, NeedsRow
  <2>2. CASE req[p].kind = "invoice"
    <3>1. req[p].target \in held[p]
      BY <1>8, <2>2 DEF Holding, HoldsTarget, NeedsRow
    <3> QED BY <1>8, <3>1 DEF RowFree, LocksExclusive
  <2> QED BY <1>8, <2>1, <2>2 DEF NeedsRow
<1>9. CASE NeedsQuote(p) /\ ~QuoteFree(p)
  BY <1>2, <1>4, <1>5, <1>9 DEF needsQuote, QuoteFree
<1> QED BY <1>6, <1>7, <1>8, <1>9 DEF Free

(* Finitely many who all wait for one another hold a cycle: the smallest   *)
(* such set.                                                               *)
Waits(S) == S # {} /\ \A q \in S : Blocker(q) \cap S # {}

LEMMA SmallestWaits ==
    ASSUME NEW R \in SUBSET Req, IsFiniteSet(R), Waits(R)
    PROVE  \E S \in SUBSET R : Waits(S) /\ \A q \in S : ~Waits(S \ {q})
<1> DEFINE Sizes == {n \in Nat : \E S \in SUBSET R : Waits(S) /\ Cardinality(S) = n}
<1>1. Cardinality(R) \in Sizes
  BY FS_CardinalityType
<1>2. PICK n \in Sizes : \A m \in Sizes : n =< m
  BY <1>1, SmallestNat, Sizes \subseteq Nat, Sizes # {}
<1>3. PICK S \in SUBSET R : Waits(S) /\ Cardinality(S) = n
  BY <1>2
<1>4. ASSUME NEW q \in S, Waits(S \ {q}) PROVE FALSE
  <2>1. IsFiniteSet(S)
    BY FS_Subset
  <2>2. Cardinality(S \ {q}) = Cardinality(S) - 1 /\ Cardinality(S) \in Nat
        /\ Cardinality(S \ {q}) \in Nat
    BY <2>1, FS_RemoveElement, FS_CardinalityType, FS_Subset
  <2>3. Cardinality(S \ {q}) \in Sizes
    BY <1>4, <2>2
  <2> HIDE DEF Sizes
  <2> QED BY <1>2, <1>3, <2>2, <2>3
<1> QED BY <1>3, <1>4

LEMMA WaitsIsCycle ==
    ASSUME NEW R \in SUBSET Req, IsFiniteSet(R), Waits(R)
    PROVE  \E p \in R : InLockCycle(p)
<1>1. PICK S \in SUBSET R : Waits(S) /\ \A q \in S : ~Waits(S \ {q})
  BY SmallestWaits
<1>2. ASSUME NEW q \in S PROVE \E r \in S : q \in Blocker(r)
  <2>1. q \notin Blocker(q)
    BY DEF Blocker
  <2>2. S \ {q} # {}
    BY <1>1, <2>1 DEF Waits
  <2> QED BY <1>1, <2>2 DEF Waits
<1>3. PICK p \in S : TRUE
  BY <1>1 DEF Waits
<1>4. S \in SUBSET Req
  OBVIOUS
<1>5. InLockCycle(p)
  BY <1>1, <1>2, <1>3, <1>4 DEF InLockCycle, WaitInCircle, Waits
<1> QED BY <1>5

(* While a transaction is open, the next step of one of them is enabled,   *)
(* however many requests there are and whatever they lock.                 *)
THEOREM ProgressIsPossible ==
    ASSUME IsFiniteSet(Req)
    PROVE  Spec => []SomebodyIsAble
<1>1. ASSUME Typed, LocksExclusive, Holding, QuoteLast, NEW o \in Req, pc[o] \in InTx
      PROVE  \E p \in Req : Able(p)
  <2> DEFINE Open == {p \in Req : pc[p] \in InTx}
  <2> SUFFICES ASSUME \A p \in Open : ~Free(p) PROVE \E p \in Req : Able(p)
    BY DEF Able
  <2>1. \A p \in Open : Blocker(p) # {} /\ Blocker(p) \subseteq Open
    BY <1>1, WaitsForSomebody
  <2>2. Waits(Open)
    BY <1>1, <2>1 DEF Waits
  <2>3. IsFiniteSet(Open) /\ Open \in SUBSET Req
    BY FS_Subset
  <2>4. PICK p \in Open : InLockCycle(p)
    BY <2>2, <2>3, WaitsIsCycle
  <2> QED BY <2>4 DEF Able
<1>2. Typed /\ LocksExclusive /\ Holding /\ QuoteLast => SomebodyIsAble
  BY <1>1 DEF SomebodyIsAble
<1> QED BY <1>2, TypedInvariant, LocksAreExclusive, HoldingInvariant, QuoteLastInvariant, PTL

(***************************************************************************)
(* The handlers as if each ran alone (SerialQuote).  First what a request  *)
(* that was let in still finds: who opened a save or a header edit may     *)
(* edit, and the quote is not in the bin, as long as its base is current;  *)
(* a quote with an invoice or a signature under way is not in the bin.     *)
(***************************************************************************)
MayEdit(right) == right \/ quote.status \in {"draft", "rejected"}

AllowedOn(p) ==
    /\ pc[p] \in {"idle", "editing"} => req[p].kind = "none"
    /\ req[p].kind \in {"invoice", "sign"} => ~quote.deleted
    /\ req[p].kind \in {"save", "head"} /\ req[p].base = quote.updatedAt =>
         ~quote.deleted /\ MayEdit(req[p].right)
Allowed == \A p \in Req : AllowedOn(p)

LEMMA InitAllowed == Init => Allowed
BY DEF Init, Allowed, AllowedOn, NoRequest

(* An editor whose request is let in has the right, or the status lets it. *)
LEMMA SubmitRight ==
    ASSUME Typed, NEW p \in Req, NEW r, NEW s, NEW phase,
           Submit(p, r, CanEdit(s) /\ BaseMatches(r), phase), r.right = s,
           req'[p].kind \in {"save", "head"}
    PROVE  MayEdit(req'[p].right)
<1>1. CASE CanEdit(s) /\ BaseMatches(r) /\ ~quote.deleted
  <2>1. req'[p] = r
    BY <1>1 DEF Submit, Typed, Tables
  <2> QED BY <1>1, <2>1 DEF CanEdit, MayEdit
<1>2. CASE ~(CanEdit(s) /\ BaseMatches(r) /\ ~quote.deleted)
  <2>1. req'[p] = NoRequest
    BY <1>2 DEF Submit, RollBack, Finish, Typed, Tables
  <2> QED BY <2>1 DEF NoRequest
<1> QED BY <1>1, <1>2

LEMMA ArriveKind ==
    ASSUME Typed, NEW p \in Req, Arrive(p), ~ArriveSave(p), ~ArriveHead(p)
    PROVE  req'[p].kind \notin {"save", "head"}
<1>1. NoRequest.kind = "none"
  BY DEF NoRequest
<1>2. CASE Load(p)
  <2>1. PICK b \in Bases : req' = [req EXCEPT
            ![p] = [NoRequest EXCEPT !.base = IF b THEN quote.updatedAt ELSE NoBase]]
    BY <1>2 DEF Load
  <2> QED BY <2>1 DEF Typed, Tables, NoRequest
<1>3. ASSUME NEW r, NEW allowed, NEW phase, Submit(p, r, allowed, phase),
             r.kind \notin {"save", "head"}
      PROVE  req'[p].kind \notin {"save", "head"}
  BY <1>1, <1>3, SubmitRequest
<1>4. ASSUME NEW kind \in {"decide", "invoice", "sign"}, NEW values, NEW allowed, NEW phase,
             OnePage(p, kind, values, allowed, phase)
      PROVE  req'[p].kind \notin {"save", "head"}
  <2>1. PICK i \in DOMAIN sheets, v \in values :
         Submit(p, [NoRequest EXCEPT !.kind = kind, !.target = i, !.value = v], allowed, phase)
    BY <1>4 DEF OnePage
  <2> PICK r : r = [NoRequest EXCEPT !.kind = kind, !.target = i, !.value = v]
    OBVIOUS
  <2>2. r.kind = kind
    BY DEF NoRequest
  <2>3. Submit(p, r, allowed, phase) /\ r.kind \notin {"save", "head"}
    BY <1>4, <2>1, <2>2
  <2> QED BY <1>3, <2>3
<1>5. CASE ArriveDecide(p) \/ ArriveInvoice(p) \/ ArriveSign(p)
  BY <1>4, <1>5, Zenon DEF ArriveDecide, ArriveInvoice, ArriveSign
<1>6. CASE ArriveConvert(p)
  <2>1. Submit(p, [NoRequest EXCEPT !.kind = "convert"], quote.status \notin Terminal, "arrived")
    BY <1>6 DEF ArriveConvert, WholeQuote
  <2>2. [NoRequest EXCEPT !.kind = "convert"].kind = "convert"
    BY DEF NoRequest
  <2> QED BY <1>3, <2>1, <2>2
<1>7. CASE ArriveLost(p)
  <2>1. Submit(p, [NoRequest EXCEPT !.kind = "lost"], quote.status \notin Terminal, "commit")
    BY <1>7 DEF ArriveLost, WholeQuote
  <2>2. [NoRequest EXCEPT !.kind = "lost"].kind = "lost"
    BY DEF NoRequest
  <2> QED BY <1>3, <2>1, <2>2
<1>8. CASE ArriveDelete(p)
  <2>1. PICK s \in Senders :
         Submit(p, [NoRequest EXCEPT !.kind = "delete", !.right = s], MayDelete(s), "commit")
    BY <1>8 DEF ArriveDelete
  <2>2. [NoRequest EXCEPT !.kind = "delete", !.right = s].kind = "delete"
    BY DEF NoRequest
  <2> QED BY <1>3, <2>1, <2>2
<1> QED BY <1>2, <1>5, <1>6, <1>7, <1>8 DEF Arrive

LEMMA AskedRight ==
    ASSUME Typed, NEW p \in Req, Arrive(p), req'[p].kind \in {"save", "head"}
    PROVE  MayEdit(req'[p].right)
<1>1. CASE ArriveSave(p)
  <2>1. PICK e \in Edits, price \in Prices, v \in VatEdits, n \in Renumbers, s \in Senders :
         LET r == [req[p] EXCEPT !.kind = "save", !.vat = v, !.renumber = n, !.right = s,
                    !.payload = PayloadOf(e, loaded[p].pages, price)]
         IN Submit(p, r, CanEdit(s) /\ BaseMatches(r), "arrived")
    BY <1>1 DEF ArriveSave
  <2> DEFINE r == [req[p] EXCEPT !.kind = "save", !.vat = v, !.renumber = n, !.right = s,
                    !.payload = PayloadOf(e, loaded[p].pages, price)]
  <2>2. r.right = s
    BY DEF Typed, Tables, Requests
  <2>3. Submit(p, r, CanEdit(s) /\ BaseMatches(r), "arrived")
    BY <2>1
  <2> HIDE DEF r
  <2> QED BY <2>2, <2>3, SubmitRight
<1>2. CASE ArriveHead(p)
  <2>1. PICK v \in VatEdits, s \in Senders :
         LET r == [req[p] EXCEPT !.kind = "head", !.vat = v, !.right = s]
         IN Submit(p, r, CanEdit(s) /\ BaseMatches(r), IF v = Keep THEN "commit" ELSE "arrived")
    BY <1>2 DEF ArriveHead
  <2> DEFINE r == [req[p] EXCEPT !.kind = "head", !.vat = v, !.right = s]
             phase == IF v = Keep THEN "commit" ELSE "arrived"
  <2>2. r.right = s
    BY DEF Typed, Tables, Requests
  <2>3. Submit(p, r, CanEdit(s) /\ BaseMatches(r), phase)
    BY <2>1
  <2> HIDE DEF r, phase
  <2> QED BY <2>2, <2>3, SubmitRight
<1> QED BY <1>1, <1>2, ArriveKind

(* What another request writes takes none of it away.                      *)
LEMMA OthersAllowed ==
    ASSUME Typed, Based, Documents, Allowed, [Next]_vars, Stamps,
           NEW q \in Req, pc'[q] = pc[q], req'[q] = req[q]
    PROVE  AllowedOn(q)'
<1>1. quote.updatedAt \in Nat /\ req[q].base \in Nat /\ req[q].base =< quote.updatedAt
  <2>1. quote \in QuoteRow /\ req[q] \in Requests
    BY DEF Typed, Db, Tables
  <2> QED BY <2>1 DEF QuoteRow, Requests, Based, BasedOn
<1>2. req[q].kind \in {"invoice", "sign"} => ~quote'.deleted
  <2>1. ~quote.deleted /\ quote'.deleted => quote.status # "converted"
    BY NextDeleted
  <2> QED BY <2>1 DEF Documents, Allowed, AllowedOn
<1>3. CASE quote'.updatedAt = quote.updatedAt + 1
  <2>1. req'[q].base # quote'.updatedAt
    BY <1>1, <1>3
  <2> QED BY <1>2, <2>1 DEF Allowed, AllowedOn
<1>4. CASE quote' = quote
  BY <1>2, <1>4 DEF Allowed, AllowedOn, MayEdit
<1> QED BY <1>3, <1>4 DEF Stamps

LEMMA NextAllowed ==
    ASSUME Typed, Based, Documents, Allowed, [Next]_vars PROVE Allowed'
<1>1. CASE UNCHANGED vars
  BY <1>1 DEF vars, db, local, Allowed, AllowedOn, MayEdit
<1>2. ASSUME NEW p \in Req, OthersKept(p), Does(p), AllowedOn(p)' PROVE Allowed'
  <2>1. Stamps
    BY <1>2, DoesStamps
  <2>2. ASSUME NEW q \in Req \ {p} PROVE AllowedOn(q)'
    <3>1. pc'[q] = pc[q] /\ req'[q] = req[q]
      BY <1>2 DEF OthersKept
    <3> QED BY <2>1, <3>1, OthersAllowed
  <2> QED BY <1>2, <2>2 DEF Allowed
<1>3. ASSUME NEW p \in Req, Ended(p) PROVE AllowedOn(p)'
  BY <1>3 DEF Ended, NoRequest, AllowedOn, Final
<1>4. ASSUME NEW p \in Req, Advanced(p) \/ ReadOn(p) PROVE AllowedOn(p)'
  <2>1. req' = req /\ quote' = quote /\ pc'[p] \in InTx
    BY <1>4 DEF Advanced, ReadOn, db, local, InTx
  <2> QED BY <2>1 DEF Allowed, AllowedOn, MayEdit, InTx
<1>5. ASSUME NEW p \in Req, Arrive(p) PROVE AllowedOn(p)'
  <2>1. CASE Opened(p)
    BY <2>1 DEF Opened, AllowedOn
  <2>2. CASE Accepted(p)
    <3>1. quote' = quote /\ ~quote.deleted /\ pc'[p] \in {"arrived", "commit"}
      BY <2>2 DEF Accepted, db
    <3>2. req'[p].kind \in {"save", "head"} => MayEdit(req'[p].right)
      BY <1>5, AskedRight
    <3> QED BY <3>1, <3>2 DEF AllowedOn, MayEdit
  <2> QED BY <1>3, <1>5, <2>1, <2>2, ArriveShape
<1>6. ASSUME NEW p \in Req, Arrive(p) PROVE Allowed'
  BY <1>2, <1>5, <1>6, ArriveShape DEF Does, Quit
<1>7. ASSUME NEW p \in Req, OthersKept(p), Does(p), Advanced(p) \/ ReadOn(p) \/ Ended(p)
      PROVE Allowed'
  BY <1>2, <1>3, <1>4, <1>7
<1>8. ASSUME NEW p \in Req, StartRows(p) \/ LockRow(p) \/ LockQuote(p) PROVE Allowed'
  BY <1>7, <1>8, AdvanceShape DEF Does
<1>9. ASSUME NEW p \in Req, Read(p) PROVE Allowed'
  BY <1>7, <1>9, ReadShape DEF Does, Quit
<1>10. ASSUME NEW p \in Req, Commits(p) PROVE Allowed'
  BY <1>7, <1>10, CommitShape, CommitWrites DEF Does
<1>11. ASSUME NEW p \in Req, DeadlockAbort(p) \/ Fail(p) PROVE Allowed'
  BY <1>7, <1>11, AbortsShape DEF AbortShape, Does, Quit
<1> QED BY <1>1, <1>6, <1>8, <1>9, <1>10, <1>11, NextShape

(***************************************************************************)
(* Answers.                                                                *)
(***************************************************************************)
LEMMA AnswerGiven ==
    ASSUME Typed, Typed', NEW p \in Req, OthersKept(p), Ended(p), pc[p] \notin Final,
           NEW a, a = pc'[p]
    PROVE  Serial!Answer(p, a)
<1>1. Outcome[p] = "open"
  BY DEF Outcome
<1>2. Outcome' = [Outcome EXCEPT ![p] = a]
  BY DEF Outcome, OthersKept, Ended
<1>3. req' = [req EXCEPT ![p] = NoRequest]
  BY DEF OthersKept, Ended, Typed, Tables
<1> QED BY <1>1, <1>2, <1>3 DEF Serial!Answer

(* A save or header edit that commits was let in by what is stored now.    *)
LEMMA EditorAlone ==
    ASSUME Stamped, Allowed, NEW p \in Req, req[p].kind \in {"save", "head"}, BaseHolds(p)
    PROVE  ~quote.deleted /\ Serial!May(req[p].right)
<1>1. req[p].base = quote.updatedAt
  BY DEF Stamped, Editing, BaseHolds
<1>2. ~quote.deleted /\ MayEdit(req[p].right)
  BY <1>1 DEF Allowed, AllowedOn
<1> QED BY <1>2 DEF MayEdit, Serial!May, Serial!Editable

(* The pages of a save are those it would make out of what is stored now.  *)
LEMMA PagesAlone ==
    ASSUME Stamped, Informed, Holding, NEW p \in Req, pc[p] = "commit", WroteSave(p)
    PROVE  /\ SaveSheets(p) = Serial!NewRows(req[p])
           /\ MayRenumber(p) = Serial!NewCodes(req[p])
<1>1. fresh[p].sheets = sheets /\ req[p].kind = "save"
  BY SaveFinds
<1>2. seen[p].seq = quote.seq
  BY <1>1, WritesInformed DEF WroteSave
<1>3. MayRenumber(p) = Serial!NewCodes(req[p])
  BY <1>1 DEF MayRenumber, Invoiced, Serial!NewCodes, Serial!HasNumber
<1>4. SaveSheets(p) = Serial!NewRows(req[p])
  BY <1>1, <1>2, <1>3 DEF SaveSheets, Serial!NewRows
<1> QED BY <1>3, <1>4

LEMMA StatusAlone ==
    ASSUME NEW p \in Req, seen[p].status = quote.status PROVE Reopened(p) = Serial!Reopened
BY DEF Reopened, Serial!Reopened, Serial!Pipeline

LEMMA VatAlone ==
    ASSUME Typed, Stamped, Informed, NEW p \in Req, HasRead(p), BaseHolds(p),
           req[p].kind \in {"save", "head"}
    PROVE  /\ VatFor(p) = IF req[p].vat = Keep THEN quote.vat ELSE req[p].vat
           /\ VatStored(p) = VatFor(p)
<1>1. fresh[p].vat # Keep
  BY DEF Typed, Phases, PhaseOK
<1>2. fresh[p].vat = quote.vat
  BY <1>1, WritesInformed
<1> QED BY <1>2 DEF VatFor, VatStored

LEMMA MarkAlone ==
    ASSUME Typed, NEW p \in Req, pc[p] = "commit", WroteSave(p), ~MayRenumber(p)
    PROVE  Serial!Highest(quote'.seq,
             {seen[p].seq} \cup {SaveSheets(p)[j].code : j \in DOMAIN SaveSheets(p)})
<1> PICK new, top, seq, mark, codes :
         /\ new = SaveSheets(p) /\ top = Top(new) /\ seq = seen[p].seq /\ mark = quote'.seq
         /\ codes = {new[j].code : j \in DOMAIN new}
  OBVIOUS
<1>1. req[p].kind = "save" /\ mark = SeqAfter(p)
  BY PricedShape DEF WroteSave
<1>2. new \in RowSets /\ seq \in Nat
  BY <1>1, SaveSheetsType DEF Typed, Tables, Sights
<1>3. mark \in Nat /\ mark >= seq /\ \A j \in DOMAIN new : new[j].code =< mark
  BY SavedTop
<1>4. IsFiniteSet(codes) /\ codes \in SUBSET Nat /\ codes # {}
  <2> PICK f : f = [j \in DOMAIN new |-> new[j].code]
    OBVIOUS
  <2>1. new \in [DOMAIN new -> Page] /\ IsFiniteSet(DOMAIN new) /\ DOMAIN new # {}
    BY <1>2 DEF RowSets
  <2>2. f \in [DOMAIN new -> Nat] /\ codes = {f[j] : j \in DOMAIN new}
    BY <2>1 DEF Page
  <2>3. IsFiniteSet(codes)
    BY <2>1, <2>2, FiniteImage
  <2>4. codes # {} /\ codes \in SUBSET Nat
    BY <2>1, <2>2
  <2> QED BY <2>3, <2>4
<1>5. top \in codes
  <2>1. Max(codes) \in codes
    BY <1>4, MaxNat
  <2> QED BY <2>1 DEF Top
<1>6. mark \in {seq, top}
  <2> PICK two : two = {seq} \cup {top}
    OBVIOUS
  <2>1. IsFiniteSet(two)
    <3> PICK one : one = {seq}
      OBVIOUS
    <3>1. IsFiniteSet(one)
      BY FS_Singleton
    <3>2. IsFiniteSet(one \cup {top})
      BY ONLY <3>1, FS_AddElement
    <3> QED BY <3>2
  <2>2. two \in SUBSET Nat /\ two # {}
    BY <1>2, <1>4, <1>5
  <2>3. Max(two) \in two
    BY <2>1, <2>2, MaxNat
  <2>4. {seq, top} = two
    OBVIOUS
  <2> QED BY <1>1, <2>3, <2>4 DEF SeqAfter
<1>7. mark \in {seq} \cup codes
  BY <1>5, <1>6
<1>8. \A m \in {seq} \cup codes : m =< mark
  BY <1>2, <1>3
<1> QED BY <1>7, <1>8 DEF Serial!Highest

LEMMA SaveAlone ==
    ASSUME Typed, Typed', Stamped, Informed, Holding, Allowed, NEW p \in Req,
           OthersKept(p), Ended(p), pc[p] = "commit", pc'[p] = "ok", WroteSave(p)
    PROVE  Serial!Save(p)
<1> PICK new : new = SaveSheets(p)
  OBVIOUS
<1>1. req[p].kind = "save" /\ sheets' = new /\ nextId' = nextId + Len(req[p].payload)
  BY DEF WroteSave
<1>2. new = Serial!NewRows(req[p]) /\ MayRenumber(p) = Serial!NewCodes(req[p])
  BY PagesAlone
<1>3. ~quote.deleted /\ Serial!May(req[p].right)
  BY <1>1, EditorAlone DEF WroteSave
<1>4. seen[p].status = quote.status /\ seen[p].seq = quote.seq
  BY <1>1, WritesInformed DEF WroteSave
<1>5. /\ quote'.vat = VatStored(p) /\ quote'.status = Reopened(p) /\ quote'.deleted = quote.deleted
      /\ total' = TotalOf(new, VatFor(p)) /\ quote'.seq = SeqAfter(p)
  BY PricedShape DEF WroteSave
<1>6. VatFor(p) = (IF req[p].vat = Keep THEN quote.vat ELSE req[p].vat) /\ VatStored(p) = VatFor(p)
  BY <1>1, VatAlone DEF WroteSave, HasRead
<1>7. quote'.status = Serial!Reopened
  BY <1>4, <1>5, StatusAlone
<1>8. IF Serial!NewCodes(req[p]) THEN quote'.seq = Len(req[p].payload)
      ELSE Serial!Highest(quote'.seq, {quote.seq} \cup {new[j].code : j \in DOMAIN new})
  <2>1. CASE MayRenumber(p)
    BY <1>2, <1>5, <2>1 DEF SeqAfter
  <2>2. CASE ~MayRenumber(p)
    BY <1>2, <1>4, <2>2, MarkAlone
  <2> QED BY <1>2, <2>1, <2>2
<1>9. Serial!Answer(p, "ok")
  BY AnswerGiven DEF Final
<1> QED BY <1>1, <1>2, <1>3, <1>5, <1>6, <1>7, <1>8, <1>9 DEF Serial!Save

LEMMA HeadAlone ==
    ASSUME Typed, Typed', Stamped, Informed, Allowed, NEW p \in Req,
           OthersKept(p), Ended(p), pc[p] = "commit", pc'[p] = "ok", WroteHead(p)
    PROVE  Serial!EditHead(p)
<1>1. req[p].kind = "head" /\ UNCHANGED <<sheets, nextId>> /\ quote \in QuoteRow
  BY DEF WroteHead, Typed, Db
<1>2. ~quote.deleted /\ Serial!May(req[p].right)
  BY <1>1, EditorAlone DEF WroteHead
<1>3. Serial!Answer(p, "ok")
  BY AnswerGiven DEF Final
<1>4. CASE req[p].vat = Keep
  <2>1. /\ quote'.vat = quote.vat /\ quote'.status = quote.status /\ total' = total
        /\ quote'.deleted = quote.deleted /\ quote'.seq = quote.seq
    BY <1>1, <1>4 DEF WroteHead, QuoteRow
  <2> QED BY <1>1, <1>2, <1>3, <1>4, <2>1 DEF Serial!EditHead
<1>5. CASE req[p].vat # Keep
  <2>1. /\ quote'.vat = VatStored(p) /\ quote'.status = Reopened(p) /\ quote'.deleted = quote.deleted
        /\ total' = TotalOf(fresh[p].sheets, VatFor(p)) /\ quote'.seq = quote.seq
    BY <1>5, PricedShape DEF WroteHead
  <2>2. VatFor(p) = req[p].vat /\ VatStored(p) = req[p].vat
    BY <1>5 DEF VatFor, VatStored
  <2>3. fresh[p].vat # Keep
    BY <1>1, <1>5 DEF Typed, Phases, PhaseOK, HasRead
  <2>4. seen[p].status = quote.status /\ PriceList(fresh[p].sheets) = PriceList(sheets)
    BY <1>1, <2>3, WritesInformed DEF WroteHead
  <2>5. total' = TotalOf(sheets, req[p].vat)
    BY <2>1, <2>2, <2>4 DEF TotalOf
  <2>6. quote'.status = Serial!Reopened
    BY <2>1, <2>4, StatusAlone
  <2> QED BY <1>1, <1>2, <1>3, <1>5, <2>1, <2>2, <2>5, <2>6 DEF Serial!EditHead
<1> QED BY <1>4, <1>5

(* A page is written where it stands, and nothing else.                    *)
LEMMA PageAlone ==
    ASSUME Typed, Typed', Documents, Deciding, Allowed, NEW p \in Req, OthersKept(p), Ended(p),
           pc[p] = "commit", pc'[p] = "ok", WrotePage(p),
           CommitDecide(p) \/ CommitInvoice(p) \/ CommitSign(p)
    PROVE  Serial!Decide(p) \/ Serial!Invoice(p) \/ Serial!Sign(p)
<1> PICK i, value : i = req[p].target /\ value = req[p].value
  OBVIOUS
<1>1. i \in DOMAIN sheets /\ UNCHANGED <<quote, total, nextId>>
  BY DEF WrotePage
<1>2. Serial!Answer(p, "ok")
  BY AnswerGiven DEF Final
<1>3. sheets[i] \in Page
  BY <1>1 DEF Typed, Db, RowSets
<1>4. CASE CommitDecide(p)
  <2>1. req[p].kind = "decide" /\ sheets' = [sheets EXCEPT ![i].cust = value]
    BY <1>1, <1>4 DEF CommitDecide
  <2>2. ~Serial!HasNumber
    BY <1>1, <2>1 DEF Deciding, DecidesOn, Invoiced, Serial!HasNumber
  <2>3. sheets' = [sheets EXCEPT ![i] = [@ EXCEPT !["cust"] = value]]
    BY <2>1
  <2>4. Serial!WritePage(p, "decide", "cust", value)
    BY <1>1, <1>2, <2>1, <2>3 DEF Serial!WritePage
  <2> QED BY <2>2, <2>4 DEF Serial!Decide
<1>5. CASE CommitInvoice(p)
  <2>1. req[p].kind = "invoice" /\ sheets' = [sheets EXCEPT ![i].inv = (value = "set")]
    BY <1>1, <1>5 DEF CommitInvoice, WritePage
  <2>2. quote.status = "converted" /\ ~quote.deleted
    BY <2>1 DEF Documents, Allowed, AllowedOn
  <2>3. sheets' = [sheets EXCEPT ![i] = [@ EXCEPT !["inv"] = (value = "set")]]
    BY <2>1
  <2>4. Serial!WritePage(p, "invoice", "inv", value = "set")
    BY <1>1, <1>2, <2>1, <2>3 DEF Serial!WritePage
  <2> QED BY <2>2, <2>4 DEF Serial!Invoice
<1>6. CASE CommitSign(p)
  <2>1. req[p].kind = "sign" /\ sheets' = [sheets EXCEPT ![i].signed = (value = "set")]
    BY <1>1, <1>6 DEF CommitSign, WritePage
  <2>2. quote.status = "converted" /\ ~quote.deleted
    BY <2>1 DEF Documents, Allowed, AllowedOn
  <2>3. sheets' = [sheets EXCEPT ![i] = [@ EXCEPT !["signed"] = (value = "set")]]
    BY <2>1
  <2>4. Serial!WritePage(p, "sign", "signed", value = "set")
    BY <1>1, <1>2, <2>1, <2>3 DEF Serial!WritePage
  <2> QED BY <2>2, <2>4 DEF Serial!Sign
<1> QED BY <1>4, <1>5, <1>6

LEMMA CloseAlone ==
    ASSUME Typed, Typed', NEW p \in Req, OthersKept(p), Ended(p), pc[p] = "commit",
           pc'[p] = "ok", CommitConvert(p) \/ CommitLost(p)
    PROVE  Serial!Close(p, "convert", "converted") \/ Serial!Close(p, "lost", "lost")
<1>1. quote \in QuoteRow /\ Serial!Answer(p, "ok")
  BY AnswerGiven DEF Typed, Db, Final
<1>2. ASSUME NEW kind, NEW status, NEW revenue, WriteStatus(p, kind, status, revenue)
      PROVE  Serial!Close(p, kind, status)
  <2>1. ~RollBack(p, "refused")
    BY RollBackShape DEF Final
  <2>2. /\ req[p].kind = kind /\ NotTerminal
        /\ quote' = [quote EXCEPT !.updatedAt = @ + 1, !.status = status]
        /\ UNCHANGED <<total, sheets, nextId>>
    BY <1>2, <2>1 DEF WriteStatus
  <2>3. /\ quote'.status = status /\ quote'.vat = quote.vat /\ quote'.deleted = quote.deleted
        /\ quote'.seq = quote.seq
    BY <1>1, <2>2 DEF QuoteRow
  <2>4. quote.status \notin Serial!Closed
    BY <2>2 DEF NotTerminal, Terminal, Serial!Closed
  <2> QED BY <1>1, <2>2, <2>3, <2>4 DEF Serial!Close
<1> QED BY <1>2 DEF CommitConvert, CommitLost

LEMMA DeleteAlone ==
    ASSUME Typed, Typed', NEW p \in Req, OthersKept(p), Ended(p), pc[p] = "commit",
           pc'[p] = "ok", WroteDelete(p)
    PROVE  Serial!Delete(p)
<1>1. quote \in QuoteRow /\ Serial!Answer(p, "ok")
  BY AnswerGiven DEF Typed, Db, Final
<1>2. /\ req[p].kind = "delete" /\ ~quote.deleted /\ MayDelete(req[p].right)
      /\ quote' = [quote EXCEPT !.deleted = TRUE, !.updatedAt = @ + 1]
      /\ UNCHANGED <<total, sheets, nextId>>
  BY DEF WroteDelete, StillDeletable
<1>3. /\ quote'.status = quote.status /\ quote'.vat = quote.vat /\ quote'.deleted = TRUE
      /\ quote'.seq = quote.seq
  BY <1>1, <1>2 DEF QuoteRow
<1> QED BY <1>1, <1>2, <1>3 DEF Serial!Delete, Serial!May, Serial!Editable, MayDelete

(***************************************************************************)
(* Every step.                                                             *)
(***************************************************************************)
LEMMA CycleInTx == ASSUME NEW p \in Req, InLockCycle(p) PROVE pc[p] \in InTx
<1>1. \E q \in Req : q \in Blocker(p)
  BY DEF InLockCycle, WaitInCircle
<1>2. CASE pc[p] \notin {"rows", "erase", "quote", "commit"}
  BY <1>1, <1>2 DEF Blocker
<1> QED BY <1>2 DEF InTx

LEMMA QuitAlone ==
    ASSUME Typed, Typed', NEW p \in Req, OthersKept(p), Quit(p), pc[p] \notin Final
    PROVE  Serial!GiveUp(p)
<1>1. UNCHANGED Serial!quote
  BY DEF Quit, db, Serial!quote
<1>2. Ended(p) /\ pc'[p] \in {"refused", "failed"}
  BY DEF Quit
<1>3. Serial!Answer(p, pc'[p])
  BY <1>2, AnswerGiven
<1> QED BY <1>1, <1>2, <1>3 DEF Serial!GiveUp

LEMMA OutcomeKept ==
    ASSUME NEW p \in Req, OthersKept(p), pc[p] \notin Final, pc'[p] \notin Final
    PROVE  UNCHANGED Outcome
BY DEF Outcome, OthersKept

LEMMA AskAlone ==
    ASSUME Typed, Typed', Allowed, NEW p \in Req, OthersKept(p), Opened(p) \/ Accepted(p)
    PROVE  Serial!Ask(p)
<1>1. /\ pc[p] \in {"idle", "editing"} /\ pc'[p] \in {"editing", "arrived", "commit"}
      /\ ~quote.deleted /\ UNCHANGED db
  BY DEF Opened, Accepted
<1>2. Outcome[p] = "open" /\ UNCHANGED Outcome
  <2>1. pc[p] \notin Final /\ pc'[p] \notin Final
    BY <1>1 DEF Final
  <2> QED BY <2>1, OutcomeKept DEF Outcome
<1>3. req[p].kind = "none"
  BY <1>1 DEF Allowed, AllowedOn
<1>4. req' = [req EXCEPT ![p] = req'[p]]
  BY DEF OthersKept, Typed, Tables
<1>5. UNCHANGED Serial!quote
  BY <1>1 DEF db, Serial!quote
<1> QED BY <1>1, <1>2, <1>3, <1>4, <1>5 DEF Serial!Ask

LEMMA QuietAlone ==
    ASSUME Typed, Typed', NEW p \in Req, OthersKept(p), Advanced(p) \/ ReadOn(p)
    PROVE  UNCHANGED Serial!vars
<1>1. /\ pc[p] \in InTx \cup {"arrived"} /\ pc'[p] \in InTx /\ UNCHANGED db /\ req' = req
  BY DEF Advanced, ReadOn, local, InTx
<1>2. UNCHANGED Outcome
  <2>1. pc[p] \notin Final /\ pc'[p] \notin Final
    BY <1>1 DEF Final, InTx
  <2> QED BY <2>1, OutcomeKept
<1> QED BY <1>1, <1>2 DEF db, Serial!quote, Serial!vars

LEMMA StutterAlone == ASSUME UNCHANGED vars PROVE UNCHANGED Serial!vars
BY DEF vars, db, local, Outcome, Serial!vars, Serial!quote

LEMMA CommitAlone ==
    ASSUME Typed, Typed', Stamped, Informed, Holding, Deciding, Documents, Allowed,
           NEW p \in Req, Commits(p)
    PROVE  Serial!Next
<1>1. OthersKept(p) /\ Ended(p) /\ pc[p] = "commit"
  BY CommitShape
<1>2. CASE Quit(p)
  <2>1. Serial!GiveUp(p)
    BY <1>1, <1>2, QuitAlone DEF Final
  <2> QED BY <2>1 DEF Serial!Next
<1>3. CASE Wrote(p) /\ pc'[p] = "ok"
  <2>1. CASE WroteSave(p)
    BY <1>1, <1>3, <2>1, SaveAlone DEF Serial!Next
  <2>2. CASE WroteHead(p)
    BY <1>1, <1>3, <2>2, HeadAlone DEF Serial!Next
  <2>3. CASE WrotePage(p)
    <3>1. CommitDecide(p) \/ CommitInvoice(p) \/ CommitSign(p)
      BY <2>3 DEF Commits, WrotePage, CommitSave, CommitHead, CommitConvert, CommitLost,
                  WriteStatus, CommitDelete
    <3> QED BY <1>1, <1>3, <2>3, <3>1, PageAlone DEF Serial!Next
  <2>4. CASE WroteStatus(p)
    <3>1. CommitConvert(p) \/ CommitLost(p)
      BY <2>4 DEF Commits, WroteStatus, CommitSave, CommitHead, CommitDecide, CommitInvoice,
                  CommitSign, WritePage, CommitDelete
    <3> QED BY <1>1, <1>3, <3>1, CloseAlone DEF Serial!Next
  <2>5. CASE WroteDelete(p)
    BY <1>1, <1>3, <2>5, DeleteAlone DEF Serial!Next
  <2> QED BY <1>3, <2>1, <2>2, <2>3, <2>4, <2>5 DEF Wrote
<1> QED BY <1>2, <1>3, CommitWrites

LEMMA NextAlone ==
    ASSUME Typed, Typed', Stamped, Informed, Holding, Deciding, Documents, Allowed, [Next]_vars
    PROVE  [Serial!Next]_Serial!vars
<1>1. CASE UNCHANGED vars
  BY <1>1, StutterAlone
<1>2. ASSUME NEW p \in Req, OthersKept(p), Quit(p), pc[p] \notin Final PROVE Serial!Next
  <2>1. Serial!GiveUp(p)
    BY <1>2, QuitAlone
  <2> QED BY <2>1 DEF Serial!Next
<1>3. ASSUME NEW p \in Req, Arrive(p) PROVE Serial!Next
  <2>1. OthersKept(p) /\ pc[p] \notin Final
    BY <1>3, ArriveShape DEF Final
  <2>2. CASE Opened(p) \/ Accepted(p)
    <3>1. Serial!Ask(p)
      BY <2>1, <2>2, AskAlone
    <3> QED BY <3>1 DEF Serial!Next
  <2> QED BY <1>2, <1>3, <2>1, <2>2, ArriveShape DEF Quit
<1>4. ASSUME NEW p \in Req, StartRows(p) \/ LockRow(p) \/ LockQuote(p)
      PROVE UNCHANGED Serial!vars
  BY <1>4, AdvanceShape, QuietAlone
<1>5. ASSUME NEW p \in Req, Read(p) PROVE [Serial!Next]_Serial!vars
  <2>1. OthersKept(p) /\ pc[p] \notin Final
    BY <1>5, ReadShape DEF Read, Final
  <2>2. CASE ReadOn(p)
    BY <2>1, <2>2, QuietAlone
  <2> QED BY <1>2, <1>5, <2>1, <2>2, ReadShape DEF Quit
<1>6. ASSUME NEW p \in Req, Commits(p) PROVE Serial!Next
  BY <1>6, CommitAlone
<1>7. ASSUME NEW p \in Req, DeadlockAbort(p) \/ Fail(p) PROVE Serial!Next
  <2>1. pc[p] \in InTx
    BY <1>7, CycleInTx DEF DeadlockAbort, Fail
  <2>2. pc[p] \notin Final
    BY <2>1 DEF InTx, Final
  <2>3. AbortShape(p)
    BY <1>7, AbortsShape
  <2> QED BY <1>2, <2>2, <2>3 DEF AbortShape, Quit
<1> QED BY <1>1, <1>3, <1>4, <1>5, <1>6, <1>7, NextShape

LEMMA InitAlone == Init => Serial!Init
<1>1. SUFFICES ASSUME Init PROVE Serial!Init
  OBVIOUS
<1>2. ~quote.deleted
  <2>1. \E st \in InitStatus : quote = [status |-> st, vat |-> Min(Vats), updatedAt |-> 1,
                      deleted |-> FALSE, version |-> 1, seq |-> InitPages]
    BY <1>1 DEF Init
  <2> QED BY <2>1
<1>3. pc = [p \in Req |-> "idle"] /\ req = [p \in Req |-> NoRequest]
  BY <1>1 DEF Init
<1>4. Outcome = [p \in Req |-> "open"]
  BY <1>3 DEF Outcome, Final
<1> QED BY <1>2, <1>3, <1>4 DEF Serial!Init

(* The invariants a write of a client that sends its base relies on: what  *)
(* it read is what is stored, and what it was allowed it still is.         *)
Alone == Typed /\ Stamped /\ Informed /\ Holding /\ Deciding /\ Documents /\ Allowed

(* They hold at every step of every handler.                               *)
THEOREM AloneInvariant == ASSUME FALSE \notin Bases PROVE Spec => []Alone
<1>1. Typed /\ Stamped /\ Informed /\ Documents /\ DocumentsOnlyOnClosedDeal /\ [Next]_vars
        => DocumentsOnlyOnClosedDeal' /\ Documents'
  BY NextDocuments
<1>2. Spec => []Documents
  BY <1>1, InitDocuments, TypedInvariant, StampedInvariant, InformedInvariant, PTL DEF Spec
<1>3. Spec => []Allowed
  BY <1>2, InitAllowed, NextAllowed, TypedInvariant, BasedInvariant, PTL DEF Spec
<1> QED BY <1>2, <1>3, TypedInvariant, StampedInvariant, InformedInvariant, HoldingInvariant,
           DecidingInvariant, PTL DEF Alone

(* When every editor sends its base, any number of saves, VAT changes,     *)
(* decisions, invoices, signatures, closes and deletes of one quote have   *)
(* the effect of running one after the other: each that succeeds takes     *)
(* effect at its commit on the quote as it is then, and each that is       *)
(* refused, fails or is aborted leaves no trace.                           *)
THEOREM HandlersAreSerial == ASSUME FALSE \notin Bases PROVE Spec => RunsAsAlone
<1>1. Alone /\ Alone' /\ [Next]_vars => [Serial!Next]_Serial!vars
  BY NextAlone DEF Alone
<1> QED BY <1>1, InitAlone, AloneInvariant, PTL DEF Spec, RunsAsAlone, Serial!Spec

(* ... and a save replaces exactly what its client loaded.                 *)
THEOREM NothingIsOverwritten == ASSUME FALSE \notin Bases PROVE Spec => NothingOverwritten
BY NothingIsLost, HandlersAreSerial DEF NothingOverwritten

(***************************************************************************)
(* Every step counts: a request moves on in its handler, or has one row    *)
(* less to lock; what the others wait for does not grow, because the rows  *)
(* a save creates have ids that nobody has asked for.                      *)
(***************************************************************************)
LEMMA LeftIds ==
    ASSUME Typed, NEW q \in Req PROVE \A i \in RowsLeft(q) : i \in 1..(nextId - 1) /\ nextId \in Nat
BY DEF Typed, Tables, Db, RowsLeft

LEMMA WroteNoOldRow ==
    ASSUME Typed, NEW p \in Req, Wrote(p), pc[p] = "commit",
           NEW i \in DOMAIN sheets', i \in 1..(nextId - 1)
    PROVE  i \in DOMAIN sheets
<1>1. CASE WroteSave(p)
  <2>1. DOMAIN sheets' = nextId..(nextId + Len(req[p].payload) - 1)
    BY <1>1, SavedRows DEF WroteSave
  <2>2. nextId \in Nat /\ Len(req[p].payload) \in Nat
    BY <1>1, SavedRows DEF Typed, Db, WroteSave
  <2> QED BY <2>1, <2>2
<1>2. CASE ~WroteSave(p)
  <2>1. DOMAIN sheets' = DOMAIN sheets
    BY <1>2 DEF Wrote, WroteHead, WrotePage, WroteStatus, WroteDelete
  <2> QED BY <2>1
<1> QED BY <1>1, <1>2

LEMMA OthersNoLonger ==
    ASSUME Typed, NEW p \in Req, OthersKept(p), Does(p), NEW q \in Req \ {p}
    PROVE  pc'[q] = pc[q] /\ RowsLeft(q)' \subseteq RowsLeft(q)
<1>1. pc'[q] = pc[q] /\ want'[q] = want[q]
  BY DEF OthersKept
<1>2. CASE UNCHANGED db
  BY <1>1, <1>2 DEF RowsLeft, db
<1>3. CASE Wrote(p) /\ pc[p] = "commit"
  <2>1. want[q] \subseteq 1..(nextId - 1)
    BY DEF Typed, Tables
  <2>2. \A i \in DOMAIN sheets' : i \in 1..(nextId - 1) => i \in DOMAIN sheets
    BY <1>3, WroteNoOldRow
  <2> QED BY <1>1, <2>1, <2>2 DEF RowsLeft
<1> QED BY <1>2, <1>3 DEF Does, Opened, Accepted, Advanced, ReadOn, Quit

LEMMA LockNearer ==
    ASSUME Typed, NEW p \in Req, LockRow(p) PROVE Nearer(p)
<1>1. pc[p] \in {"rows", "erase"} /\ sheets' = sheets
  BY DEF LockRow, db
<1>2. Stage[pc[p]] < Stage[AfterRows(p)]
  BY <1>1 DEF AfterRows, Stage
<1>3. DOMAIN sheets \in SUBSET Nat
  BY DEF Typed, Db, RowSets
<1>4. CASE RowsLeft(p) = {}
  <2>1. pc' = [pc EXCEPT ![p] = AfterRows(p)]
    BY <1>4 DEF LockRow, RowsLeft
  <2>2. pc'[p] = AfterRows(p)
    BY <2>1 DEF Typed, Tables
  <2> QED BY <1>2, <2>2 DEF Nearer
<1>5. CASE RowsLeft(p) # {}
  <2>1. NextRow(p) \in RowsLeft(p)
    BY <1>3, <1>5, MinNat DEF NextRow, RowsLeft
  <2>2. /\ want'[p] = RowsLeft(p) \ {NextRow(p)}
        /\ pc'[p] = IF RowsLeft(p) = {NextRow(p)} THEN AfterRows(p) ELSE pc[p]
    BY <1>5 DEF LockRow, RowsLeft, Typed, Tables
  <2>3. RowsLeft(p)' = RowsLeft(p) \ {NextRow(p)}
    BY <1>1, <2>2 DEF RowsLeft
  <2> QED BY <1>2, <2>1, <2>2, <2>3 DEF Nearer
<1> QED BY <1>4, <1>5

LEMMA MoverNearer ==
    ASSUME Typed, NEW p \in Req,
           Arrive(p) \/ StartRows(p) \/ LockRow(p) \/ LockQuote(p) \/ Read(p)
           \/ Commits(p) \/ DeadlockAbort(p) \/ Fail(p)
    PROVE  Nearer(p)
<1>1. CASE Arrive(p)
  <2>1. \/ pc[p] = "idle" /\ pc'[p] = "editing"
        \/ pc[p] \in {"idle", "editing"} /\ pc'[p] \in {"arrived", "commit", "refused"}
    BY <1>1, ArriveShape DEF Opened, Accepted
  <2> QED BY <2>1 DEF Nearer, Stage
<1>2. CASE StartRows(p) \/ LockQuote(p)
  BY <1>2 DEF StartRows, LockQuote, Nearer, Stage, Typed, Tables
<1>3. CASE LockRow(p)
  BY <1>3, LockNearer
<1>4. CASE Read(p)
  <2>1. pc[p] = "read" /\ pc'[p] \in {"commit", "erase", "refused"}
    BY <1>4, ReadShape DEF ReadOn, Read
  <2> QED BY <2>1 DEF Nearer, Stage
<1>5. CASE Commits(p)
  BY <1>5, CommitShape DEF Ended, Nearer, Stage, Final
<1>6. CASE DeadlockAbort(p) \/ Fail(p)
  <2>1. pc[p] \in InTx
    BY <1>6, CycleInTx DEF DeadlockAbort, Fail
  <2>2. pc'[p] = "failed"
    BY <1>6, AbortsShape DEF AbortShape
  <2> QED BY <2>1, <2>2 DEF InTx, Nearer, Stage
<1> QED BY <1>1, <1>2, <1>3, <1>4, <1>5, <1>6

LEMMA MoverKind ==
    ASSUME Typed, NEW p \in Req,
           Arrive(p) \/ StartRows(p) \/ LockRow(p) \/ LockQuote(p) \/ Read(p)
           \/ Commits(p) \/ DeadlockAbort(p) \/ Fail(p)
    PROVE  OthersKept(p) /\ Does(p)
<1>1. CASE Arrive(p)
  BY <1>1, ArriveShape DEF Does, Quit
<1>2. CASE StartRows(p) \/ LockRow(p) \/ LockQuote(p)
  BY <1>2, AdvanceShape DEF Does
<1>3. CASE Read(p)
  BY <1>3, ReadShape DEF Does, Quit
<1>4. CASE Commits(p)
  BY <1>4, CommitShape, CommitWrites DEF Does
<1>5. CASE DeadlockAbort(p) \/ Fail(p)
  BY <1>5, AbortsShape DEF AbortShape, Does, Quit
<1> QED BY <1>1, <1>2, <1>3, <1>4, <1>5

(* Every step takes one request nearer to its answer and sets no other     *)
(* back: no handler starts over, and a save that deletes and recreates the *)
(* rows gives nobody who waits more rows to wait for.                      *)
THEOREM StepsCount == Spec => EveryStepCounts
<1>1. Typed /\ [Next]_vars => [StepCounts]_vars
  <2> SUFFICES ASSUME Typed, Next, ~UNCHANGED vars PROVE StepCounts
    OBVIOUS
  <2>1. PICK p \in Req : Arrive(p) \/ StartRows(p) \/ LockRow(p) \/ LockQuote(p) \/ Read(p)
                         \/ Commits(p) \/ DeadlockAbort(p) \/ Fail(p)
    BY NextShape
  <2>2. Nearer(p) /\ OthersKept(p) /\ Does(p)
    BY <2>1, MoverNearer, MoverKind
  <2> QED BY <2>2, OthersNoLonger DEF StepCounts
<1> QED BY <1>1, TypedInvariant, PTL DEF Spec, EveryStepCounts

(***************************************************************************)
(* Lock cycles of any number of requests.  Whoever waits for a row holds   *)
(* only rows of lower ids, so the waits for rows go up and do not close.   *)
(* What closes a circle is the Quote row: a save holds it, and such a save *)
(* waits for a row only to erase those that were made under its feet.      *)
(***************************************************************************)
QueuesOn(p) ==
    /\ pc[p] = "rows" => \A x \in held[p], y \in want[p] : x < y
    /\ req[p].kind = "sign" => pc[p] = "commit" /\ held[p] = {}
    /\ pc[p] = "erase" \/ (pc[p] = "read" /\ req[p].kind = "save") => quoteLock = p
    /\ quoteLock = p => req[p].kind = "save"
Queues == \A p \in Req : QueuesOn(p)

LEMMA InitQueues == Init => Queues
BY DataAssumption DEF Init, Queues, QueuesOn, NoRequest

(* A signature is written at once: it takes no row before.                 *)
LEMMA SignsAtOnce ==
    ASSUME Typed, NEW p \in Req, Arrive(p), req'[p].kind = "sign"
    PROVE  pc'[p] = "commit"
<1>1. NoRequest.kind = "none"
  BY DEF NoRequest
<1>2. ASSUME NEW r, NEW allowed, NEW phase, Submit(p, r, allowed, phase)
      PROVE  r.kind = "sign" /\ pc'[p] = phase
  <2>1. CASE allowed /\ ~quote.deleted
    <3>1. req'[p] = r /\ pc'[p] = phase
      BY <1>2, <2>1 DEF Submit, Typed, Tables
    <3> QED BY <3>1
  <2>2. CASE ~(allowed /\ ~quote.deleted)
    <3>1. req'[p] = NoRequest
      BY <1>2, <2>2 DEF Submit, RollBack, Finish, Typed, Tables
    <3> QED BY <1>1, <3>1
  <2> QED BY <2>1, <2>2
<1>3. CASE Load(p)
  <2>1. PICK b \in Bases : req' = [req EXCEPT
            ![p] = [NoRequest EXCEPT !.base = IF b THEN quote.updatedAt ELSE NoBase]]
    BY <1>3 DEF Load
  <2> QED BY <2>1 DEF Typed, Tables, NoRequest
<1>4. ASSUME NEW kind, NEW values, NEW allowed \in BOOLEAN, NEW phase,
             OnePage(p, kind, values, allowed, phase)
      PROVE  kind = "sign" /\ pc'[p] = phase
  <2>1. PICK i \in DOMAIN sheets, v \in values :
         Submit(p, [NoRequest EXCEPT !.kind = kind, !.target = i, !.value = v], allowed, phase)
    BY <1>4 DEF OnePage
  <2> PICK r : r = [NoRequest EXCEPT !.kind = kind, !.target = i, !.value = v]
    OBVIOUS
  <2>2. r.kind = kind
    BY DEF NoRequest
  <2> QED BY <1>2, <2>1, <2>2
<1>5. CASE ArriveDecide(p) \/ ArriveInvoice(p) \/ ArriveSign(p)
  <2>1. ASSUME NEW kind, NEW values, NEW allowed \in BOOLEAN, NEW phase, kind # "sign"
        PROVE  ~OnePage(p, kind, values, allowed, phase)
    BY <1>4, <2>1
  <2>3. ~ArriveDecide(p) /\ ~ArriveInvoice(p)
    BY <2>1 DEF ArriveDecide, ArriveInvoice
  <2>2. ArriveSign(p)
    BY <1>5, <2>3
  <2>4. PICK i \in DOMAIN sheets, v \in {"set", "clear"} :
         Submit(p, [NoRequest EXCEPT !.kind = "sign", !.target = i, !.value = v],
                quote.status = "converted", "commit")
    BY <2>2 DEF ArriveSign, OnePage
  <2>5. pc'[p] = "commit"
    BY <1>2, <2>4
  <2> QED BY <2>5
<1>6. ASSUME NEW kind, NEW phase, WholeQuote(p, kind, phase) PROVE kind = "sign"
  <2>1. Submit(p, [NoRequest EXCEPT !.kind = kind], quote.status \notin Terminal, phase)
    BY <1>6 DEF WholeQuote
  <2>2. [NoRequest EXCEPT !.kind = kind].kind = kind
    BY DEF NoRequest
  <2> QED BY <1>2, <2>1, <2>2
<1>7. CASE ArriveConvert(p) \/ ArriveLost(p)
  BY <1>6, <1>7 DEF ArriveConvert, ArriveLost
<1>8. CASE ArriveDelete(p)
  <2>1. PICK s \in Senders :
          Submit(p, [NoRequest EXCEPT !.kind = "delete", !.right = s], MayDelete(s), "commit")
    BY <1>8 DEF ArriveDelete
  <2>2. [NoRequest EXCEPT !.kind = "delete", !.right = s].kind = "delete"
    BY DEF NoRequest
  <2> QED BY <1>2, <2>1, <2>2
<1>9. CASE ArriveSave(p)
  <2>1. PICK e \in Edits, price \in Prices, v \in VatEdits, n \in Renumbers, s \in Senders :
         LET r == [req[p] EXCEPT !.kind = "save", !.vat = v, !.renumber = n, !.right = s,
                    !.payload = PayloadOf(e, loaded[p].pages, price)]
         IN Submit(p, r, CanEdit(s) /\ BaseMatches(r), "arrived")
    BY <1>9 DEF ArriveSave
  <2> DEFINE r == [req[p] EXCEPT !.kind = "save", !.vat = v, !.renumber = n, !.right = s,
                    !.payload = PayloadOf(e, loaded[p].pages, price)]
  <2>2. r.kind = "save"
    BY DEF Typed, Tables, Requests
  <2>3. Submit(p, r, CanEdit(s) /\ BaseMatches(r), "arrived")
    BY <2>1
  <2> HIDE DEF r
  <2> QED BY <1>2, <2>2, <2>3
<1>10. CASE ArriveHead(p)
  <2>1. PICK v \in VatEdits, s \in Senders :
         LET r == [req[p] EXCEPT !.kind = "head", !.vat = v, !.right = s]
         IN Submit(p, r, CanEdit(s) /\ BaseMatches(r), IF v = Keep THEN "commit" ELSE "arrived")
    BY <1>10 DEF ArriveHead
  <2> DEFINE r == [req[p] EXCEPT !.kind = "head", !.vat = v, !.right = s]
             phase == IF v = Keep THEN "commit" ELSE "arrived"
  <2>2. r.kind = "head"
    BY DEF Typed, Tables, Requests
  <2>3. Submit(p, r, CanEdit(s) /\ BaseMatches(r), phase)
    BY <2>1
  <2> HIDE DEF r, phase
  <2> QED BY <1>2, <2>2, <2>3
<1> QED BY <1>3, <1>5, <1>7, <1>8, <1>9, <1>10 DEF Arrive

LEMMA LockQueues ==
    ASSUME Typed, LocksExclusive, NEW p \in Req, QueuesOn(p),
           StartRows(p) \/ LockRow(p) \/ LockQuote(p)
    PROVE  QueuesOn(p)' /\ quoteLock' \in {quoteLock, p} /\ (quoteLock' # quoteLock => quoteLock = NoReq)
<1>1. req' = req
  BY DEF StartRows, LockRow, LockQuote, local
<1>2. CASE StartRows(p)
  <2>1. pc'[p] = "rows" /\ held' = held /\ quoteLock' = quoteLock /\ pc[p] = "arrived"
    BY <1>2 DEF StartRows, Typed, Tables
  <2>2. held[p] = {}
    BY <2>1 DEF LocksExclusive, InTx
  <2> QED BY <1>1, <2>1, <2>2 DEF QueuesOn
<1>3. CASE LockQuote(p)
  <2>1. pc'[p] = "read" /\ held' = held /\ quoteLock' = p /\ pc[p] = "quote" /\ quoteLock = NoReq
    BY <1>3 DEF LockQuote, Typed, Tables
  <2>2. req[p].kind = "save"
    BY <2>1 DEF Typed, Phases, PhaseOK
  <2> QED BY <1>1, <2>1, <2>2 DEF QueuesOn
<1>4. CASE LockRow(p)
  <2> DEFINE rest == want[p] \cap DOMAIN sheets
             i == NextRow(p)
  <2>1. pc[p] \in {"rows", "erase"} /\ quoteLock' = quoteLock
    BY <1>4 DEF LockRow
  <2>2. pc'[p] \in {pc[p], AfterRows(p)}
    <3>1. \/ pc' = [pc EXCEPT ![p] = AfterRows(p)]
          \/ pc' = [pc EXCEPT ![p] = pc[p]]
      BY <1>4 DEF LockRow
    <3> QED BY <3>1 DEF Typed, Tables
  <2>3. req[p].kind # "sign"
    BY <2>1 DEF QueuesOn
  <2>4. pc'[p] = "read" => req[p].kind # "save"
    <3>1. pc[p] = "erase" => req[p].kind = "save"
      BY DEF Typed, Phases, PhaseOK
    <3> QED BY <2>1, <2>2, <3>1 DEF AfterRows
  <2>5. pc'[p] = "erase" => pc[p] = "erase"
    BY <2>1, <2>2 DEF AfterRows
  <2>6. ASSUME pc'[p] = "rows", NEW x \in held'[p], NEW y \in want'[p] PROVE x < y
    <3>1. pc[p] = "rows"
      BY <2>1, <2>2, <2>6 DEF AfterRows
    <3>2. CASE rest = {}
      <4>1. want'[p] = {}
        BY <1>4, <3>2 DEF LockRow, Typed, Tables
      <4> QED BY <2>6, <4>1
    <3>3. CASE rest # {}
      <4>1. held'[p] = held[p] \cup {i} /\ want'[p] = rest \ {i}
        BY <1>4, <3>3 DEF LockRow, Typed, Tables
      <4>2. rest \in SUBSET Nat
        BY DEF Typed, Tables, Db
      <4>3. i \in rest /\ \A z \in rest : i =< z
        <5> HIDE DEF rest
        <5>1. Min(rest) \in rest /\ \A z \in rest : Min(rest) =< z
          BY <3>3, <4>2, MinNat
        <5> QED BY <5>1 DEF NextRow, rest
      <4> HIDE DEF i
      <4>4. CASE x = i
        BY <2>6, <4>1, <4>2, <4>3, <4>4
      <4>5. CASE x \in held[p]
        BY <2>6, <3>1, <4>1, <4>5 DEF QueuesOn
      <4> QED BY <2>6, <4>1, <4>4, <4>5
    <3> QED BY <3>2, <3>3
  <2> QED BY <1>1, <2>1, <2>3, <2>4, <2>5, <2>6 DEF QueuesOn
<1> QED BY <1>2, <1>3, <1>4

LEMMA NextQueues == Typed /\ LocksExclusive /\ Queues /\ [Next]_vars => Queues'
<1> SUFFICES ASSUME Typed, LocksExclusive, Queues, [Next]_vars PROVE Queues'
  OBVIOUS
<1>1. CASE UNCHANGED vars
  BY <1>1 DEF vars, locks, local, Queues, QueuesOn
<1>2. ASSUME NEW p \in Req, OthersKept(p), QueuesOn(p)',
             \/ quoteLock' = quoteLock
             \/ quoteLock \in {p, NoReq} /\ quoteLock' \in {p, NoReq}
      PROVE  Queues'
  <2>1. ASSUME NEW q \in Req \ {p} PROVE QueuesOn(q)'
    <3>1. quoteLock' = q <=> quoteLock = q
      BY <1>2, DataAssumption
    <3> QED BY <1>2, <2>1, <3>1 DEF OthersKept, Queues, QueuesOn
  <2> QED BY <1>2, <2>1 DEF Queues
<1>3. ASSUME NEW p \in Req, OthersKept(p), Ended(p) PROVE Queues'
  <2>1. quoteLock' # p
    BY <1>3, DataAssumption DEF Ended
  <2>2. QueuesOn(p)'
    BY <1>3, <2>1 DEF Ended, Final, QueuesOn, NoRequest
  <2> QED BY <1>2, <1>3, <2>2 DEF Ended
<1>4. ASSUME NEW p \in Req, Arrive(p) PROVE Queues'
  <2>1. OthersKept(p) /\ pc[p] \in {"idle", "editing"}
    BY <1>4, ArriveShape
  <2>2. quoteLock # p /\ held[p] = {}
    BY <2>1 DEF LocksExclusive, InTx
  <2>3. CASE Opened(p) \/ Accepted(p)
    <3>1. /\ quoteLock' = quoteLock /\ held' = held /\ pc'[p] \in {"editing", "arrived", "commit"}
          /\ Opened(p) => req'[p].kind = "none"
      BY <2>3 DEF Opened, Accepted, locks
    <3>2. req'[p].kind = "sign" => pc'[p] = "commit"
      BY <1>4, SignsAtOnce
    <3>3. QueuesOn(p)'
      BY <2>2, <3>1, <3>2 DEF QueuesOn
    <3> QED BY <1>2, <2>1, <3>1, <3>3
  <2> QED BY <1>3, <1>4, <2>1, <2>3, ArriveShape
<1>5. ASSUME NEW p \in Req, StartRows(p) \/ LockRow(p) \/ LockQuote(p) PROVE Queues'
  <2>1. OthersKept(p)
    BY <1>5, AdvanceShape
  <2>2. QueuesOn(p)' /\ quoteLock' \in {quoteLock, p} /\ (quoteLock' # quoteLock => quoteLock = NoReq)
    BY <1>5, LockQueues DEF Queues
  <2> QED BY <1>2, <2>1, <2>2
<1>6. ASSUME NEW p \in Req, Read(p) PROVE Queues'
  <2>1. OthersKept(p)
    BY <1>6, ReadShape
  <2>2. CASE ReadOn(p)
    <3>1. /\ quoteLock' = quoteLock /\ held' = held /\ req' = req /\ pc[p] = "read"
          /\ pc'[p] \in {"erase", "commit"} /\ QueuesOn(p)
      BY <2>2 DEF ReadOn, Queues
    <3>2. req[p].kind # "save" => pc'[p] = "commit"
      BY <1>6, <2>2 DEF Read, ReadOn, Typed, Tables
    <3>3. QueuesOn(p)'
      BY <3>1, <3>2 DEF QueuesOn
    <3> QED BY <1>2, <2>1, <3>1, <3>3
  <2> QED BY <1>3, <1>6, <2>1, <2>2, ReadShape
<1>7. ASSUME NEW p \in Req, Commits(p) \/ DeadlockAbort(p) \/ Fail(p) PROVE Queues'
  BY <1>3, <1>7, CommitShape, AbortsShape DEF AbortShape
<1> QED BY <1>1, <1>4, <1>5, <1>6, <1>7, NextShape

LEMMA QueuesInvariant == Spec => []Queues
BY TypedInvariant, LocksAreExclusive, InitQueues, NextQueues, PTL DEF Spec

(* Rows are replaced by a save that is answered "ok".                      *)
SaveAnswered == Replaced => \E p \in Req : pc[p] = "ok"

LEMMA NextSaveAnswered == Typed /\ SaveAnswered /\ [Next]_vars => SaveAnswered'
<1> SUFFICES ASSUME Typed, SaveAnswered, [Next]_vars PROVE SaveAnswered'
  OBVIOUS
<1>1. CASE UNCHANGED vars
  BY <1>1 DEF vars, db, SaveAnswered, Replaced
<1>2. CASE ~UNCHANGED vars
  <2>1. PICK p \in Req : OthersKept(p) /\ Does(p) /\ Nearer(p)
    <3>1. PICK p \in Req : Arrive(p) \/ StartRows(p) \/ LockRow(p) \/ LockQuote(p) \/ Read(p)
                           \/ Commits(p) \/ DeadlockAbort(p) \/ Fail(p)
      BY <1>2, NextShape
    <3> QED BY <3>1, MoverNearer, MoverKind
  <2>2. CASE nextId' = nextId
    <3>1. pc[p] = "ok" => pc'[p] = "ok"
      <4>1. CASE Quit(p)
        BY <2>1, <4>1 DEF Quit, Nearer, Stage
      <4> QED BY <2>1, <4>1 DEF Does, Opened, Accepted, Advanced, ReadOn, InTx
    <3>2. \A q \in Req \ {p} : pc'[q] = pc[q]
      BY <2>1 DEF OthersKept
    <3> QED BY <2>2, <3>1, <3>2 DEF SaveAnswered, Replaced
  <2>3. CASE nextId' # nextId
    <3>1. pc'[p] = "ok"
      BY <2>1, <2>3 DEF Does, Opened, Accepted, Advanced, ReadOn, Quit, db
    <3> QED BY <3>1 DEF SaveAnswered
  <2> QED BY <2>2, <2>3
<1> QED BY <1>1, <1>2

LEMMA SaveAnsweredInvariant == Spec => []SaveAnswered
<1>1. Init => SaveAnswered
  BY DEF Init, SaveAnswered, Replaced
<1> QED BY <1>1, NextSaveAnswered, TypedInvariant, PTL DEF Spec

(* What a request in a circle waits for, and what it holds.                *)
LEMMA CircleWaits ==
    ASSUME Typed, QuoteLast, Queues, NEW q \in Req, NEW r \in Blocker(q)
    PROVE  /\ r \in Req /\ pc[q] \in InTx
           /\ held[r] # {} \/ quoteLock = r
           /\ \/ quoteLock = r
              \/ /\ pc[q] \in {"rows", "erase"} /\ NextRow(q) \in held[r]
                 /\ NextRow(q) \in want[q]
              \/ req[q].kind = "sign"
<1> DEFINE rest == want[q] \cap DOMAIN sheets
<1>1. /\ r \in Req
      /\ \/ pc[q] \in {"rows", "erase"} /\ rest # {} /\ NextRow(q) \in held[r]
         \/ pc[q] = "commit" /\ req[q].kind = "sign" /\ held[r] # {}
         \/ pc[q] \in {"quote", "commit"} /\ quoteLock = r
  BY DEF Blocker
<1>2. ASSUME rest # {} PROVE NextRow(q) \in want[q]
  <2>1. rest \in SUBSET Nat
    BY DEF Typed, Tables
  <2> HIDE DEF rest
  <2>2. Min(rest) \in rest
    BY <1>2, <2>1, MinNat
  <2> QED BY <2>2 DEF NextRow, rest
<1> HIDE DEF rest
<1> QED BY <1>1, <1>2 DEF InTx

(* Who holds the Quote row and waits is a save that erases.                *)
LEMMA HolderErases ==
    ASSUME QuoteLast, Queues, NEW r \in Req, quoteLock = r, Blocker(r) # {}
    PROVE  pc[r] = "erase"
<1>1. req[r].kind = "save" /\ pc[r] \in {"read", "erase", "commit"}
  BY DEF QuoteLast, Queues, QueuesOn
<1>2. CASE pc[r] \in {"read", "commit"}
  BY <1>1, <1>2 DEF Blocker
<1> QED BY <1>1, <1>2

LEMMA CircleErases ==
    ASSUME Typed, QuoteLast, Queues, NEW S \in SUBSET Req, S # {}, WaitInCircle(S)
    PROVE  \E q \in S : pc[q] = "erase" /\ quoteLock = q
<1> SUFFICES ASSUME \A q \in S : ~(pc[q] = "erase" /\ quoteLock = q) PROVE FALSE
  OBVIOUS
<1>1. \A q \in S : quoteLock # q
  BY HolderErases DEF WaitInCircle
<1>2. \A q \in S : pc[q] # "erase" /\ req[q].kind # "sign"
  <2>1. ASSUME NEW q \in S PROVE pc[q] # "erase"
    BY <1>1 DEF Queues, QueuesOn
  <2>2. ASSUME NEW q \in S PROVE held[q] # {}
    <3>1. PICK r \in S : q \in Blocker(r)
      BY DEF WaitInCircle
    <3> QED BY <1>1, <3>1, CircleWaits
  <2> QED BY <2>1, <2>2 DEF Queues, QueuesOn
<1>3. ASSUME NEW q \in S
      PROVE  /\ pc[q] = "rows" /\ NextRow(q) \in want[q]
             /\ \E r \in S : NextRow(q) \in held[r]
  <2>1. PICK r \in S : r \in Blocker(q)
    BY DEF WaitInCircle
  <2> QED BY <1>1, <1>2, <2>1, CircleWaits
<1> DEFINE T == {NextRow(q) : q \in S}
<1>4. T \in SUBSET (1..(nextId - 1)) /\ T # {} /\ nextId \in Nat
  BY <1>3 DEF Typed, Tables, Db
<1>5. T \in SUBSET Nat /\ IsFiniteSet(T)
  <2>1. IsFiniteSet(1..(nextId - 1))
    BY <1>4, FS_Interval
  <2> HIDE DEF T
  <2>2. IsFiniteSet(T)
    BY <1>4, <2>1, FS_Subset
  <2>3. T \in SUBSET Nat
    BY <1>4
  <2> QED BY <2>2, <2>3
<1>6. Max(T) \in T /\ \A y \in T : Max(T) >= y
  <2> HIDE DEF T
  <2> QED BY <1>4, <1>5, MaxNat
<1>7. PICK q \in S : NextRow(q) = Max(T)
  BY <1>6
<1>8. PICK r \in S : NextRow(q) \in held[r]
  BY <1>3
<1>9. NextRow(q) < NextRow(r)
  BY <1>3, <1>8 DEF Queues, QueuesOn
<1>10. NextRow(r) \in T
  OBVIOUS
<1>11. NextRow(q) \in Nat /\ NextRow(r) \in Nat
  BY <1>5
<1> HIDE DEF T
<1> QED BY <1>6, <1>7, <1>9, <1>10, <1>11

(* However many requests there are, with or without a base: a circle of    *)
(* waits has in it a save that holds Quote and erases rows, and outside of *)
(* it a request answered before, the save that made those rows.            *)
THEOREM CyclesAreErasing == Spec => []CyclesNeedErase
<1>1. ASSUME Typed, QuoteLast, Queues, Ordered, SaveAnswered PROVE CyclesNeedErase
  <2> SUFFICES ASSUME NEW S \in SUBSET Req, S # {}, WaitInCircle(S)
               PROVE  /\ \E q \in S : pc[q] = "erase" /\ quoteLock = q
                      /\ \E q \in Req \ S : pc[q] = "ok"
    BY DEF CyclesNeedErase
  <2>1. PICK q \in S : pc[q] = "erase" /\ quoteLock = q
    BY <1>1, CircleErases
  <2>2. PICK p \in Req : pc[p] = "ok"
    BY <1>1, <2>1 DEF Ordered, OrderedOn, SaveAnswered
  <2>3. p \notin S
    <3>1. ASSUME p \in S PROVE FALSE
      <4>1. PICK r \in S : r \in Blocker(p)
        BY <3>1 DEF WaitInCircle
      <4>2. pc[p] \in InTx
        BY <1>1, <4>1, CircleWaits
      <4> QED BY <2>2, <4>2 DEF InTx
    <3> QED BY <3>1
  <2> QED BY <2>1, <2>2, <2>3
<1> QED BY <1>1, TypedInvariant, QuoteLastInvariant, QueuesInvariant, OrderedInvariant,
           SaveAnsweredInvariant, PTL

(* Until a save has replaced the rows no requests wait for each other,     *)
(* however many there are, with or without a base.                         *)
THEOREM NoCycleBeforeSave == Spec => [](~Replaced => NoLockCycle)
<1>1. CyclesNeedErase /\ Ordered => (~Replaced => NoLockCycle)
  <2> SUFFICES ASSUME CyclesNeedErase, Ordered, ~Replaced, NEW p \in Req, InLockCycle(p)
               PROVE  FALSE
    BY DEF NoLockCycle
  <2>1. PICK S \in SUBSET Req : p \in S /\ WaitInCircle(S)
    BY DEF InLockCycle
  <2>2. \E q \in S : pc[q] = "erase"
    BY <2>1 DEF CyclesNeedErase
  <2> QED BY <2>2 DEF Ordered, OrderedOn
<1> QED BY <1>1, CyclesAreErasing, OrderedInvariant, PTL

(* Two requests never wait for each other, whatever they are.              *)
THEOREM PairsDoNotWait ==
    ASSUME NEW a, NEW b, Req = {a, b} PROVE Spec => []NoLockCycle
<1>1. CyclesNeedErase => NoLockCycle
  <2> SUFFICES ASSUME CyclesNeedErase, NEW p \in Req, InLockCycle(p) PROVE FALSE
    BY DEF NoLockCycle
  <2>1. PICK S \in SUBSET Req : p \in S /\ WaitInCircle(S)
    BY DEF InLockCycle
  <2>2. PICK q \in S : q \in Blocker(p)
    BY <2>1 DEF WaitInCircle
  <2>3. q # p
    BY <2>2 DEF Blocker
  <2>4. Req \ S = {}
    BY <2>1, <2>2, <2>3
  <2> QED BY <2>1, <2>4 DEF CyclesNeedErase
<1> QED BY <1>1, CyclesAreErasing, PTL

(* The locks of any two requests: no row is held twice, they never wait    *)
(* for each other, and every step counts.                                  *)
THEOREM LocksOfPairs ==
    ASSUME NEW a, NEW b, Req = {a, b} PROVE Spec => LocksWork
<1>1. Spec => []NoLockCycle
  BY PairsDoNotWait
<1> QED BY <1>1, LocksAreExclusive, StepsCount DEF LocksWork

=============================================================================
