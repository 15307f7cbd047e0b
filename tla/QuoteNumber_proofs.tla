-------------------------- MODULE QuoteNumber_proofs --------------------------
(***************************************************************************)
(* What holds of QuoteNumber for any number of calls, of any kinds, with   *)
(* any numbers typed, any quotes migrated and any years.                   *)
(***************************************************************************)
EXTENDS QuoteNumber, FiniteSetTheorems, WellFoundedInduction, TLAPS

USE NumberAssumption

(***************************************************************************)
(* The inductive invariant.                                                *)
(***************************************************************************)

Underway == InTx \cup {"again"}
KeyOf(v) == <<v[1], v[2]>>

\* Shapes of the variables.  Rows and values met are finitely many.
Typed ==
    /\ year \in Years
    /\ counter \in [Keys -> Nat]
    /\ lock \in [Keys -> Reqs \cup {None}]
    /\ quotes \subseteq QuoteRow /\ IsFiniteSet(quotes)
    /\ pc \in [Reqs -> Ended \cup Underway]
    /\ req \in [Reqs -> Request]
    /\ own = [r \in Reqs |-> own[r]]
    /\ \A r \in Reqs : /\ own[r] = [k \in DOMAIN own[r] |-> own[r][k]]
                       /\ DOMAIN own[r] \subseteq Keys
                       /\ \A k \in DOMAIN own[r] : own[r][k] \in Nat
    /\ todo \in [Reqs -> SUBSET {"number", "code"}]
    /\ lost \in [Reqs -> BOOLEAN]
    /\ hits \in [Reqs -> SUBSET ((Numbers \cup Codes) \X (Nat \ {0}))]
    /\ \A r \in Reqs : IsFiniteSet(hits[r])
    /\ blind \subseteq given /\ given \subseteq Numbers \cup Codes

\* Who has written a counter row holds it, and nobody else does.
LocksFollow ==
    \A r \in Reqs, k \in Keys : k \in DOMAIN own[r] <=> lock[k] = r

\* What the quotes carry was given, and the counters know what was given
\* unless it is blind.
GivenKnown ==
    /\ \A q \in quotes : q.num \in given /\ (q.code # None => q.code \in given)
    /\ \A g \in given \ blind : counter[KeyOf(g)] >= g[3]

\* What a call carries, by its kind.
Carries(c) ==
    /\ c.prefix \in Prefixes
    /\ c.owner # None => c.kind \in {"create", "copy"}
    /\ c.manual # None => c.kind \in {"create", "renumber"}
    /\ c.kind = "renumber" => c.manual # None /\ c.code = None
    /\ IF c.kind = "version" THEN c.base # None /\ c.baseVer > 0 ELSE c.ver = 1
    /\ c.kind \in {"create", "copy"} => c.base = None
    /\ c.base # None => c.base \in given

\* A call before it begins has met nothing; one that goes on may try again.
CallShape(r) ==
    /\ pc[r] = "idle" => hits[r] = {} /\ ~lost[r]
    /\ pc[r] \in Underway => Carries(req[r])
    /\ pc[r] = "again" => req[r].attempt < MaxTries - 1
    /\ pc[r] = "code" => req[r].kind # "renumber"
    /\ pc[r] \notin {"code", "write"} => own[r] = <<>>

\* The number of a call: typed, or made in the year asked for or a later one.
Numbered(r) ==
    /\ pc[r] = "upsert" => req[r].manual = None /\ req[r].askedYear \in Years
                           /\ req[r].askedYear <= year
    /\ pc[r] \in {"code", "write", "again"} =>
         /\ req[r].num \in Numbers
         /\ req[r].manual # None => req[r].num = req[r].manual
         /\ req[r].manual = None =>
              /\ req[r].askedYear \in Years /\ req[r].num[1] = req[r].prefix
              /\ req[r].askedYear <= req[r].num[2] /\ req[r].num[2] <= year

\* The code of a call: made for its owner, or the base it versions.
Coded(r) ==
    pc[r] \in {"write", "again"} /\ req[r].kind # "renumber" =>
        IF req[r].owner # None
        THEN req[r].code \in Codes /\ req[r].code[1] = req[r].owner
        ELSE req[r].code = req[r].base /\ (req[r].kind = "version" => req[r].ver > 1)

\* What the transaction will write to the counters: never less than is there;
\* the number it made, which is new to its counter, or the one it follows; the
\* code it made; and nothing else of the numbers.
Writes(r) ==
    pc[r] \in {"code", "write"} =>
        /\ \A k \in DOMAIN own[r] : own[r][k] >= counter[k]
        /\ req[r].manual = None =>
             LET k == <<req[r].prefix, req[r].askedYear>> IN
             /\ k \in DOMAIN own[r]
             /\ own[r][k] = req[r].num[3] /\ req[r].num[3] > counter[k]
        /\ req[r].manual # None /\ req[r].followed =>
             /\ KeyOf(req[r].num) \in DOMAIN own[r]
             /\ own[r][KeyOf(req[r].num)] >= req[r].num[3]
        /\ pc[r] = "write" /\ req[r].owner # None =>
             /\ KeyOf(req[r].code) \in DOMAIN own[r]
             /\ own[r][KeyOf(req[r].code)] = req[r].code[3]
             /\ req[r].code[3] > counter[KeyOf(req[r].code)]
        /\ \A k \in DOMAIN own[r] : k[1] \in Prefixes =>
             \/ own[r][k] = counter[k]
             \/ /\ own[r][k] = req[r].num[3] /\ k[1] = req[r].num[1]
                /\ \/ k[2] = req[r].num[2] /\ (req[r].manual = None \/ req[r].followed)
                   \/ /\ req[r].manual = None
                      /\ k[2] = req[r].askedYear /\ k[2] < req[r].num[2]

\* A number still to be recorded is taken by somebody; a code may be free.
Recording(r) ==
    pc[r] = "again" =>
        /\ "number" \in todo[r] => req[r].manual = None /\ req[r].num \in given
        /\ "code" \in todo[r] => req[r].owner # None

\* A number made in year y or later does not meet what was met of number h.
Behind(h, y) == h[2] < y \/ (h[2] = y /\ counter[KeyOf(h)] >= h[3])

\* A value met is a number, a code made for the owner, or a version of the base.
MetNumber(r, h) == h[2] = 1 /\ h[1] \in Numbers /\ req[r].manual = None
MetCode(r, h) ==
    /\ h[2] = 1 /\ h[1] \in Codes
    /\ req[r].owner # None /\ h[1][1] = req[r].owner
MetVersion(r, h) ==
    /\ h[2] > 1 /\ req[r].kind = "version" /\ h[1] = req[r].base
    /\ \E q \in quotes : q.code = h[1] /\ q.ver = h[2]

\* The number, the code or the version to come is none of those met before,
\* unless the record of one was lost.
NumbersPassed(r) ==
    \A h \in hits[r] : h[2] = 1 /\ h[1] \in Numbers =>
        /\ pc[r] \in {"number", "code", "write"} => Behind(h[1], year)
        /\ pc[r] = "upsert" => Behind(h[1], req[r].askedYear)
        /\ pc[r] \in {"code", "write"} => h[1] # req[r].num
        /\ pc[r] = "again" => Behind(h[1], year) \/ (h[1] = req[r].num /\ "number" \in todo[r])

CodesPassed(r) ==
    \A h \in hits[r] : h[2] = 1 /\ h[1] \in Codes =>
        /\ pc[r] \in InTx => counter[KeyOf(h[1])] >= h[1][3]
        /\ pc[r] = "write" => h[1] # req[r].code
        /\ pc[r] = "again" => \/ counter[KeyOf(h[1])] >= h[1][3]
                              \/ h[1] = req[r].code /\ "code" \in todo[r]

VersionsPassed(r) ==
    \A h \in hits[r] : h[2] > 1 /\ pc[r] = "write" => h[2] < req[r].ver

Passed(r) ==
    pc[r] \in Underway /\ ~lost[r] =>
        /\ \A h \in hits[r] : MetNumber(r, h) \/ MetCode(r, h) \/ MetVersion(r, h)
        /\ NumbersPassed(r) /\ CodesPassed(r) /\ VersionsPassed(r)

\* The parts of EachTryMeetsAnother and OnlyBlindCollisions that are of one call.
MeetsAnother(r) ==
    ~lost[r] => /\ pc[r] \in InTx => Cardinality(hits[r]) = req[r].attempt
                /\ pc[r] \in {"again", "conflict"} =>
                       Cardinality(hits[r]) = req[r].attempt + 1
MeetsBlind(r) ==
    year = Min(Years) => \A h \in hits[r] :
        h[1] \in blind \/ h[1] = req[r].manual \/ h[2] > 1

\* What is so of one call.
Orderly(r) ==
    /\ CallShape(r)
    /\ Numbered(r)
    /\ Coded(r)
    /\ Writes(r)
    /\ Recording(r)
    /\ Passed(r)
    /\ MeetsAnother(r)
    /\ MeetsBlind(r)

IInv ==
    /\ Typed
    /\ LocksFollow
    /\ GivenKnown
    /\ NumberNotBurnt
    /\ \A r \in Reqs : Orderly(r)

-----------------------------------------------------------------------------
(***************************************************************************)
(* Numbers, codes and sets of numbers.                                     *)
(***************************************************************************)

LEMMA SmallestNat ==
    ASSUME NEW T, T \subseteq Nat, T # {}
    PROVE  \E x \in T : \A y \in T : x =< y
<1> DEFINE R == {ss \in Nat \X Nat : ss[1] < ss[2]}
<1>1. IsWellFoundedOn(R, Nat)
  BY NatLessThanWellFounded DEF OpToRel
<1>2. \A a, b \in Nat : a < b => <<a, b>> \in R
  OBVIOUS
<1> HIDE DEF R
<1>3. PICK x \in T : \A y \in T : <<y, x>> \notin R
  BY <1>1, WFMin, Zenon
<1>4. ASSUME NEW y \in T PROVE x =< y
  <2>1. x \in Nat /\ y \in Nat
    OBVIOUS
  <2>2. ~ (y < x)
    BY <2>1, <1>2, <1>3, Zenon
  <2> QED BY <2>1, <2>2
<1> QED BY <1>4

\* A finite set of numbers has a largest one: the least size of a set without
\* one is no size.
LEMMA LargestNat ==
    ASSUME NEW S \in SUBSET Nat, IsFiniteSet(S), S # {}
    PROVE  Max(S) \in S /\ \A y \in S : Max(S) >= y
<1> DEFINE HasMax(A) == \E x \in A : \A y \in A : x >= y
           Without(A) == IsFiniteSet(A) /\ A # {} /\ ~HasMax(A)
           Sizes == {n \in Nat : \E A \in SUBSET Nat : Without(A) /\ Cardinality(A) = n}
<1>1. HasMax(S)
  <2> SUFFICES ASSUME ~HasMax(S) PROVE FALSE
    OBVIOUS
  <2>1. Cardinality(S) \in Sizes
    BY FS_CardinalityType
  <2>2. PICK n \in Sizes : \A m \in Sizes : n =< m
    BY <2>1, SmallestNat
  <2>3. PICK A \in SUBSET Nat : Without(A) /\ Cardinality(A) = n
    OBVIOUS
  <2>4. PICK x \in A : TRUE
    BY <2>3
  <2>5. /\ IsFiniteSet(A \ {x}) /\ Cardinality(A \ {x}) = n - 1
        /\ Cardinality(A \ {x}) \in Nat
    BY <2>3, <2>4, FS_RemoveElement, FS_CardinalityType
  <2>6. CASE A \ {x} = {}
    <3>1. HasMax(A)
      BY <2>4, <2>6
    <3> QED BY <3>1, <2>3
  <2>7. CASE A \ {x} # {}
    <3>1. n - 1 \notin Sizes
      BY <2>2
    <3>2. PICK m \in A \ {x} : \A y \in A \ {x} : m >= y
      BY <3>1, <2>5, <2>7
    <3>3. HasMax(A)
      BY <3>2, <2>4
    <3> QED BY <3>3, <2>3
  <2> QED BY <2>6, <2>7
<1> QED BY <1>1, Zenon DEF Max

\* The first year.
LEMMA FirstYear == Min(Years) \in Years /\ \A y \in Years : Min(Years) =< y
<1>1. \E x \in Years : \A y \in Years : x =< y
  BY SmallestNat
<1> QED BY <1>1, Zenon DEF Min

\* A number and a code are different, and each has its counter.
LEMMA Shape ==
    ASSUME NEW v \in Numbers \cup Codes
    PROVE  /\ v = <<v[1], v[2], v[3]>> /\ v[2] \in Years /\ v[3] \in Nat \ {0}
           /\ KeyOf(v) \in Keys /\ KeyOf(v) = <<v[1], v[2]>>
           /\ v \in Numbers <=> v[1] \in Prefixes
           /\ v \in Codes <=> v[1] \in Owners
           /\ v \in Numbers => v \notin Codes
           /\ v # None
<1>1. CASE v \in Numbers
  BY <1>1 DEF Numbers, Codes, Keys, KeyOf
<1>2. CASE v \in Codes
  BY <1>2 DEF Numbers, Codes, Keys, KeyOf
<1> QED BY <1>1, <1>2

\* A counter row, and the value made of it.
LEMMA MadeOf ==
    ASSUME NEW y \in Years, NEW n \in Nat
    PROVE  /\ \A p \in Prefixes : <<p, y, n + 1>> \in Numbers /\ <<p, y>> \in Keys
           /\ \A o \in Owners : <<o, y, n + 1>> \in Codes /\ <<o, y>> \in Keys
BY DEF Numbers, Codes, Keys

-----------------------------------------------------------------------------
(***************************************************************************)
(* What a step changes.                                                    *)
(***************************************************************************)

\* A call that begins, goes on or stops leaves the other calls alone.
Act(r) == Arrive(r) \/ Step(r) \/ Stop(r)
Local(r) == <<pc[r], req[r], own[r], todo[r], hits[r], lost[r]>>

LEMMA NextIs ==
    Next <=> \/ \E r \in Reqs : Act(r)
             \/ \E q \in quotes : Delete(q)
             \/ NewYear
BY DEF Next, Act

LEMMA BlankIs ==
    ASSUME NEW k \in AllKinds, NEW p \in Prefixes, NEW o \in Owners \cup {None},
           NEW m \in Numbers \cup {None}, NEW b \in Codes \cup Numbers \cup {None}, NEW v \in Nat
    PROVE  /\ Blank(k, p, o, m, b, v) \in Request
           /\ Blank(k, p, o, m, b, v).kind = k /\ Blank(k, p, o, m, b, v).prefix = p
           /\ Blank(k, p, o, m, b, v).owner = o /\ Blank(k, p, o, m, b, v).manual = m
           /\ Blank(k, p, o, m, b, v).base = b /\ Blank(k, p, o, m, b, v).baseVer = v
           /\ Blank(k, p, o, m, b, v).ver = 1 /\ Blank(k, p, o, m, b, v).code = None
           /\ Blank(k, p, o, m, b, v).attempt = 0
BY DEF Blank, Request, MaxTries

\* A call begins with what its kind carries, at its first try.
LEMMA BeginSo ==
    ASSUME Typed, GivenKnown, NEW r \in Reqs, Arrive(r)
    PROVE  \E c \in Request : Begin(r, c) /\ Carries(c) /\ c.attempt = 0
<1>1. CASE ArriveCreate(r)
  <2>1. PICK p \in Prefixes, o \in Owners \cup {None}, m \in Manual \cup {None} :
          Begin(r, Blank("create", p, o, m, None, 0))
    BY <1>1 DEF ArriveCreate
  <2> DEFINE c == Blank("create", p, o, m, None, 0)
  <2>2. /\ c \in Request /\ c.kind = "create" /\ c.prefix = p /\ c.base = None /\ c.ver = 1
        /\ c.attempt = 0
    BY BlankIs DEF AllKinds
  <2> HIDE DEF c
  <2>3. Carries(c)
    BY <2>2 DEF Carries
  <2> QED BY <2>1, <2>2, <2>3 DEF c
<1>2. CASE ArriveCopy(r)
  <2>1. PICK p \in Prefixes, o \in Owners \cup {None} :
          Begin(r, Blank("copy", p, o, None, None, 0))
    BY <1>2 DEF ArriveCopy
  <2> DEFINE c == Blank("copy", p, o, None, None, 0)
  <2>2. /\ c \in Request /\ c.kind = "copy" /\ c.prefix = p /\ c.base = None /\ c.ver = 1
        /\ c.attempt = 0 /\ c.manual = None
    BY BlankIs DEF AllKinds
  <2> HIDE DEF c
  <2>3. Carries(c)
    BY <2>2 DEF Carries
  <2> QED BY <2>1, <2>2, <2>3 DEF c
<1>3. CASE ArriveVersion(r)
  <2>1. PICK p \in Prefixes, q \in quotes :
          Begin(r, Blank("version", p, None, None, IF q.code = None THEN q.num ELSE q.code, q.ver))
    BY <1>3 DEF ArriveVersion
  <2> DEFINE b == IF q.code = None THEN q.num ELSE q.code
             c == Blank("version", p, None, None, b, q.ver)
  <2>2. /\ q.num \in Numbers /\ q.code \in Codes \cup Numbers \cup {None} /\ q.ver \in Nat \ {0}
    BY DEF Typed, QuoteRow
  <2>3. b # None /\ b \in Codes \cup Numbers /\ b \in given
    BY <2>2, Shape DEF GivenKnown
  <2> HIDE DEF b
  <2>4. /\ c \in Request /\ c.kind = "version" /\ c.prefix = p /\ c.base = b
        /\ c.baseVer = q.ver /\ c.attempt = 0 /\ c.manual = None /\ c.owner = None
    BY <2>2, <2>3, BlankIs DEF AllKinds
  <2>5. Begin(r, c)
    BY <2>1 DEF b
  <2> HIDE DEF c
  <2>6. Carries(c)
    BY <2>2, <2>3, <2>4 DEF Carries
  <2> QED BY <2>4, <2>5, <2>6
<1>4. CASE ArriveRenumber(r)
  <2>1. PICK p \in Prefixes, q \in quotes, m \in Manual : \E base \in {q.num, None} :
          Begin(r, [Blank("renumber", p, None, m, base, 0) EXCEPT !.id = q.id])
    BY <1>4 DEF ArriveRenumber
  <2>2. PICK base \in {q.num, None} :
          Begin(r, [Blank("renumber", p, None, m, base, 0) EXCEPT !.id = q.id])
    BY <2>1
  <2>3. /\ q.num \in Numbers /\ q.num \in given /\ q.id \in Nat /\ m \in Numbers /\ m # None
        /\ base \in Codes \cup Numbers \cup {None} /\ (base # None => base \in given)
    BY DEF Typed, QuoteRow, GivenKnown
  <2> DEFINE b == Blank("renumber", p, None, m, base, 0)
             c == [b EXCEPT !.id = q.id]
  <2>4. /\ b \in Request /\ b.kind = "renumber" /\ b.prefix = p /\ b.base = base
        /\ b.attempt = 0 /\ b.manual = m /\ b.owner = None /\ b.ver = 1 /\ b.code = None
    BY <2>3, BlankIs DEF AllKinds
  <2>5. Begin(r, c)
    BY <2>2
  <2> HIDE DEF b
  <2>6. /\ c \in Request /\ c.kind = "renumber" /\ c.prefix = p /\ c.base = base
        /\ c.attempt = 0 /\ c.manual = m /\ c.owner = None /\ c.ver = 1 /\ c.code = None
    BY <2>3, <2>4 DEF Request
  <2> HIDE DEF c
  <2>7. Carries(c)
    BY <2>3, <2>6 DEF Carries
  <2> QED BY <2>5, <2>6, <2>7
<1> QED BY <1>1, <1>2, <1>3, <1>4 DEF Arrive

-----------------------------------------------------------------------------
(***************************************************************************)
(* Types.                                                                  *)
(***************************************************************************)

LEMMA ImageFinite ==
    ASSUME NEW S, IsFiniteSet(S), NEW f
    PROVE  IsFiniteSet({f[x] : x \in S})
<1> DEFINE g == [x \in S |-> f[x]]
           T == {f[x] : x \in S}
<1>1. g \in Surjection(S, T)
  BY DEF Surjection
<1> QED BY <1>1, FS_Surjection

\* What the steps write into a call.
LEMMA FieldsTyped ==
    ASSUME NEW c \in Request
    PROVE  /\ \A y \in Years : [c EXCEPT !.askedYear = y] \in Request
           /\ \A n \in Numbers : [c EXCEPT !.num = n] \in Request
           /\ \A n \in Numbers, b \in BOOLEAN :
                [c EXCEPT !.num = n, !.followed = b] \in Request
           /\ \A d \in Codes : [c EXCEPT !.code = d] \in Request
           /\ \A d \in Codes \cup Numbers \cup {None}, v \in Nat \ {0} :
                [c EXCEPT !.code = d, !.ver = v] \in Request
           /\ c.attempt < MaxTries - 1 => [c EXCEPT !.attempt = @ + 1] \in Request
<1>1. /\ \A y \in Years : [c EXCEPT !.askedYear = y] \in Request
      /\ \A n \in Numbers : [c EXCEPT !.num = n] \in Request
      /\ \A d \in Codes : [c EXCEPT !.code = d] \in Request
  BY DEF Request
<1>2. \A n \in Numbers, b \in BOOLEAN : [c EXCEPT !.num = n, !.followed = b] \in Request
  BY DEF Request
<1>3. \A d \in Codes \cup Numbers \cup {None}, v \in Nat \ {0} :
        [c EXCEPT !.code = d, !.ver = v] \in Request
  BY DEF Request
<1>4. c.attempt < MaxTries - 1 => [c EXCEPT !.attempt = @ + 1] \in Request
  <2> SUFFICES ASSUME c.attempt < MaxTries - 1
               PROVE  [c EXCEPT !.attempt = @ + 1] \in Request
    OBVIOUS
  <2>1. c.attempt + 1 \in 0 .. MaxTries - 1
    BY DEF Request, MaxTries
  <2> QED BY <2>1 DEF Request
<1> QED BY <1>1, <1>2, <1>3, <1>4

\* What a transaction sees in a counter row.
LEMMA ValueTyped ==
    ASSUME Typed, NEW r \in Reqs, NEW k \in Keys
    PROVE  Value(r, k) \in Nat
BY DEF Typed, Value

\* The version after the highest one of a project is higher than each of them.
LEMMA NextVersion ==
    ASSUME Typed, NEW v \in Nat, NEW b
    PROVE  /\ Max({v} \cup VersionsOf(b)) \in Nat
           /\ Max({v} \cup VersionsOf(b)) >= v
           /\ \A q \in quotes : q.code = b => Max({v} \cup VersionsOf(b)) >= q.ver
<1> DEFINE Rows == {p \in quotes : p.code = b}
           f == [q \in Rows |-> q.ver]
           S == {v} \cup VersionsOf(b)
<1>1. IsFiniteSet(Rows)
  BY FS_Subset DEF Typed
<1>2. VersionsOf(b) = {f[q] : q \in Rows}
  BY DEF VersionsOf
<1>3. IsFiniteSet(VersionsOf(b))
  <2>1. ASSUME NEW g PROVE IsFiniteSet({g[q] : q \in Rows})
    BY <1>1, ImageFinite
  <2>2. IsFiniteSet({f[q] : q \in Rows})
    BY <2>1, Zenon
  <2> QED BY <1>2, <2>2
<1>4. IsFiniteSet(S) /\ S # {}
  BY <1>3, FS_Singleton, FS_Union
<1>5. S \subseteq Nat
  BY DEF VersionsOf, Typed, QuoteRow
<1>6. Max(S) \in S /\ \A y \in S : Max(S) >= y
  BY <1>4, <1>5, LargestNat
<1>7. \A q \in quotes : q.code = b => q.ver \in S
  BY DEF VersionsOf
<1> QED BY <1>5, <1>6, <1>7

\* The table of what a transaction wrote.
Tables == \A r \in Reqs : /\ own[r] = [k \in DOMAIN own[r] |-> own[r][k]]
                          /\ DOMAIN own[r] \subseteq Keys
                          /\ \A k \in DOMAIN own[r] : own[r][k] \in Nat

LEMMA WriteTyped ==
    ASSUME Typed, NEW r \in Reqs, NEW k \in Keys, NEW n \in Nat, WriteCounter(r, k, n)
    PROVE  /\ lock' \in [Keys -> Reqs \cup {None}]
           /\ own' = [q \in Reqs |-> own'[q]] /\ Tables'
           /\ own'[r] = Set(own[r], k, n)
           /\ \A q \in Reqs \ {r} : own'[q] = own[q]
           /\ DOMAIN own'[r] = DOMAIN own[r] \cup {k} /\ own'[r][k] = n
           /\ \A j \in DOMAIN own[r] \ {k} : own'[r][j] = own[r][j]
           /\ \A j \in Keys : lock'[j] = IF j = k THEN r ELSE lock[j]
<1>1. /\ own'[r] = Set(own[r], k, n)
      /\ \A q \in Reqs \ {r} : own'[q] = own[q]
      /\ own' = [q \in Reqs |-> own'[q]]
  BY DEF Typed, WriteCounter
<1>2. /\ lock' \in [Keys -> Reqs \cup {None}]
      /\ \A j \in Keys : lock'[j] = IF j = k THEN r ELSE lock[j]
  BY DEF Typed, WriteCounter
<1>3. /\ DOMAIN own'[r] = DOMAIN own[r] \cup {k} /\ own'[r][k] = n
      /\ \A j \in DOMAIN own[r] \ {k} : own'[r][j] = own[r][j]
      /\ own'[r] = [j \in DOMAIN own'[r] |-> own'[r][j]]
  BY <1>1, Zenon DEF Set
<1>4. Tables'
  BY <1>1, <1>3 DEF Tables, Typed
<1> QED BY <1>1, <1>2, <1>3, <1>4

LEMMA EndTyped ==
    ASSUME Typed, NEW r \in Reqs, EndTransaction(r)
    PROVE  /\ lock' \in [Keys -> Reqs \cup {None}]
           /\ own' = [q \in Reqs |-> own'[q]] /\ Tables'
           /\ own'[r] = <<>> /\ DOMAIN own'[r] = {}
           /\ \A q \in Reqs \ {r} : own'[q] = own[q]
           /\ \A j \in Keys : lock'[j] = IF lock[j] = r THEN None ELSE lock[j]
<1>1. /\ own'[r] = <<>>
      /\ \A q \in Reqs \ {r} : own'[q] = own[q]
      /\ own' = [q \in Reqs |-> own'[q]]
  BY DEF Typed, EndTransaction
<1>2. /\ lock' \in [Keys -> Reqs \cup {None}]
      /\ \A j \in Keys : lock'[j] = IF lock[j] = r THEN None ELSE lock[j]
  BY DEF Typed, EndTransaction, FreeLocks
<1>3. DOMAIN own'[r] = {} /\ own'[r] = [j \in DOMAIN own'[r] |-> own'[r][j]]
  BY <1>1
<1>4. Tables'
  BY <1>1, <1>3 DEF Tables, Typed
<1> QED BY <1>1, <1>2, <1>3, <1>4

LEMMA NoCallTyped == NoCall \in Request
BY DEF NoCall, Blank, Request, AllKinds, MaxTries

\* The counter rows a call is about.
LEMMA CallKeys ==
    ASSUME Typed, NEW r \in Reqs, CallShape(r), Numbered(r), Coded(r)
    PROVE  /\ pc[r] = "upsert" => <<req[r].prefix, req[r].askedYear>> \in Keys
           /\ req[r].manual # None => req[r].manual \in Numbers
           /\ req[r].owner # None => <<req[r].owner, year>> \in Keys /\ req[r].owner \in Owners
           /\ pc[r] = "again" => req[r].num \in Numbers
           /\ pc[r] = "again" /\ req[r].owner # None => req[r].code \in Codes
<1>1. req[r] \in Request
  BY DEF Typed
<1>2. pc[r] = "again" /\ req[r].owner # None => req[r].code \in Codes
  BY DEF CallShape, Carries, Coded, Underway
<1> QED BY <1>1, <1>2 DEF Typed, CallShape, Carries, Numbered, Underway, InTx, Keys, Request

LEMMA EndSo ==
    ASSUME Typed, NEW r \in Reqs, NEW how \in Ended, End(r, how)
    PROVE  /\ pc' \in [Reqs -> Ended \cup Underway] /\ req' \in [Reqs -> Request]
           /\ lost' \in [Reqs -> BOOLEAN]
           /\ hits' \in [Reqs -> SUBSET ((Numbers \cup Codes) \X (Nat \ {0}))]
           /\ \A q \in Reqs : IsFiniteSet(hits'[q])
           /\ pc'[r] = how /\ req'[r] = NoCall /\ hits'[r] = {} /\ lost'[r] = FALSE
           /\ \A q \in Reqs \ {r} : /\ pc'[q] = pc[q] /\ req'[q] = req[q]
                                    /\ hits'[q] = hits[q] /\ lost'[q] = lost[q]
<1>1. /\ pc'[r] = how /\ req'[r] = NoCall /\ hits'[r] = {} /\ lost'[r] = FALSE
      /\ \A q \in Reqs \ {r} : /\ pc'[q] = pc[q] /\ req'[q] = req[q]
                               /\ hits'[q] = hits[q] /\ lost'[q] = lost[q]
  BY DEF End, Typed
<1>2. /\ pc' \in [Reqs -> Ended \cup Underway] /\ lost' \in [Reqs -> BOOLEAN]
      /\ hits' \in [Reqs -> SUBSET ((Numbers \cup Codes) \X (Nat \ {0}))]
  BY DEF End, Typed
<1>3. req' \in [Reqs -> Request]
  BY NoCallTyped DEF End, Typed
<1>4. \A q \in Reqs : IsFiniteSet(hits'[q])
  BY <1>1, FS_EmptySet DEF Typed
<1> QED BY <1>1, <1>2, <1>3, <1>4

\* What a commit writes.
LEMMA WrittenTyped ==
    ASSUME Typed, NEW r \in Reqs, CallShape(r), Numbered(r), pc[r] = "write"
    PROVE  Written(r) \subseteq QuoteRow /\ IsFiniteSet(Written(r))
<1>1. req[r] \in Request /\ req[r].num \in Numbers
  BY DEF Typed, Numbered
<1>2. CASE req[r].kind = "renumber"
  <2> DEFINE f == [q \in Renumbered(r) |-> [q EXCEPT !.num = req[r].num, !.auto = FALSE]]
  <2>1. IsFiniteSet(Renumbered(r)) /\ IsFiniteSet(quotes \ Renumbered(r))
    BY FS_Subset DEF Typed, Renumbered
  <2>2. {[q EXCEPT !.num = req[r].num, !.auto = FALSE] : q \in Renumbered(r)}
          = {f[q] : q \in Renumbered(r)}
    OBVIOUS
  <2>3. ASSUME NEW g PROVE IsFiniteSet({g[q] : q \in Renumbered(r)})
    BY <2>1, ImageFinite
  <2>4. IsFiniteSet({f[q] : q \in Renumbered(r)})
    BY <2>3, Zenon
  <2>5. IsFiniteSet(Written(r))
    BY <1>2, <2>1, <2>2, <2>4, FS_Union DEF Written
  <2>6. quotes \subseteq QuoteRow /\ Renumbered(r) \subseteq quotes
    BY DEF Renumbered, Typed
  <2>7. \A q \in QuoteRow, n \in Numbers : [q EXCEPT !.num = n, !.auto = FALSE] \in QuoteRow
    BY DEF QuoteRow
  <2>8. {[q EXCEPT !.num = req[r].num, !.auto = FALSE] : q \in Renumbered(r)} \subseteq QuoteRow
    <3> SUFFICES ASSUME NEW q \in Renumbered(r)
                 PROVE  [q EXCEPT !.num = req[r].num, !.auto = FALSE] \in QuoteRow
      OBVIOUS
    <3>1. q \in QuoteRow
      BY <2>6
    <3> HIDE DEF f
    <3> QED BY <1>1, <2>7, <3>1
  <2> QED BY <1>2, <2>5, <2>6, <2>8 DEF Written
<1>3. CASE req[r].kind # "renumber"
  <2>1. IsFiniteSet(Written(r))
    BY <1>3, FS_Singleton, FS_Union DEF Written, Typed
  <2>2. NextId(quotes) \in Nat
    BY FS_CardinalityType DEF NextId, Typed
  <2>3. NewRow(r) \in QuoteRow
    BY <1>1, <2>2 DEF NewRow, QuoteRow, Request
  <2> QED BY <1>3, <2>1, <2>3 DEF Written, Typed
<1> QED BY <1>2, <1>3

\* A collision adds one value met.
LEMMA CollideSo ==
    ASSUME Typed, NEW r \in Reqs, CallShape(r), Numbered(r), Coded(r), Collide(r)
    PROVE  \E onNumber \in BOOLEAN :
             /\ IF onNumber THEN NumberTaken(r) ELSE CodeTaken(r)
             /\ Met(r, onNumber) \in (Numbers \cup Codes) \X (Nat \ {0})
             /\ hits'[r] = hits[r] \cup {Met(r, onNumber)}
             /\ pc'[r] = IF GivesUp(r, onNumber) THEN "conflict" ELSE "again"
             /\ todo'[r] = IF GivesUp(r, onNumber) THEN {} ELSE Recorded(r, onNumber)
             /\ \A q \in Reqs \ {r} : /\ hits'[q] = hits[q] /\ pc'[q] = pc[q]
                                      /\ todo'[q] = todo[q]
<1>1. PICK onNumber \in BOOLEAN :
        /\ IF onNumber THEN NumberTaken(r) ELSE CodeTaken(r)
        /\ hits' = [hits EXCEPT ![r] = @ \cup {Met(r, onNumber)}]
        /\ pc' = [pc EXCEPT ![r] = IF GivesUp(r, onNumber) THEN "conflict" ELSE "again"]
        /\ todo' = [todo EXCEPT ![r] = IF GivesUp(r, onNumber) THEN {} ELSE Recorded(r, onNumber)]
  BY DEF Collide
<1>2. Met(r, onNumber) \in (Numbers \cup Codes) \X (Nat \ {0})
  <2>1. CASE onNumber
    BY <2>1 DEF Met, Numbered, Collide
  <2>2. CASE ~onNumber
    <3>1. <<req[r].code, req[r].ver>> \in TakenCodes
      BY <1>1, <2>2 DEF CodeTaken
    <3>2. PICK q \in {p \in quotes : p.code # None} :
            <<req[r].code, req[r].ver>> = <<q.code, q.ver>>
      BY <3>1 DEF TakenCodes
    <3>3. q.code \in Codes \cup Numbers /\ q.ver \in Nat \ {0}
      BY <3>2 DEF Typed, QuoteRow
    <3> QED BY <2>2, <3>2, <3>3 DEF Met
  <2> QED BY <2>1, <2>2
<1> QED BY <1>1, <1>2 DEF Typed

LEMMA TryTyped ==
    ASSUME IInv, NEW r \in Reqs,
           AskNumber(r) \/ GetNumber(r) \/ TakeManual(r) \/ GetCode(r) \/ NoCode(r)
    PROVE  Typed'
<1>0. Typed /\ CallShape(r) /\ Numbered(r) /\ Coded(r) /\ req[r] \in Request
  BY DEF IInv, Orderly, Typed
<1>1. \A p \in Ended \cup Underway : pc' = [pc EXCEPT ![r] = p] => pc' \in [Reqs -> Ended \cup Underway]
  BY <1>0 DEF Typed
<1>2. \A c \in Request : req' = [req EXCEPT ![r] = c] => req' \in [Reqs -> Request]
  BY <1>0 DEF Typed
<1>3. CASE AskNumber(r)
  <2>1. req' \in [Reqs -> Request]
    BY <1>0, <1>2, <1>3, FieldsTyped DEF AskNumber, Typed
  <2> QED BY <1>0, <1>1, <1>3, <2>1 DEF AskNumber, Typed, Underway, InTx, db, hist
<1>4. CASE GetNumber(r)
  <2> DEFINE k == <<req[r].prefix, req[r].askedYear>>
             n == Value(r, k) + 1
  <2>1. k \in Keys /\ Value(r, k) \in Nat
    BY <1>0, <1>4, CallKeys, ValueTyped DEF GetNumber
  <2>2. <<req[r].prefix, year, n>> \in Numbers
    BY <1>0, <1>4, <2>1, MadeOf DEF GetNumber, Typed, CallShape, Carries, Underway, InTx
  <2>3. req' \in [Reqs -> Request]
    BY <1>0, <1>2, <1>4, <2>2, FieldsTyped DEF GetNumber
  <2>4. lock' \in [Keys -> Reqs \cup {None}] /\ own' = [q \in Reqs |-> own'[q]] /\ Tables'
    BY <1>0, <1>4, <2>1, WriteTyped DEF GetNumber
  <2> QED BY <1>0, <1>1, <1>4, <2>3, <2>4 DEF GetNumber, Typed, Tables, Underway, InTx, db, hist
<1>5. CASE TakeManual(r)
  <2> DEFINE m == req[r].manual
             k == <<m[1], m[2]>>
  <2>1. m \in Numbers /\ k \in Keys /\ Raised(Value(r, k), m[3]) \in Nat
    <3>1. m \in Numbers /\ k \in Keys /\ m[3] \in Nat
      BY <1>0, <1>5, CallKeys, Shape DEF TakeManual
    <3> QED BY <1>0, <3>1, ValueTyped DEF Raised
  <2>2. req' \in [Reqs -> Request]
    <3>1. Follows(r) \in BOOLEAN
      BY DEF Follows, Fits
    <3>2. req' = [req EXCEPT ![r] = [req[r] EXCEPT !.num = m, !.followed = Follows(r)]]
      BY <1>0, <1>5 DEF TakeManual, Typed
    <3>3. [req[r] EXCEPT !.num = m, !.followed = Follows(r)] \in Request
      BY <1>0, <2>1, <3>1, FieldsTyped
    <3> QED BY <1>2, <3>2, <3>3
  <2>3. lock' \in [Keys -> Reqs \cup {None}] /\ own' = [q \in Reqs |-> own'[q]] /\ Tables'
    <3>1. CASE Follows(r)
      BY <1>0, <1>5, <2>1, <3>1, WriteTyped DEF TakeManual
    <3>2. CASE ~Follows(r)
      BY <1>0, <1>5, <3>2 DEF TakeManual, Typed, Tables
    <3> QED BY <3>1, <3>2
  <2> QED BY <1>0, <1>1, <1>5, <2>2, <2>3 DEF TakeManual, Typed, Tables, Underway, InTx, db, hist
<1>6. CASE GetCode(r)
  <2> DEFINE k == <<req[r].owner, year>>
             n == Value(r, k) + 1
  <2>1. k \in Keys /\ Value(r, k) \in Nat /\ req[r].owner \in Owners
    BY <1>0, <1>6, CallKeys, ValueTyped DEF GetCode
  <2>2. <<req[r].owner, year, n>> \in Codes
    BY <1>0, <2>1, MadeOf DEF Typed
  <2>3. req' \in [Reqs -> Request]
    BY <1>0, <1>2, <1>6, <2>2, FieldsTyped DEF GetCode
  <2>4. lock' \in [Keys -> Reqs \cup {None}] /\ own' = [q \in Reqs |-> own'[q]] /\ Tables'
    BY <1>0, <1>6, <2>1, WriteTyped DEF GetCode
  <2> QED BY <1>0, <1>1, <1>6, <2>3, <2>4 DEF GetCode, Typed, Tables, Underway, InTx, db, hist
<1>7. CASE NoCode(r)
  <2> DEFINE v == IF req[r].kind = "version"
                  THEN Max({req[r].baseVer} \cup VersionsOf(req[r].base)) + 1 ELSE 1
  <2>1. v \in Nat \ {0} /\ req[r].base \in Codes \cup Numbers \cup {None}
    <3>1. req[r].baseVer \in Nat /\ req[r].base \in Codes \cup Numbers \cup {None}
      BY <1>0 DEF Request
    <3> QED BY <1>0, <3>1, NextVersion
  <2>2. req' = [req EXCEPT ![r] = [req[r] EXCEPT !.code = req[r].base, !.ver = v]]
    BY <1>0, <1>7 DEF NoCode, Typed
  <2> HIDE DEF v
  <2>3. req' \in [Reqs -> Request]
    BY <1>0, <1>2, <2>1, <2>2, FieldsTyped
  <2> QED BY <1>0, <1>1, <1>7, <2>3 DEF NoCode, Typed, Underway, InTx, db, hist
<1> QED BY <1>3, <1>4, <1>5, <1>6, <1>7

\* A counter row only grows when a taken value is recorded in it.
LEMMA RecordSo ==
    ASSUME Typed, NEW k \in Keys, NEW n \in Nat, Record(k, n)
    PROVE  /\ counter' \in [Keys -> Nat] /\ lock[k] = None
           /\ counter'[k] >= n /\ (counter'[k] = counter[k] \/ counter'[k] = n)
           /\ counter'[k] >= counter[k] /\ \A j \in Keys \ {k} : counter'[j] = counter[j]
BY DEF Typed, Record, Raised

LEMMA LeaveTyped ==
    ASSUME IInv, NEW r \in Reqs, Commit(r) \/ Collide(r) \/ Refuse(r) \/ Abort(r)
    PROVE  Typed'
<1>0. Typed /\ CallShape(r) /\ Numbered(r) /\ Coded(r) /\ req[r] \in Request
  BY DEF IInv, Orderly, Typed
<1>1. lock' \in [Keys -> Reqs \cup {None}] /\ own' = [q \in Reqs |-> own'[q]] /\ Tables'
  BY <1>0, EndTyped DEF Commit, Collide, Refuse, Abort
<1>2. CASE Commit(r)
  <2>1. /\ pc' \in [Reqs -> Ended \cup Underway] /\ req' \in [Reqs -> Request]
        /\ lost' \in [Reqs -> BOOLEAN]
        /\ hits' \in [Reqs -> SUBSET ((Numbers \cup Codes) \X (Nat \ {0}))]
        /\ \A q \in Reqs : IsFiniteSet(hits'[q])
    BY <1>0, <1>2, EndSo DEF Commit, Ended
  <2>2. quotes' \subseteq QuoteRow /\ IsFiniteSet(quotes')
    BY <1>0, <1>2, WrittenTyped DEF Commit
  <2>3. counter' \in [Keys -> Nat]
    BY <1>0, <1>2, ValueTyped DEF Commit
  <2>4. blind' \subseteq given' /\ given' \subseteq Numbers \cup Codes
    <3>1. req[r].num \in Numbers /\ req[r].num # None
      BY <1>0, <1>2, Shape DEF Commit, Numbered
    <3>2. req[r].code \in Codes \cup Numbers \cup {None}
      BY <1>0 DEF Request
    <3> QED BY <1>0, <1>2, <3>1, <3>2 DEF Commit, Typed
  <2> QED BY <1>0, <1>1, <1>2, <2>1, <2>2, <2>3, <2>4 DEF Commit, Typed, Tables
<1>3. CASE Collide(r)
  <2>1. PICK onNumber \in BOOLEAN :
             /\ Met(r, onNumber) \in (Numbers \cup Codes) \X (Nat \ {0})
             /\ hits'[r] = hits[r] \cup {Met(r, onNumber)}
             /\ \A q \in Reqs \ {r} : hits'[q] = hits[q]
    BY <1>0, <1>3, CollideSo
  <2>2. \A q \in Reqs : /\ IsFiniteSet(hits'[q])
                        /\ hits'[q] \subseteq (Numbers \cup Codes) \X (Nat \ {0})
    <3>0. IsFiniteSet(hits[r])
      BY <1>0 DEF Typed
    <3>1. IsFiniteSet(hits'[r])
      <4> DEFINE x == Met(r, onNumber)
      <4>1. hits'[r] = hits[r] \cup {x}
        BY <2>1
      <4> HIDE DEF x
      <4>2. IsFiniteSet(hits[r] \cup {x})
        BY <3>0, FS_AddElement
      <4> QED BY <4>1, <4>2
    <3>2. hits[r] \subseteq (Numbers \cup Codes) \X (Nat \ {0})
      BY <1>0 DEF Typed
    <3>3. \A q \in Reqs \ {r} : /\ IsFiniteSet(hits'[q])
                                /\ hits'[q] \subseteq (Numbers \cup Codes) \X (Nat \ {0})
      BY <1>0, <2>1 DEF Typed
    <3>4. hits'[r] \subseteq (Numbers \cup Codes) \X (Nat \ {0})
      BY <2>1, <3>2
    <3> QED BY <3>1, <3>3, <3>4
  <2>3. /\ hits' \in [Reqs -> SUBSET ((Numbers \cup Codes) \X (Nat \ {0}))]
        /\ pc' \in [Reqs -> Ended \cup Underway]
        /\ todo' \in [Reqs -> SUBSET {"number", "code"}]
    <3>1. /\ hits' = [q \in Reqs |-> hits'[q]]
          /\ pc' \in [Reqs -> Ended \cup Underway]
      BY <1>0, <1>3 DEF Collide, Typed, Ended, Underway
    <3>2. \A b \in BOOLEAN : Recorded(r, b) \subseteq {"number", "code"}
      BY DEF Recorded
    <3>3. todo' \in [Reqs -> SUBSET {"number", "code"}]
      BY <1>0, <1>3, <3>2 DEF Collide, Typed
    <3> QED BY <2>2, <3>1, <3>3
  <2> QED BY <1>0, <1>1, <1>3, <2>2, <2>3 DEF Collide, Typed, Tables, db
<1>4. CASE Refuse(r) \/ Abort(r)
  <2>1. /\ pc' \in [Reqs -> Ended \cup Underway] /\ req' \in [Reqs -> Request]
        /\ lost' \in [Reqs -> BOOLEAN]
        /\ hits' \in [Reqs -> SUBSET ((Numbers \cup Codes) \X (Nat \ {0}))]
        /\ \A q \in Reqs : IsFiniteSet(hits'[q])
    BY <1>0, <1>4, EndSo DEF Refuse, Abort, Ended
  <2> QED BY <1>0, <1>1, <1>4, <2>1 DEF Refuse, Abort, Typed, Tables, db
<1> QED BY <1>2, <1>3, <1>4

LEMMA AgainTyped ==
    ASSUME IInv, NEW r \in Reqs,
           RecordNumber(r) \/ RecordCode(r) \/ RecordFails(r) \/ Retry(r) \/ Arrive(r)
    PROVE  Typed'
<1>0. Typed /\ CallShape(r) /\ Numbered(r) /\ Coded(r) /\ req[r] \in Request /\ GivenKnown
  BY DEF IInv, Orderly, Typed
<1>1. CASE RecordNumber(r)
  <2>1. req[r].num \in Numbers
    BY <1>0, <1>1, CallKeys DEF RecordNumber
  <2>2. KeyOf(req[r].num) \in Keys /\ req[r].num[3] \in Nat
    BY <2>1, Shape
  <2>3. counter' \in [Keys -> Nat]
    BY <1>0, <1>1, <2>2, RecordSo DEF RecordNumber, KeyOf, Typed
  <2>4. todo' \in [Reqs -> SUBSET {"number", "code"}]
    BY <1>0, <1>1 DEF RecordNumber, Typed
  <2> QED BY <1>0, <1>1, <2>3, <2>4 DEF RecordNumber, Typed, hist
<1>2. CASE RecordCode(r)
  <2>1. counter' \in [Keys -> Nat]
    <3>1. req[r].owner # None
      BY <1>0, <1>2 DEF IInv, Orderly, Recording, RecordCode
    <3>2. req[r].code \in Codes
      BY <1>0, <1>2, <3>1, CallKeys DEF RecordCode
    <3>3. KeyOf(req[r].code) \in Keys /\ req[r].code[3] \in Nat
      BY <3>2, Shape
    <3> QED BY <1>0, <1>2, <3>3, RecordSo DEF RecordCode, KeyOf
  <2> QED BY <1>0, <1>2, <2>1 DEF RecordCode, Typed, hist
<1>3. CASE RecordFails(r)
  BY <1>0, <1>3 DEF RecordFails, Typed, db
<1>4. CASE Retry(r)
  <2>1. [req[r] EXCEPT !.attempt = @ + 1] \in Request
    BY <1>0, <1>4, FieldsTyped DEF Retry, CallShape
  <2>2. req' = [req EXCEPT ![r] = [req[r] EXCEPT !.attempt = @ + 1]]
    BY <1>0, <1>4 DEF Retry, Typed
  <2>3. req' \in [Reqs -> Request]
    BY <1>0, <2>1, <2>2 DEF Typed
  <2> QED BY <1>0, <1>4, <2>3 DEF Retry, Typed, db, hist, Underway, InTx
<1>5. CASE Arrive(r)
  <2>1. PICK c \in Request : Begin(r, c)
    BY <1>0, <1>5, BeginSo
  <2> QED BY <1>0, <2>1 DEF Begin, Typed, db, hist, Underway, InTx
<1> QED BY <1>1, <1>2, <1>3, <1>4, <1>5

LEMMA DeleteSo ==
    ASSUME Typed, NEW q \in quotes, Delete(q)
    PROVE  /\ quotes' \subseteq QuoteRow /\ IsFiniteSet(quotes')
           /\ \A p \in quotes' : \E s \in quotes : p.num = s.num /\ p.code = s.code
           /\ \A s \in quotes : \E p \in quotes' : p.code = s.code /\ p.ver = s.ver
<1> DEFINE d == [q EXCEPT !.deleted = TRUE]
<1>1. /\ d \in QuoteRow
      /\ d.num = q.num /\ d.code = q.code /\ d.ver = q.ver
  <2>1. q \in QuoteRow
    BY DEF Typed
  <2> QED BY <2>1 DEF QuoteRow
<1>2. quotes' = (quotes \ {q}) \cup {d}
  BY DEF Delete
<1> HIDE DEF d
<1>3. IsFiniteSet(quotes')
  BY <1>2, FS_RemoveElement, FS_AddElement DEF Typed
<1> QED BY <1>1, <1>2, <1>3 DEF Typed

LEMMA NextTyped == IInv /\ [Next]_vars => Typed'
<1> SUFFICES ASSUME IInv, [Next]_vars PROVE Typed'
  OBVIOUS
<1>0. Typed
  BY DEF IInv
<1>1. ASSUME NEW r \in Reqs, Act(r) PROVE Typed'
  BY <1>1, TryTyped, LeaveTyped, AgainTyped DEF Act, Step, Stop
<1>2. ASSUME NEW q \in quotes, Delete(q) PROVE Typed'
  <2>1. quotes' \subseteq QuoteRow /\ IsFiniteSet(quotes')
    BY <1>0, <1>2, DeleteSo
  <2> QED BY <1>0, <1>2, <2>1 DEF Delete, Typed, hist
<1>3. CASE NewYear
  BY <1>0, <1>3 DEF NewYear, Typed, db, hist
<1>4. CASE UNCHANGED vars
  BY <1>0, <1>4 DEF vars, Typed
<1> QED BY <1>1, <1>2, <1>3, <1>4, NextIs

-----------------------------------------------------------------------------
(***************************************************************************)
(* The locks, and what a step leaves as it was.                            *)
(***************************************************************************)

\* A step of a call writes counter rows, ends its transaction, or does neither.
LEMMA LockSteps ==
    ASSUME IInv, NEW r \in Reqs, Act(r)
    PROVE  \/ \E k \in Keys, n \in Nat : WriteCounter(r, k, n)
           \/ EndTransaction(r)
           \/ UNCHANGED <<lock, own>>
<1>0. Typed /\ CallShape(r) /\ Numbered(r) /\ Coded(r)
  BY DEF IInv, Orderly
<1>1. CASE GetNumber(r)
  <2>1. <<req[r].prefix, req[r].askedYear>> \in Keys
    BY <1>0, <1>1, CallKeys DEF GetNumber
  <2>2. Value(r, <<req[r].prefix, req[r].askedYear>>) + 1 \in Nat
    BY <1>0, <2>1, ValueTyped
  <2> QED BY <1>1, <2>1, <2>2 DEF GetNumber
<1>2. CASE TakeManual(r)
  <2>1. req[r].manual \in Numbers
    BY <1>0, <1>2, CallKeys DEF TakeManual
  <2> DEFINE m == req[r].manual
             k == <<m[1], m[2]>>
  <2>2. k \in Keys /\ m[3] \in Nat
    BY <2>1, Shape
  <2>3. Raised(Value(r, k), m[3]) \in Nat
    BY <1>0, <2>2, ValueTyped DEF Raised
  <2>4. WriteCounter(r, k, Raised(Value(r, k), m[3])) \/ UNCHANGED <<lock, own>>
    BY <1>2 DEF TakeManual
  <2> QED BY <2>2, <2>3, <2>4
<1>3. CASE GetCode(r)
  <2>1. <<req[r].owner, year>> \in Keys
    BY <1>0, <1>3, CallKeys DEF GetCode
  <2>2. Value(r, <<req[r].owner, year>>) + 1 \in Nat
    BY <1>0, <2>1, ValueTyped
  <2> QED BY <1>3, <2>1, <2>2 DEF GetCode
<1>4. CASE Commit(r) \/ Collide(r) \/ Refuse(r) \/ Abort(r)
  BY <1>4 DEF Commit, Collide, Refuse, Abort
<1>5. CASE AskNumber(r) \/ NoCode(r) \/ RecordNumber(r) \/ RecordCode(r) \/ RecordFails(r)
           \/ Retry(r)
  BY <1>5 DEF AskNumber, NoCode, RecordNumber, RecordCode, RecordFails, Retry
<1>6. CASE Arrive(r)
  <2>1. PICK c \in Request : Begin(r, c)
    BY <1>0, <1>6, BeginSo DEF IInv
  <2> QED BY <2>1 DEF Begin
<1> QED BY <1>1, <1>2, <1>3, <1>4, <1>5, <1>6 DEF Act, Step, Stop

LEMMA LocksKept == IInv /\ [Next]_vars => LocksFollow'
<1> SUFFICES ASSUME IInv, [Next]_vars PROVE LocksFollow'
  OBVIOUS
<1>0. Typed /\ LocksFollow
  BY DEF IInv
<1>1. ASSUME NEW r \in Reqs, NEW k \in Keys, NEW n \in Nat, WriteCounter(r, k, n)
      PROVE  LocksFollow'
  <2>1. /\ DOMAIN own'[r] = DOMAIN own[r] \cup {k}
        /\ \A q \in Reqs \ {r} : own'[q] = own[q]
        /\ \A j \in Keys : lock'[j] = IF j = k THEN r ELSE lock[j]
    BY <1>0, <1>1, WriteTyped
  <2>2. lock[k] \in {None, r} /\ None \notin Reqs
    BY <1>1 DEF WriteCounter, MayLock
  <2> QED BY <1>0, <2>1, <2>2 DEF LocksFollow
<1>2. ASSUME NEW r \in Reqs, EndTransaction(r) PROVE LocksFollow'
  <2>1. /\ DOMAIN own'[r] = {}
        /\ \A q \in Reqs \ {r} : own'[q] = own[q]
        /\ \A j \in Keys : lock'[j] = IF lock[j] = r THEN None ELSE lock[j]
    BY <1>0, <1>2, EndTyped
  <2> QED BY <1>0, <2>1 DEF LocksFollow
<1>3. CASE UNCHANGED <<lock, own>>
  BY <1>0, <1>3 DEF LocksFollow
<1>4. (\E q \in quotes : Delete(q)) \/ NewYear \/ UNCHANGED vars => UNCHANGED <<lock, own>>
  BY DEF Delete, NewYear, vars
<1> QED BY <1>1, <1>2, <1>3, <1>4, LockSteps, NextIs

\* Counters, years, rows and histories only go up.
RowsStay == \A q \in quotes : \E p \in quotes' : p.code = q.code /\ p.ver = q.ver
Grown ==
    /\ \A k \in Keys : counter'[k] >= counter[k]
    /\ given \subseteq given' /\ blind \subseteq blind'
    /\ year' \in {year, year + 1}
    /\ RowsStay

LEMMA RecordedTyped ==
    ASSUME IInv, NEW r \in Reqs
    PROVE  /\ pc[r] = "again" => /\ req[r].num \in Numbers /\ req[r].num[3] \in Nat
                                 /\ KeyOf(req[r].num) \in Keys
           /\ pc[r] = "again" /\ todo[r] = {"code"} =>
                /\ req[r].code \in Codes /\ req[r].code[3] \in Nat
                /\ KeyOf(req[r].code) \in Keys
<1>0. Typed /\ CallShape(r) /\ Numbered(r) /\ Coded(r) /\ Recording(r)
  BY DEF IInv, Orderly
<1> QED BY <1>0, CallKeys, Shape DEF Recording

\* What a commit does to the counters: the rows its transaction wrote.
LEMMA CommitCounters ==
    ASSUME IInv, NEW r \in Reqs, Commit(r)
    PROVE  \A k \in Keys : /\ k \in DOMAIN own[r] => counter'[k] = own[r][k]
                           /\ k \notin DOMAIN own[r] => counter'[k] = counter[k]
                           /\ counter'[k] >= counter[k]
<1>1. Typed /\ Writes(r)
  BY DEF IInv, Orderly
<1> QED BY <1>1 DEF Commit, Value, Writes, Typed

\* No row of Quote loses its code or version.
LEMMA CommitRows ==
    ASSUME IInv, NEW r \in Reqs, Commit(r)
    PROVE  RowsStay
<1>1. quotes \subseteq QuoteRow
  BY DEF IInv, Typed
<1>2. CASE req[r].kind = "renumber"
  <2> SUFFICES ASSUME NEW q \in quotes
               PROVE  \E p \in quotes' : p.code = q.code /\ p.ver = q.ver
    BY DEF RowsStay
  <2>1. quotes' = (quotes \ Renumbered(r))
           \cup {[s EXCEPT !.num = req[r].num, !.auto = FALSE] : s \in Renumbered(r)}
    BY <1>2 DEF Commit, Written
  <2>2. CASE q \in Renumbered(r)
    <3> DEFINE p == [q EXCEPT !.num = req[r].num, !.auto = FALSE]
    <3>1. q \in QuoteRow
      BY <1>1
    <3>2. p.code = q.code /\ p.ver = q.ver
      BY <3>1 DEF QuoteRow
    <3>3. p \in quotes'
      BY <2>1, <2>2
    <3> QED BY <3>2, <3>3
  <2>3. CASE q \notin Renumbered(r)
    BY <2>1, <2>3
  <2> QED BY <2>2, <2>3
<1>3. CASE req[r].kind # "renumber"
  BY <1>3 DEF Commit, Written, RowsStay
<1> QED BY <1>2, <1>3

LEMMA StepGrows == IInv /\ [Next]_vars => Grown
<1> SUFFICES ASSUME IInv, [Next]_vars PROVE Grown
  OBVIOUS
<1>0. Typed /\ \A k \in Keys : counter[k] \in Nat
  BY DEF IInv, Typed
<1>1. ASSUME NEW r \in Reqs, Act(r) PROVE Grown
  <2>1. CASE Commit(r)
    <3>1. RowsStay /\ \A k \in Keys : counter'[k] >= counter[k]
      BY <2>1, CommitRows, CommitCounters
    <3> QED BY <2>1, <3>1 DEF Commit, Grown
  <2>2. CASE RecordNumber(r)
    <3>1. \A k \in Keys : counter'[k] >= counter[k]
      <4>1. CASE UNCHANGED counter
        BY <1>0, <4>1
      <4>2. CASE Record(KeyOf(req[r].num), req[r].num[3])
        BY <1>0, <2>2, <4>2, RecordSo, RecordedTyped DEF RecordNumber
      <4> QED BY <2>2, <4>1, <4>2 DEF RecordNumber, KeyOf
    <3> QED BY <2>2, <3>1 DEF RecordNumber, Grown, RowsStay, hist
  <2>3. CASE RecordCode(r)
    <3>1. \A k \in Keys : counter'[k] >= counter[k]
      <4>1. Record(KeyOf(req[r].code), req[r].code[3])
        BY <2>3 DEF RecordCode, KeyOf
      <4>2. KeyOf(req[r].code) \in Keys /\ req[r].code[3] \in Nat
        BY <2>3, RecordedTyped DEF RecordCode
      <4> QED BY <1>0, <4>1, <4>2, RecordSo
    <3> QED BY <2>3, <3>1 DEF RecordCode, Grown, RowsStay, hist
  <2>4. CASE UNCHANGED <<year, counter, quotes, given, blind>>
    BY <1>0, <2>4 DEF Grown, RowsStay
  <2>5. CASE Arrive(r)
    <3>1. PICK c \in Request : Begin(r, c)
      BY <1>0, <2>5, BeginSo DEF IInv
    <3> QED BY <2>4, <3>1 DEF Begin, db, hist
  <2>6. AskNumber(r) \/ GetNumber(r) \/ TakeManual(r) \/ GetCode(r) \/ NoCode(r) \/ Collide(r)
        \/ Refuse(r) \/ Retry(r) \/ RecordFails(r) \/ Abort(r)
        => UNCHANGED <<year, counter, quotes, given, blind>>
    BY DEF AskNumber, GetNumber, TakeManual, GetCode, NoCode, Collide, Refuse, Retry,
       RecordFails, Abort, db, hist
  <2> QED BY <1>1, <2>1, <2>2, <2>3, <2>4, <2>5, <2>6 DEF Act, Step, Stop
<1>2. ASSUME NEW q \in quotes, Delete(q) PROVE Grown
  <2>1. RowsStay
    BY <1>0, <1>2, DeleteSo DEF RowsStay
  <2> QED BY <1>0, <1>2, <2>1 DEF Delete, Grown, hist
<1>3. CASE NewYear
  BY <1>0, <1>3 DEF NewYear, Grown, RowsStay, db, hist
<1>4. CASE UNCHANGED vars
  BY <1>0, <1>4 DEF vars, Grown, RowsStay
<1> QED BY <1>1, <1>2, <1>3, <1>4, NextIs

\* What a call has is left to it by everybody else: its locals, and the counter
\* rows it holds.
Undisturbed(s) ==
    /\ pc'[s] = pc[s] /\ req'[s] = req[s] /\ own'[s] = own[s] /\ todo'[s] = todo[s]
    /\ hits'[s] = hits[s] /\ lost'[s] = lost[s]
    /\ \A k \in DOMAIN own[s] : counter'[k] = counter[k]

LEMMA Aside ==
    ASSUME IInv, NEW r \in Reqs, Act(r), NEW s \in Reqs \ {r}
    PROVE  Undisturbed(s)
<1>0. /\ Typed /\ LocksFollow
      /\ DOMAIN own[s] \subseteq Keys
      /\ \A k \in DOMAIN own[s] : lock[k] = s
  BY DEF IInv, Typed, LocksFollow
<1>1. own'[s] = own[s]
  <2>1. ASSUME NEW k \in Keys, NEW n \in Nat, WriteCounter(r, k, n) PROVE own'[s] = own[s]
    BY <1>0, <2>1, WriteTyped
  <2>2. EndTransaction(r) => own'[s] = own[s]
    BY <1>0, EndTyped
  <2> QED BY <2>1, <2>2, LockSteps
<1>2. CASE Commit(r)
  <2>1. \A k \in DOMAIN own[s] : counter'[k] = counter[k]
    <3>1. \A k \in DOMAIN own[s] : k \notin DOMAIN own[r]
      BY <1>0 DEF LocksFollow
    <3> QED BY <1>0, <1>2, <3>1, CommitCounters
  <2> QED BY <1>0, <1>1, <1>2, <2>1, EndSo DEF Commit, Undisturbed, Ended
<1>3. CASE Refuse(r) \/ Abort(r)
  BY <1>0, <1>1, <1>3, EndSo DEF Refuse, Abort, Undisturbed, Ended, db
<1>4. CASE Collide(r)
  <2>1. hits'[s] = hits[s] /\ pc'[s] = pc[s] /\ todo'[s] = todo[s]
    BY <1>0, <1>4 DEF Collide, Typed
  <2> QED BY <1>1, <1>4, <2>1 DEF Collide, Undisturbed, db
<1>5. CASE RecordNumber(r)
  <2>1. \A k \in DOMAIN own[s] : counter'[k] = counter[k]
    <3>1. CASE Record(KeyOf(req[r].num), req[r].num[3])
      <4>1. KeyOf(req[r].num) \in Keys /\ req[r].num[3] \in Nat
        BY <1>5, RecordedTyped DEF RecordNumber
      <4>2. KeyOf(req[r].num) \notin DOMAIN own[s]
        BY <1>0, <3>1 DEF Record
      <4> QED BY <1>0, <3>1, <4>1, <4>2, RecordSo
    <3>2. CASE UNCHANGED counter
      BY <3>2
    <3> QED BY <1>5, <3>1, <3>2 DEF RecordNumber, KeyOf
  <2>2. todo'[s] = todo[s]
    BY <1>0, <1>5 DEF RecordNumber, Typed
  <2> QED BY <1>1, <1>5, <2>1, <2>2 DEF RecordNumber, Undisturbed, hist
<1>6. CASE RecordCode(r)
  <2>1. \A k \in DOMAIN own[s] : counter'[k] = counter[k]
    <3>1. Record(KeyOf(req[r].code), req[r].code[3])
      BY <1>6 DEF RecordCode, KeyOf
    <3>2. KeyOf(req[r].code) \in Keys /\ req[r].code[3] \in Nat
      BY <1>6, RecordedTyped DEF RecordCode
    <3>3. KeyOf(req[r].code) \notin DOMAIN own[s]
      BY <1>0, <3>1 DEF Record
    <3> QED BY <1>0, <3>1, <3>2, <3>3, RecordSo
  <2>2. todo'[s] = todo[s]
    BY <1>0, <1>6 DEF RecordCode, Typed
  <2> QED BY <1>1, <1>6, <2>1, <2>2 DEF RecordCode, Undisturbed, hist
<1>7. CASE RecordFails(r)
  <2>1. todo'[s] = todo[s] /\ lost'[s] = lost[s]
    BY <1>0, <1>7 DEF RecordFails, Typed
  <2> QED BY <1>1, <1>7, <2>1 DEF RecordFails, Undisturbed, db
<1>8. CASE Retry(r)
  <2>1. req'[s] = req[s] /\ pc'[s] = pc[s]
    BY <1>0, <1>8 DEF Retry, Typed
  <2> QED BY <1>1, <1>8, <2>1 DEF Retry, Undisturbed, db, hist
<1>9. CASE AskNumber(r) \/ GetNumber(r) \/ TakeManual(r) \/ GetCode(r) \/ NoCode(r)
  <2>1. req'[s] = req[s] /\ pc'[s] = pc[s]
    BY <1>0, <1>9 DEF AskNumber, GetNumber, TakeManual, GetCode, NoCode, Typed
  <2> QED BY <1>1, <1>9, <2>1 DEF AskNumber, GetNumber, TakeManual, GetCode, NoCode,
         Undisturbed, db, hist
<1>10. CASE Arrive(r)
  <2>1. PICK c \in Request : Begin(r, c)
    BY <1>0, <1>10, BeginSo DEF IInv
  <2>2. req'[s] = req[s] /\ pc'[s] = pc[s]
    BY <1>0, <2>1 DEF Begin, Typed
  <2> QED BY <1>1, <2>1, <2>2 DEF Begin, Undisturbed, db, hist
<1> QED BY <1>2, <1>3, <1>4, <1>5, <1>6, <1>7, <1>8, <1>9, <1>10 DEF Act, Step, Stop

-----------------------------------------------------------------------------
(***************************************************************************)
(* What is so of a call stays so whatever the others do.                   *)
(***************************************************************************)

\* A counter row of this model never holds less than it did.
LEMMA BehindStays ==
    ASSUME Typed, Typed', Grown, NEW v \in Numbers, NEW y \in Years
    PROVE  /\ Behind(v, y) => Behind(v, y)'
           /\ Behind(v, year) => Behind(v, year)'
<1>1. /\ KeyOf(v) \in Keys /\ v[2] \in Nat /\ v[3] \in Nat /\ y \in Nat /\ year \in Nat
      /\ year' \in {year, year + 1}
  BY Shape DEF Typed, Grown
<1>2. /\ counter[KeyOf(v)] \in Nat /\ counter'[KeyOf(v)] \in Nat
      /\ counter'[KeyOf(v)] >= counter[KeyOf(v)]
  BY <1>1 DEF Typed, Grown
<1> QED BY <1>1, <1>2 DEF Behind

LEMMA FirstYearPassed ==
    ASSUME Typed, Typed', Grown, year' = Min(Years)
    PROVE  year = Min(Years)
<1>1. Min(Years) \in Nat /\ Min(Years) =< year /\ year \in Nat /\ year' \in {year, year + 1}
  BY FirstYear DEF Typed, Grown
<1> QED BY <1>1

LEMMA Bystander ==
    ASSUME Typed, Typed', Grown, NEW s \in Reqs, Orderly(s), Undisturbed(s)
    PROVE  Orderly(s)'
<1> DEFINE c == req[s]
<1>1. CallShape(s)'
  BY DEF Orderly, CallShape, Carries, Undisturbed, Grown
<1>2. Numbered(s)'
  <2>1. year \in Nat /\ (year' = year \/ year' = year + 1)
    BY DEF Typed, Grown
  <2>2. \A y \in Nat : y <= year => y <= year'
    BY <2>1
  <2>3. pc[s] = "upsert" => req[s].askedYear \in Nat
    BY DEF Orderly, Numbered
  <2>4. pc[s] \in {"code", "write", "again"} => req[s].num[2] \in Nat
    BY Shape DEF Orderly, Numbered
  <2> QED BY <2>2, <2>3, <2>4 DEF Orderly, Numbered, Undisturbed
<1>3. Coded(s)'
  BY DEF Orderly, Coded, Undisturbed
<1>4. Writes(s)'
  BY DEF Orderly, Writes, Undisturbed, KeyOf
<1>5. Recording(s)'
  BY DEF Orderly, Recording, Undisturbed, Grown
<1>6. Passed(s)'
  <2> SUFFICES ASSUME pc[s] \in Underway, ~lost[s]
               PROVE  /\ \A h \in hits[s] : (MetNumber(s, h) \/ MetCode(s, h) \/ MetVersion(s, h))'
                      /\ NumbersPassed(s)' /\ CodesPassed(s)' /\ VersionsPassed(s)'
    BY DEF Passed, Undisturbed
  <2>1. /\ \A h \in hits[s] : MetNumber(s, h) \/ MetCode(s, h) \/ MetVersion(s, h)
        /\ NumbersPassed(s) /\ CodesPassed(s) /\ VersionsPassed(s)
    BY DEF Orderly, Passed
  <2>2. \A h \in hits[s] : (MetNumber(s, h) \/ MetCode(s, h) \/ MetVersion(s, h))'
    BY <2>1 DEF MetNumber, MetCode, MetVersion, Undisturbed, Grown, RowsStay
  <2>3. NumbersPassed(s)'
    <3> SUFFICES ASSUME NEW h \in hits[s], h[2] = 1, h[1] \in Numbers
                 PROVE  /\ pc[s] \in {"number", "code", "write"} => Behind(h[1], year)'
                        /\ pc[s] = "upsert" => Behind(h[1], req[s].askedYear)'
                        /\ pc[s] \in {"code", "write"} => h[1] # req[s].num
                        /\ pc[s] = "again" => \/ Behind(h[1], year)'
                                              \/ h[1] = req[s].num /\ "number" \in todo[s]
      BY DEF NumbersPassed, Undisturbed
    <3>1. pc[s] = "upsert" => req[s].askedYear \in Years /\ req'[s] = req[s]
      BY DEF Orderly, Numbered, Undisturbed
    <3>2. Behind(h[1], year) => Behind(h[1], year)'
      BY BehindStays DEF Typed
    <3>3. pc[s] = "upsert" => (Behind(h[1], req[s].askedYear) => Behind(h[1], req[s].askedYear)')
      BY <3>1, BehindStays
    <3> QED BY <2>1, <3>2, <3>3 DEF NumbersPassed
  <2>4. CodesPassed(s)'
    <3> SUFFICES ASSUME NEW h \in hits[s], h[2] = 1, h[1] \in Codes
                 PROVE  counter[KeyOf(h[1])] >= h[1][3] => counter'[KeyOf(h[1])] >= h[1][3]
      BY <2>1 DEF CodesPassed, Undisturbed, KeyOf
    <3>1. KeyOf(h[1]) \in Keys /\ h[1][3] \in Nat
      BY Shape
    <3> QED BY <3>1 DEF Typed, Grown
  <2>5. VersionsPassed(s)'
    BY <2>1 DEF VersionsPassed, Undisturbed
  <2> QED BY <2>2, <2>3, <2>4, <2>5
<1>7. MeetsAnother(s)'
  BY DEF Orderly, MeetsAnother, Undisturbed
<1>8. MeetsBlind(s)'
  BY FirstYearPassed DEF Orderly, MeetsBlind, Undisturbed, Grown
<1> QED BY <1>1, <1>2, <1>3, <1>4, <1>5, <1>6, <1>7, <1>8 DEF Orderly

-----------------------------------------------------------------------------
(***************************************************************************)
(* What the quotes carry, and what the counters know of it.                *)
(***************************************************************************)

\* A committed number is one the counter of its year knows now, or blind.
LEMMA CommitGiven ==
    ASSUME IInv, NEW r \in Reqs, Commit(r)
    PROVE  /\ req[r].num \in Numbers
           /\ Unseen(r) \/ counter'[KeyOf(req[r].num)] >= req[r].num[3]
           /\ req[r].code # None =>
                req[r].code \in given \/ counter'[KeyOf(req[r].code)] >= req[r].code[3]
<1>0. /\ Typed /\ CallShape(r) /\ Numbered(r) /\ Coded(r) /\ Writes(r) /\ pc[r] = "write"
      /\ Carries(req[r]) /\ req[r] \in Request /\ DOMAIN own[r] \subseteq Keys
  BY DEF IInv, Orderly, Commit, CallShape, Underway, InTx, Typed
<1>1. req[r].num \in Numbers /\ req[r].num[3] \in Nat
  BY <1>0, Shape DEF Numbered
<1>2. \A k \in DOMAIN own[r] : counter'[k] = own[r][k]
  BY <1>0, CommitCounters
<1>3. Unseen(r) \/ counter'[KeyOf(req[r].num)] >= req[r].num[3]
  <2>1. CASE req[r].manual = None
    <3> SUFFICES ASSUME ~Unseen(r) PROVE counter'[KeyOf(req[r].num)] >= req[r].num[3]
      OBVIOUS
    <3>1. KeyOf(req[r].num) = <<req[r].prefix, req[r].askedYear>>
      BY <1>0, <2>1 DEF Unseen, Numbered, KeyOf
    <3>2. /\ KeyOf(req[r].num) \in DOMAIN own[r]
          /\ own[r][KeyOf(req[r].num)] = req[r].num[3]
      BY <1>0, <2>1, <3>1 DEF Writes
    <3> QED BY <1>1, <1>2, <3>2
  <2>2. CASE req[r].manual # None
    BY <1>0, <1>2, <2>2 DEF Unseen, Writes
  <2> QED BY <2>1, <2>2
<1>4. ASSUME req[r].code # None
      PROVE  req[r].code \in given \/ counter'[KeyOf(req[r].code)] >= req[r].code[3]
  <2>1. CASE req[r].owner # None
    <3>1. req[r].code \in Codes /\ req[r].code[3] \in Nat
      BY <1>0, <2>1, Shape DEF Coded, Carries
    <3> QED BY <1>0, <1>2, <2>1, <3>1 DEF Writes
  <2>2. CASE req[r].owner = None /\ req[r].kind # "renumber"
    BY <1>0, <1>4, <2>2 DEF Coded, Carries
  <2>3. CASE req[r].kind = "renumber"
    BY <1>0, <1>4, <2>3 DEF Coded, Carries
  <2> QED BY <2>1, <2>2, <2>3
<1> QED BY <1>1, <1>3, <1>4

\* The rows a commit leaves carry what was given.
LEMMA CommitCarries ==
    ASSUME IInv, NEW r \in Reqs, Commit(r), NEW p \in quotes'
    PROVE  p.num \in given' /\ (p.code # None => p.code \in given')
<1>0. /\ quotes \subseteq QuoteRow /\ GivenKnown
      /\ given' = given \cup ({req[r].num, req[r].code} \ {None})
      /\ req[r].num # None /\ quotes' = Written(r)
  BY CommitGiven, Shape DEF IInv, Typed, Commit
<1>1. CASE p \in quotes
  BY <1>0, <1>1 DEF GivenKnown
<1>2. CASE req[r].kind = "renumber" /\ p \notin quotes
  <2>1. PICK q \in Renumbered(r) : p = [q EXCEPT !.num = req[r].num, !.auto = FALSE]
    BY <1>0, <1>2 DEF Written
  <2>2. q \in QuoteRow /\ q \in quotes
    BY <1>0, <2>1 DEF Renumbered
  <2>3. p.num = req[r].num /\ p.code = q.code
    BY <2>1, <2>2 DEF QuoteRow
  <2> QED BY <1>0, <2>2, <2>3 DEF GivenKnown
<1>3. CASE req[r].kind # "renumber" /\ p \notin quotes
  BY <1>0, <1>3 DEF Written, NewRow
<1> QED BY <1>1, <1>2, <1>3

\* A step that gives nothing leaves what was given known.
LEMMA GivenKept == IInv /\ [Next]_vars => GivenKnown'
<1> SUFFICES ASSUME IInv, [Next]_vars PROVE GivenKnown'
  OBVIOUS
<1>0. Typed /\ GivenKnown /\ Grown /\ Typed'
  BY StepGrows, NextTyped DEF IInv
<1>1. \A g \in given \ blind : counter'[KeyOf(g)] >= g[3]
  <2> SUFFICES ASSUME NEW g \in given \ blind PROVE counter'[KeyOf(g)] >= g[3]
    OBVIOUS
  <2>1. KeyOf(g) \in Keys /\ g[3] \in Nat
    BY <1>0, Shape DEF Typed
  <2> QED BY <1>0, <2>1 DEF GivenKnown, Grown, Typed
<1>2. ASSUME NEW r \in Reqs, Commit(r) PROVE GivenKnown'
  <2>1. /\ given' = given \cup ({req[r].num, req[r].code} \ {None})
        /\ blind' = blind \cup (IF Unseen(r) THEN {req[r].num} ELSE {})
    BY <1>2 DEF Commit
  <2>2. ASSUME NEW g \in given' \ blind' PROVE counter'[KeyOf(g)] >= g[3]
    <3>1. CASE g \in given
      BY <1>1, <2>1, <2>2, <3>1
    <3>2. CASE g = req[r].num
      BY <1>2, <2>1, <2>2, <3>2, CommitGiven
    <3>3. CASE g = req[r].code /\ g # None /\ g \notin given
      BY <1>2, <3>3, CommitGiven
    <3> QED BY <2>1, <2>2, <3>1, <3>2, <3>3
  <2> QED BY <1>2, <2>2, CommitCarries, Zenon DEF GivenKnown
<1>3. CASE UNCHANGED <<quotes, given, blind>>
  BY <1>0, <1>1, <1>3 DEF GivenKnown
<1>4. ASSUME NEW q \in quotes, Delete(q) PROVE GivenKnown'
  <2>1. UNCHANGED <<given, blind>>
    BY <1>4 DEF Delete, hist
  <2>2. \A p \in quotes' : \E s \in quotes : p.num = s.num /\ p.code = s.code
    BY <1>0, <1>4, DeleteSo
  <2> QED BY <1>0, <1>1, <2>1, <2>2 DEF GivenKnown
<1>5. ASSUME NEW r \in Reqs, Act(r), ~Commit(r) PROVE UNCHANGED <<quotes, given, blind>>
  <2>1. CASE Arrive(r)
    <3>1. PICK c \in Request : Begin(r, c)
      BY <1>0, <2>1, BeginSo
    <3> QED BY <3>1 DEF Begin, db, hist
  <2> QED BY <1>5, <2>1 DEF Act, Step, Stop, AskNumber, GetNumber, TakeManual, GetCode, NoCode,
         Collide, Refuse, Retry, RecordNumber, RecordCode, RecordFails, Abort, db, hist
<1>6. NewYear \/ UNCHANGED vars => UNCHANGED <<quotes, given, blind>>
  BY DEF NewYear, vars, db, hist
<1> QED BY <1>2, <1>3, <1>4, <1>5, <1>6, NextIs

\* A counter row of a number moves only to a number given, or given later.
LEMMA BurntKept == IInv /\ [Next]_vars => NumberNotBurnt'
<1> SUFFICES ASSUME IInv, [Next]_vars, NEW p \in Prefixes, NEW y \in Years,
                    counter'[<<p, y>>] > 0
             PROVE  \/ <<p, y, counter'[<<p, y>>]>> \in given'
                    \/ \E z \in Years : z > y /\ <<p, z, counter'[<<p, y>>]>> \in blind'
  BY DEF NumberNotBurnt
<1> DEFINE k == <<p, y>>
           n == counter'[<<p, y>>]
<1>0. /\ Typed /\ Grown /\ k \in Keys /\ p \notin Owners /\ k[1] = p /\ k[2] = y
      /\ counter[k] > 0 => \/ <<p, y, counter[k]>> \in given
                           \/ \E z \in Years : z > y /\ <<p, z, counter[k]>> \in blind
  BY StepGrows DEF IInv, NumberNotBurnt, Keys
<1>1. CASE counter'[k] = counter[k]
  BY <1>0, <1>1 DEF Grown
<1>2. ASSUME NEW r \in Reqs, Commit(r), counter'[k] # counter[k]
      PROVE  \/ <<p, y, n>> \in given'
             \/ \E z \in Years : z > y /\ <<p, z, n>> \in blind'
  <2>1. /\ pc[r] = "write" /\ Writes(r) /\ Numbered(r)
        /\ k \in DOMAIN own[r] /\ counter'[k] = own[r][k]
    BY <1>0, <1>2, CommitCounters DEF IInv, Orderly, Commit
  <2>2. /\ n = req[r].num[3] /\ p = req[r].num[1]
        /\ \/ y = req[r].num[2]
           \/ /\ req[r].manual = None
              /\ y = req[r].askedYear /\ y < req[r].num[2]
    BY <1>0, <1>2, <2>1 DEF Writes
  <2>3. /\ req[r].num \in Numbers /\ req[r].num # None /\ req[r].num[2] \in Years
        /\ req[r].num = <<req[r].num[1], req[r].num[2], req[r].num[3]>>
    BY <2>1, Shape DEF Numbered
  <2>4. /\ req[r].num \in given'
        /\ Unseen(r) => req[r].num \in blind'
    BY <1>2, <2>3 DEF Commit
  <2>5. CASE y = req[r].num[2]
    BY <2>2, <2>3, <2>4, <2>5
  <2>6. CASE req[r].manual = None /\ y = req[r].askedYear /\ y < req[r].num[2]
    <3>1. Unseen(r)
      <4>1. req[r].num[2] # req[r].askedYear
        BY <2>3, <2>6
      <4> QED BY <2>6, <4>1 DEF Unseen
    <3>2. <<p, req[r].num[2], n>> \in blind' /\ req[r].num[2] > y
      BY <2>2, <2>3, <2>4, <2>6, <3>1
    <3> QED BY <2>3, <3>2
  <2> QED BY <2>2, <2>5, <2>6
<1>3. ASSUME NEW r \in Reqs, RecordNumber(r), counter'[k] # counter[k]
      PROVE  <<p, y, n>> \in given'
  <2>1. req[r].num \in Numbers /\ KeyOf(req[r].num) \in Keys /\ req[r].num[3] \in Nat
    BY <1>3, RecordedTyped DEF RecordNumber
  <2>2. Record(KeyOf(req[r].num), req[r].num[3])
    BY <1>3 DEF RecordNumber, KeyOf
  <2>3. k = KeyOf(req[r].num) /\ n = req[r].num[3]
    BY <1>0, <1>3, <2>1, <2>2, RecordSo
  <2>4. req[r].num = <<p, y, n>>
    BY <2>1, <2>3, Shape DEF KeyOf
  <2>5. req[r].num \in given
    BY <1>3 DEF RecordNumber, IInv, Orderly, Recording
  <2> QED BY <1>0, <2>4, <2>5 DEF Grown
<1>4. ASSUME NEW r \in Reqs, RecordCode(r) PROVE counter'[k] = counter[k]
  <2>1. req[r].code \in Codes /\ KeyOf(req[r].code) \in Keys /\ req[r].code[3] \in Nat
    BY <1>4, RecordedTyped DEF RecordCode
  <2>2. k # KeyOf(req[r].code)
    BY <1>0, <2>1, Shape DEF KeyOf
  <2>3. Record(KeyOf(req[r].code), req[r].code[3])
    BY <1>4 DEF RecordCode, KeyOf
  <2> QED BY <1>0, <2>1, <2>2, <2>3, RecordSo
<1>5. ASSUME NEW r \in Reqs, Act(r), ~Commit(r), ~RecordNumber(r), ~RecordCode(r)
      PROVE  UNCHANGED counter
  <2>1. CASE Arrive(r)
    <3>1. PICK c \in Request : Begin(r, c)
      BY <1>0, <2>1, BeginSo DEF IInv
    <3> QED BY <3>1 DEF Begin, db
  <2> QED BY <1>5, <2>1 DEF Act, Step, Stop, AskNumber, GetNumber, TakeManual, GetCode, NoCode,
         Collide, Refuse, Retry, RecordFails, Abort, db
<1>6. (\E q \in quotes : Delete(q)) \/ NewYear \/ UNCHANGED vars => UNCHANGED counter
  BY DEF Delete, NewYear, vars, db
<1> QED BY <1>1, <1>2, <1>3, <1>4, <1>5, <1>6, NextIs

-----------------------------------------------------------------------------
(***************************************************************************)
(* What a step does to its own call.                                       *)
(***************************************************************************)

LEMMA ArriveOrderly ==
    ASSUME IInv, Grown, NEW r \in Reqs, Arrive(r)
    PROVE  Orderly(r)'
<1>0. Typed /\ CallShape(r)
  BY DEF IInv, Orderly
<1>1. PICK c \in Request : Begin(r, c) /\ Carries(c) /\ c.attempt = 0
  BY <1>0, BeginSo DEF IInv
<1>2. /\ pc[r] = "idle" /\ pc'[r] = "number" /\ req'[r] = c /\ own'[r] = <<>>
      /\ hits'[r] = {} /\ lost'[r] = FALSE /\ UNCHANGED given
  BY <1>0, <1>1 DEF Begin, Typed, CallShape, hist
<1>3. CallShape(r)'
  BY <1>1, <1>2 DEF CallShape, Carries
<1>4. Numbered(r)' /\ Coded(r)' /\ Writes(r)' /\ Recording(r)'
  BY <1>2 DEF Numbered, Coded, Writes, Recording
<1>5. Passed(r)' /\ MeetsBlind(r)'
  BY <1>2 DEF Passed, NumbersPassed, CodesPassed, VersionsPassed, MeetsBlind
<1>6. MeetsAnother(r)'
  BY <1>1, <1>2, FS_EmptySet DEF MeetsAnother
<1> QED BY <1>3, <1>4, <1>5, <1>6 DEF Orderly

\* A call that has ended has nothing left.
LEMMA EndOrderly ==
    ASSUME IInv, NEW r \in Reqs, Commit(r) \/ Refuse(r) \/ Abort(r)
    PROVE  Orderly(r)'
<1>0. Typed
  BY DEF IInv
<1>1. /\ pc'[r] \in {"done", "aborted"} /\ hits'[r] = {} /\ own'[r] = <<>>
  BY <1>0, EndSo, EndTyped DEF Commit, Refuse, Abort, Ended
<1>2. CallShape(r)' /\ Numbered(r)' /\ Coded(r)' /\ Writes(r)' /\ Recording(r)'
  BY <1>1 DEF CallShape, Numbered, Coded, Writes, Recording, Underway, InTx
<1>3. Passed(r)' /\ MeetsBlind(r)' /\ MeetsAnother(r)'
  BY <1>1 DEF Passed, MeetsBlind, MeetsAnother, Underway, InTx
<1> QED BY <1>2, <1>3 DEF Orderly

\* What a step within a try leaves of the values met.
LEMMA HitsStand ==
    ASSUME IInv, Grown, NEW r \in Reqs, pc[r] \in Underway, pc'[r] \in Underway, ~lost'[r],
           lost'[r] = lost[r], hits'[r] = hits[r],
           req'[r].kind = req[r].kind, req'[r].owner = req[r].owner,
           req'[r].manual = req[r].manual, req'[r].base = req[r].base
    PROVE  \A h \in hits'[r] : (MetNumber(r, h) \/ MetCode(r, h) \/ MetVersion(r, h))'
<1>1. \A h \in hits[r] : MetNumber(r, h) \/ MetCode(r, h) \/ MetVersion(r, h)
  BY DEF IInv, Orderly, Passed
<1> QED BY <1>1 DEF MetNumber, MetCode, MetVersion, Grown, RowsStay

LEMMA AskOrderly ==
    ASSUME IInv, Grown, Typed', NEW r \in Reqs, AskNumber(r)
    PROVE  Orderly(r)'
<1>0. Typed /\ Orderly(r) /\ req[r] \in Request /\ year \in Years
  BY DEF IInv, Typed
<1>1. /\ pc[r] = "number" /\ pc'[r] = "upsert" /\ req'[r] = [req[r] EXCEPT !.askedYear = year]
      /\ own'[r] = own[r] /\ hits'[r] = hits[r] /\ lost'[r] = lost[r]
      /\ UNCHANGED <<year, counter, quotes, given, blind>>
  BY <1>0 DEF AskNumber, Typed, db, hist
<1>2. /\ req'[r].askedYear = year /\ req'[r].kind = req[r].kind /\ req'[r].owner = req[r].owner
      /\ req'[r].manual = req[r].manual /\ req'[r].base = req[r].base
      /\ req'[r].prefix = req[r].prefix /\ req'[r].baseVer = req[r].baseVer
      /\ req'[r].ver = req[r].ver /\ req'[r].attempt = req[r].attempt
      /\ req'[r].code = req[r].code
  BY <1>0, <1>1 DEF Request
<1>3. CallShape(r)'
  BY <1>0, <1>1, <1>2 DEF Orderly, CallShape, Carries, Underway, InTx
<1>4. Numbered(r)' /\ Coded(r)' /\ Writes(r)' /\ Recording(r)'
  <2>1. req[r].manual = None /\ year <= year
    BY <1>0 DEF AskNumber
  <2> QED BY <1>0, <1>1, <1>2, <2>1 DEF Numbered, Coded, Writes, Recording
<1>5. Passed(r)'
  <2> SUFFICES ASSUME ~lost[r] PROVE Passed(r)'
    BY <1>1 DEF Passed
  <2>1. \A h \in hits'[r] : (MetNumber(r, h) \/ MetCode(r, h) \/ MetVersion(r, h))'
    BY <1>1, <1>2, HitsStand DEF Underway, InTx
  <2>2. NumbersPassed(r) /\ CodesPassed(r)
    BY <1>0, <1>1 DEF Orderly, Passed, Underway, InTx
  <2>3. NumbersPassed(r)'
    BY <1>1, <1>2, <2>2 DEF NumbersPassed, Behind
  <2>4. CodesPassed(r)' /\ VersionsPassed(r)'
    BY <1>1, <2>2 DEF CodesPassed, VersionsPassed, InTx, KeyOf
  <2> QED BY <2>1, <2>3, <2>4 DEF Passed
<1>6. MeetsAnother(r)' /\ MeetsBlind(r)'
  BY <1>0, <1>1, <1>2 DEF Orderly, MeetsAnother, MeetsBlind, InTx
<1> QED BY <1>3, <1>4, <1>5, <1>6 DEF Orderly

LEMMA GetNumberOrderly ==
    ASSUME IInv, Grown, Typed', NEW r \in Reqs, GetNumber(r)
    PROVE  Orderly(r)'
<1> DEFINE k == <<req[r].prefix, req[r].askedYear>>
           n == counter[k] + 1
           m == <<req[r].prefix, year, n>>
<1>0. /\ Typed /\ Orderly(r) /\ req[r] \in Request /\ year \in Years /\ pc[r] = "upsert"
      /\ own[r] = <<>> /\ Carries(req[r]) /\ req[r].manual = None
      /\ req[r].askedYear \in Years /\ req[r].askedYear <= year
  BY DEF IInv, Typed, GetNumber, Orderly, CallShape, Numbered, Underway, InTx
<1>1. k \in Keys /\ Value(r, k) = counter[k] /\ counter[k] \in Nat
  <2>1. k \in Keys
    BY <1>0, CallKeys DEF Orderly
  <2> QED BY <1>0, <2>1 DEF Value, Typed
<1>2. m \in Numbers /\ m[1] = req[r].prefix /\ m[2] = year /\ m[3] = n /\ KeyOf(m) = <<m[1], m[2]>>
  BY <1>0, <1>1, MadeOf DEF Carries, KeyOf
<1>3. WriteCounter(r, k, n) /\ req'[r] = [req[r] EXCEPT !.num = m] /\ pc'[r] = "code"
  BY <1>0, <1>1 DEF GetNumber, Typed
<1> HIDE DEF m
<1>4. /\ hits'[r] = hits[r] /\ lost'[r] = lost[r]
      /\ UNCHANGED <<year, counter, quotes, given, blind>>
  BY DEF GetNumber, db, hist
<1>5. /\ req'[r].num = m /\ req'[r].askedYear = req[r].askedYear
      /\ req'[r].kind = req[r].kind /\ req'[r].owner = req[r].owner
      /\ req'[r].manual = req[r].manual /\ req'[r].base = req[r].base
      /\ req'[r].prefix = req[r].prefix /\ req'[r].baseVer = req[r].baseVer
      /\ req'[r].ver = req[r].ver /\ req'[r].attempt = req[r].attempt
      /\ req'[r].code = req[r].code
  BY <1>0, <1>3 DEF Request
<1>6. DOMAIN own'[r] = {k} /\ own'[r][k] = n
  <2>1. DOMAIN own[r] = {}
    BY <1>0
  <2>2. n \in Nat
    BY <1>1
  <2> QED BY <1>0, <1>1, <1>3, <2>1, <2>2, WriteTyped
<1>7. CallShape(r)'
  BY <1>0, <1>3, <1>4, <1>5 DEF Orderly, CallShape, Carries, Underway, InTx
<1>8. Numbered(r)' /\ Coded(r)' /\ Recording(r)'
  BY <1>0, <1>2, <1>3, <1>4, <1>5 DEF Numbered, Coded, Recording, Typed
<1>9. Writes(r)'
  <2>1. n >= counter[k] /\ n > counter[k]
    BY <1>1
  <2>2. k = <<m[1], m[2]>> \/ (k[1] = m[1] /\ k[2] = req[r].askedYear /\ k[2] < m[2])
    <3>1. req[r].askedYear \in Nat /\ year \in Nat
      BY <1>0
    <3>2. req[r].askedYear = year \/ req[r].askedYear < year
      BY <1>0, <3>1
    <3> QED BY <1>2, <3>2
  <2> QED BY <1>0, <1>2, <1>3, <1>4, <1>5, <1>6, <2>1, <2>2 DEF Writes
<1>10. Passed(r)'
  <2> SUFFICES ASSUME ~lost[r] PROVE Passed(r)'
    BY <1>4 DEF Passed
  <2>1. \A h \in hits'[r] : (MetNumber(r, h) \/ MetCode(r, h) \/ MetVersion(r, h))'
    BY <1>0, <1>3, <1>4, <1>5, HitsStand DEF Underway, InTx
  <2>2. NumbersPassed(r) /\ CodesPassed(r)
    BY <1>0 DEF Orderly, Passed, Underway, InTx
  <2>3. NumbersPassed(r)'
    <3> SUFFICES ASSUME NEW h \in hits[r], h[2] = 1, h[1] \in Numbers
                 PROVE  Behind(h[1], year) /\ h[1] # m
      BY <1>3, <1>4, <1>5 DEF NumbersPassed, Behind
    <3>1. Behind(h[1], req[r].askedYear)
      BY <1>0, <2>2 DEF NumbersPassed
    <3>2. h[1][2] \in Nat /\ h[1][3] \in Nat /\ req[r].askedYear \in Nat /\ year \in Nat
      BY <1>0, Shape
    <3>3. Behind(h[1], year)
      BY <1>0, <3>1, <3>2 DEF Behind
    <3>4. h[1] # m
      <4> SUFFICES ASSUME h[1] = m PROVE FALSE
        OBVIOUS
      <4>1. req[r].askedYear = year /\ counter[KeyOf(m)] >= n
        BY <1>0, <1>2, <3>1, <3>2 DEF Behind
      <4>2. KeyOf(m) = k
        BY <1>2, <4>1
      <4> QED BY <1>1, <4>1, <4>2
    <3> QED BY <3>3, <3>4
  <2>4. CodesPassed(r)' /\ VersionsPassed(r)'
    BY <1>0, <1>3, <1>4, <2>2 DEF CodesPassed, VersionsPassed, InTx, KeyOf
  <2> QED BY <2>1, <2>3, <2>4 DEF Passed
<1>11. MeetsAnother(r)' /\ MeetsBlind(r)'
  BY <1>0, <1>3, <1>4, <1>5 DEF Orderly, MeetsAnother, MeetsBlind, InTx
<1> QED BY <1>7, <1>8, <1>9, <1>10, <1>11 DEF Orderly

LEMMA TakeManualOrderly ==
    ASSUME IInv, Grown, Typed', NEW r \in Reqs, TakeManual(r)
    PROVE  Orderly(r)'
<1> DEFINE m == req[r].manual
           k == <<m[1], m[2]>>
           n == Raised(counter[k], m[3])
<1>0. /\ Typed /\ Orderly(r) /\ req[r] \in Request /\ year \in Years /\ pc[r] = "number"
      /\ own[r] = <<>> /\ Carries(req[r]) /\ m # None /\ m \in Numbers
  BY CallKeys DEF IInv, Typed, TakeManual, Orderly, CallShape, Numbered, Underway, InTx
<1>1. /\ k \in Keys /\ Value(r, k) = counter[k] /\ counter[k] \in Nat /\ m[3] \in Nat
      /\ k = KeyOf(m)
  <2>1. k \in Keys /\ m[3] \in Nat /\ k = KeyOf(m)
    BY <1>0, Shape DEF KeyOf
  <2> QED BY <1>0, <2>1 DEF Value, Typed
<1>2. /\ Follows(r) => WriteCounter(r, k, n)
      /\ ~Follows(r) => UNCHANGED own
      /\ req'[r] = [req[r] EXCEPT !.num = m, !.followed = Follows(r)]
      /\ pc'[r] = IF req[r].kind = "renumber" THEN "write" ELSE "code"
  BY <1>0, <1>1 DEF TakeManual, Typed
<1>3. /\ n \in Nat /\ n >= counter[k] /\ n >= m[3] /\ (n = counter[k] \/ n = m[3])
  BY <1>1 DEF Raised
<1> HIDE DEF n
<1>4. /\ hits'[r] = hits[r] /\ lost'[r] = lost[r]
      /\ UNCHANGED <<year, counter, quotes, given, blind>>
  BY DEF TakeManual, db, hist
<1>5. /\ req'[r].num = m /\ req'[r].followed = Follows(r)
      /\ req'[r].kind = req[r].kind /\ req'[r].owner = req[r].owner
      /\ req'[r].manual = m /\ req'[r].base = req[r].base
      /\ req'[r].prefix = req[r].prefix /\ req'[r].baseVer = req[r].baseVer
      /\ req'[r].ver = req[r].ver /\ req'[r].attempt = req[r].attempt
      /\ req'[r].code = req[r].code
  BY <1>0, <1>2 DEF Request
<1>6. /\ Follows(r) => DOMAIN own'[r] = {k} /\ own'[r][k] = n
      /\ ~Follows(r) => DOMAIN own'[r] = {}
  <2>1. DOMAIN own[r] = {}
    BY <1>0
  <2> QED BY <1>0, <1>1, <1>2, <1>3, <2>1, WriteTyped
<1>7. CallShape(r)'
  BY <1>0, <1>2, <1>4, <1>5 DEF Orderly, CallShape, Carries, Underway, InTx
<1>8. Numbered(r)' /\ Coded(r)' /\ Recording(r)'
  BY <1>0, <1>2, <1>4, <1>5 DEF Numbered, Coded, Recording, Typed
<1>9. Writes(r)'
  <2>1. pc'[r] = "write" => req'[r].owner = None
    BY <1>0, <1>2, <1>5 DEF Carries
  <2>2. k[1] = m[1] /\ k[2] = m[2]
    OBVIOUS
  <2>3. CASE Follows(r)
    BY <1>0, <1>1, <1>3, <1>4, <1>5, <1>6, <2>1, <2>2, <2>3 DEF Writes
  <2>4. CASE ~Follows(r)
    BY <1>0, <1>4, <1>5, <1>6, <2>1, <2>4 DEF Writes
  <2> QED BY <2>3, <2>4
<1>10. Passed(r)'
  <2> SUFFICES ASSUME ~lost[r] PROVE Passed(r)'
    BY <1>4 DEF Passed
  <2>1. \A h \in hits'[r] : (MetNumber(r, h) \/ MetCode(r, h) \/ MetVersion(r, h))'
    BY <1>0, <1>2, <1>4, <1>5, HitsStand DEF Underway, InTx
  <2>2. /\ CodesPassed(r)
        /\ \A h \in hits[r] : MetNumber(r, h) \/ MetCode(r, h) \/ MetVersion(r, h)
    BY <1>0 DEF Orderly, Passed, Underway, InTx
  <2>3. NumbersPassed(r)'
    <3> SUFFICES ASSUME NEW h \in hits[r], h[2] = 1, h[1] \in Numbers PROVE FALSE
      BY <1>4 DEF NumbersPassed
    <3>1. h[1] \notin Codes /\ ~(h[2] > 1)
      BY Shape
    <3> QED BY <1>0, <2>2, <3>1 DEF MetNumber, MetCode, MetVersion
  <2>4. pc'[r] = "write" => \A h \in hits[r] : ~MetCode(r, h) /\ ~MetVersion(r, h)
    BY <1>0, <1>2 DEF Carries, MetCode, MetVersion
  <2>5. CodesPassed(r)'
    <3> SUFFICES ASSUME NEW h \in hits[r], h[2] = 1, h[1] \in Codes
                 PROVE  counter[KeyOf(h[1])] >= h[1][3] /\ pc'[r] # "write"
      BY <1>2, <1>4 DEF CodesPassed, KeyOf
    <3>1. h[1] \notin Numbers
      BY Shape
    <3> QED BY <1>0, <2>2, <2>4, <3>1 DEF CodesPassed, MetNumber, InTx
  <2>6. VersionsPassed(r)'
    BY <1>4, <2>2, <2>4 DEF VersionsPassed, MetNumber
  <2> QED BY <2>1, <2>3, <2>5, <2>6 DEF Passed
<1>11. MeetsAnother(r)' /\ MeetsBlind(r)'
  BY <1>0, <1>2, <1>4, <1>5 DEF Orderly, MeetsAnother, MeetsBlind, InTx
<1> QED BY <1>7, <1>8, <1>9, <1>10, <1>11 DEF Orderly

LEMMA GetCodeOrderly ==
    ASSUME IInv, Grown, Typed', NEW r \in Reqs, GetCode(r)
    PROVE  Orderly(r)'
<1> DEFINE k == <<req[r].owner, year>>
           n == Value(r, k) + 1
           d == <<req[r].owner, year, n>>
<1>0. /\ Typed /\ Orderly(r) /\ req[r] \in Request /\ year \in Years /\ pc[r] = "code"
      /\ Carries(req[r]) /\ req[r].owner # None /\ req[r].owner \in Owners
      /\ req[r].kind # "renumber" /\ req[r].kind # "version"
      /\ k \in Keys /\ Writes(r) /\ DOMAIN own[r] \subseteq Keys
  <2>1. req[r].owner \in Owners /\ k \in Keys
    BY CallKeys DEF IInv, Orderly, GetCode
  <2> QED BY <2>1 DEF IInv, Typed, GetCode, Orderly, CallShape, Carries, Underway, InTx
<1>1. /\ Value(r, k) \in Nat /\ Value(r, k) >= counter[k] /\ counter[k] \in Nat
      /\ k[1] \notin Prefixes
  <2>1. Value(r, k) \in Nat /\ counter[k] \in Nat
    BY <1>0, ValueTyped DEF Typed
  <2>2. Value(r, k) >= counter[k]
    BY <1>0, <2>1 DEF Value, Writes
  <2> QED BY <1>0, <2>1, <2>2
<1>2. /\ d \in Codes /\ d[1] = req[r].owner /\ d[3] = n /\ KeyOf(d) = k
  BY <1>0, <1>1, MadeOf DEF KeyOf
<1>3. /\ WriteCounter(r, k, n) /\ req'[r] = [req[r] EXCEPT !.code = d] /\ pc'[r] = "write"
  BY <1>0 DEF GetCode, Typed
<1> HIDE DEF d
<1>4. n \in Nat /\ n > counter[k] /\ n >= counter[k]
  BY <1>1
<1> HIDE DEF n
<1>5. /\ hits'[r] = hits[r] /\ lost'[r] = lost[r]
      /\ UNCHANGED <<year, counter, quotes, given, blind>>
  BY DEF GetCode, db, hist
<1>6. /\ req'[r].num = req[r].num /\ req'[r].followed = req[r].followed
      /\ req'[r].kind = req[r].kind /\ req'[r].owner = req[r].owner
      /\ req'[r].manual = req[r].manual /\ req'[r].base = req[r].base
      /\ req'[r].prefix = req[r].prefix /\ req'[r].baseVer = req[r].baseVer
      /\ req'[r].ver = req[r].ver /\ req'[r].attempt = req[r].attempt
      /\ req'[r].code = d /\ req'[r].askedYear = req[r].askedYear
  BY <1>0, <1>3 DEF Request
<1>7. /\ DOMAIN own'[r] = DOMAIN own[r] \cup {k} /\ own'[r][k] = n
      /\ \A j \in DOMAIN own[r] \ {k} : own'[r][j] = own[r][j]
  BY <1>0, <1>3, <1>4, WriteTyped
<1>8. CallShape(r)'
  BY <1>0, <1>3, <1>5, <1>6 DEF Orderly, CallShape, Carries, Underway, InTx
<1>9. Numbered(r)' /\ Coded(r)' /\ Recording(r)'
  BY <1>0, <1>2, <1>3, <1>5, <1>6 DEF Orderly, Numbered, Coded, Recording
<1>10. Writes(r)'
  <2>1. \A j \in DOMAIN own[r] : j[1] \in Prefixes => j # k
    BY <1>1
  <2>2. \A j \in DOMAIN own'[r] : own'[r][j] >= counter[j]
    BY <1>0, <1>4, <1>7 DEF Writes
  <2>3. \A j \in DOMAIN own'[r] : j[1] \in Prefixes => j \in DOMAIN own[r] /\ own'[r][j] = own[r][j]
    BY <1>1, <1>7, <2>1
  <2>4. /\ <<req[r].prefix, req[r].askedYear>>[1] \in Prefixes
        /\ req[r].num \in Numbers /\ KeyOf(req[r].num)[1] \in Prefixes
    BY <1>0, Shape DEF Carries, Orderly, Numbered, KeyOf
  <2>5. req[r].manual = None =>
          LET j == <<req[r].prefix, req[r].askedYear>> IN
          j \in DOMAIN own'[r] /\ own'[r][j] = req[r].num[3] /\ req[r].num[3] > counter[j]
    BY <1>0, <1>7, <2>3, <2>4 DEF Writes
  <2>6. req[r].manual # None /\ req[r].followed =>
          LET j == KeyOf(req[r].num) IN j \in DOMAIN own'[r] /\ own'[r][j] >= req[r].num[3]
    BY <1>0, <1>7, <2>3, <2>4 DEF Writes
  <2>7. k \in DOMAIN own'[r] /\ own'[r][k] = d[3] /\ d[3] > counter[k] /\ KeyOf(d) = k
    BY <1>2, <1>4, <1>7
  <2>8. \A j \in DOMAIN own'[r] : j[1] \in Prefixes =>
             \/ own'[r][j] = counter[j]
             \/ /\ own'[r][j] = req[r].num[3] /\ j[1] = req[r].num[1]
                /\ \/ j[2] = req[r].num[2] /\ (req[r].manual = None \/ req[r].followed)
                   \/ /\ req[r].manual = None
                      /\ j[2] = req[r].askedYear /\ j[2] < req[r].num[2]
    BY <1>0, <2>3 DEF Writes
  <2> QED BY <1>3, <1>5, <1>6, <2>2, <2>5, <2>6, <2>7, <2>8 DEF Writes, KeyOf
<1>11. Passed(r)'
  <2> SUFFICES ASSUME ~lost[r] PROVE Passed(r)'
    BY <1>5 DEF Passed
  <2>1. \A h \in hits'[r] : (MetNumber(r, h) \/ MetCode(r, h) \/ MetVersion(r, h))'
    BY <1>0, <1>3, <1>5, <1>6, HitsStand DEF Underway, InTx
  <2>2. /\ NumbersPassed(r) /\ CodesPassed(r)
        /\ \A h \in hits[r] : MetNumber(r, h) \/ MetCode(r, h) \/ MetVersion(r, h)
    BY <1>0 DEF Orderly, Passed, Underway, InTx
  <2>3. NumbersPassed(r)'
    BY <1>0, <1>3, <1>5, <1>6, <2>2 DEF NumbersPassed, Behind
  <2>4. CodesPassed(r)'
    <3> SUFFICES ASSUME NEW h \in hits[r], h[2] = 1, h[1] \in Codes
                 PROVE  counter[KeyOf(h[1])] >= h[1][3] /\ h[1] # d
      BY <1>3, <1>5, <1>6 DEF CodesPassed, KeyOf, InTx
    <3>1. counter[KeyOf(h[1])] >= h[1][3]
      BY <1>0, <2>2 DEF CodesPassed, InTx
    <3> QED BY <1>1, <1>2, <1>4, <3>1
  <2>5. VersionsPassed(r)'
    <3>1. \A h \in hits[r] : ~ (h[2] > 1)
      BY <1>0, <2>2 DEF MetNumber, MetCode, MetVersion
    <3> QED BY <1>5, <3>1 DEF VersionsPassed
  <2> QED BY <2>1, <2>3, <2>4, <2>5 DEF Passed
<1>12. MeetsAnother(r)' /\ MeetsBlind(r)'
  BY <1>0, <1>3, <1>5, <1>6 DEF Orderly, MeetsAnother, MeetsBlind, InTx
<1> QED BY <1>8, <1>9, <1>10, <1>11, <1>12 DEF Orderly

LEMMA NoCodeOrderly ==
    ASSUME IInv, Grown, Typed', NEW r \in Reqs, NoCode(r)
    PROVE  Orderly(r)'
<1> DEFINE top == Max({req[r].baseVer} \cup VersionsOf(req[r].base))
           v == IF req[r].kind = "version" THEN top + 1 ELSE 1
<1>0. /\ Typed /\ Orderly(r) /\ req[r] \in Request /\ year \in Years /\ pc[r] = "code"
      /\ Carries(req[r]) /\ req[r].owner = None /\ req[r].kind # "renumber"
  BY DEF IInv, Typed, NoCode, Orderly, CallShape, Underway, InTx
<1>1. /\ top \in Nat /\ top >= req[r].baseVer
      /\ \A q \in quotes : q.code = req[r].base => top >= q.ver
  <2>1. req[r].baseVer \in Nat
    BY <1>0 DEF Request
  <2> QED BY <1>0, <2>1, NextVersion
<1> HIDE DEF top
<1>2. pc'[r] = "write" /\ req'[r] = [req[r] EXCEPT !.code = req[r].base, !.ver = v]
  BY <1>0 DEF NoCode, Typed, top
<1>3. /\ hits'[r] = hits[r] /\ lost'[r] = lost[r] /\ own'[r] = own[r]
      /\ UNCHANGED <<year, counter, quotes, given, blind>>
  BY DEF NoCode, db, hist
<1>4. /\ req'[r].num = req[r].num /\ req'[r].followed = req[r].followed
      /\ req'[r].kind = req[r].kind /\ req'[r].owner = req[r].owner
      /\ req'[r].manual = req[r].manual /\ req'[r].base = req[r].base
      /\ req'[r].prefix = req[r].prefix /\ req'[r].baseVer = req[r].baseVer
      /\ req'[r].ver = v /\ req'[r].attempt = req[r].attempt
      /\ req'[r].code = req[r].base /\ req'[r].askedYear = req[r].askedYear
  BY <1>0, <1>2 DEF Request
<1>5. CallShape(r)'
  BY <1>0, <1>2, <1>3, <1>4 DEF Orderly, CallShape, Carries, Underway, InTx
<1>6. Numbered(r)' /\ Recording(r)' /\ Writes(r)'
  BY <1>0, <1>2, <1>3, <1>4 DEF Orderly, Numbered, Recording, Writes, KeyOf
<1>7. Coded(r)'
  <2>1. req[r].kind = "version" => v > 1
    BY <1>0, <1>1 DEF Carries, Request
  <2> QED BY <1>0, <1>2, <1>4, <2>1 DEF Coded
<1>8. Passed(r)'
  <2> SUFFICES ASSUME ~lost[r] PROVE Passed(r)'
    BY <1>3 DEF Passed
  <2>1. \A h \in hits'[r] : (MetNumber(r, h) \/ MetCode(r, h) \/ MetVersion(r, h))'
    BY <1>0, <1>2, <1>3, <1>4, HitsStand DEF Underway, InTx
  <2>2. /\ NumbersPassed(r) /\ CodesPassed(r)
        /\ \A h \in hits[r] : MetNumber(r, h) \/ MetCode(r, h) \/ MetVersion(r, h)
    BY <1>0 DEF Orderly, Passed, Underway, InTx
  <2>3. NumbersPassed(r)'
    BY <1>0, <1>2, <1>3, <1>4, <2>2 DEF NumbersPassed, Behind
  <2>4. CodesPassed(r)'
    <3>1. \A h \in hits[r] : ~ (h[2] = 1 /\ h[1] \in Codes)
      BY <1>0, <2>2, Shape DEF MetNumber, MetCode, MetVersion
    <3> QED BY <1>3, <3>1 DEF CodesPassed
  <2>5. VersionsPassed(r)'
    <3> SUFFICES ASSUME NEW h \in hits[r], h[2] > 1 PROVE h[2] < v
      BY <1>3, <1>4 DEF VersionsPassed
    <3>1. MetVersion(r, h)
      BY <2>2 DEF MetNumber, MetCode
    <3>2. PICK q \in quotes : q.code = req[r].base /\ q.ver = h[2]
      BY <3>1 DEF MetVersion
    <3>3. q.ver \in Nat /\ req[r].kind = "version"
      BY <1>0, <3>1 DEF MetVersion, Typed, QuoteRow
    <3> QED BY <1>1, <3>2, <3>3
  <2> QED BY <2>1, <2>3, <2>4, <2>5 DEF Passed
<1>9. MeetsAnother(r)' /\ MeetsBlind(r)'
  BY <1>0, <1>2, <1>3, <1>4 DEF Orderly, MeetsAnother, MeetsBlind, InTx
<1> QED BY <1>5, <1>6, <1>7, <1>8, <1>9 DEF Orderly

LEMMA RetryOrderly ==
    ASSUME IInv, Grown, Typed', NEW r \in Reqs, Retry(r)
    PROVE  Orderly(r)'
<1>0. /\ Typed /\ Orderly(r) /\ req[r] \in Request /\ pc[r] = "again" /\ todo[r] = {}
      /\ req[r].attempt < MaxTries - 1 /\ req[r].attempt \in Nat
  <2>1. Typed /\ Orderly(r) /\ pc[r] = "again" /\ todo[r] = {}
    BY DEF IInv, Retry
  <2>2. req[r] \in Request
    BY <2>1 DEF Typed
  <2>3. req[r].attempt < MaxTries - 1
    BY <2>1 DEF Orderly, CallShape
  <2>4. req[r].attempt \in Nat
    BY <2>2 DEF Request
  <2> QED BY <2>1, <2>2, <2>3, <2>4
<1>1. pc'[r] = "number" /\ req'[r] = [req[r] EXCEPT !.attempt = @ + 1]
  BY <1>0 DEF Retry, Typed
<1>2. /\ hits'[r] = hits[r] /\ lost'[r] = lost[r] /\ own'[r] = own[r]
      /\ UNCHANGED <<year, counter, quotes, given, blind>>
  BY DEF Retry, db, hist
<1>3. /\ req'[r].kind = req[r].kind /\ req'[r].owner = req[r].owner
      /\ req'[r].manual = req[r].manual /\ req'[r].base = req[r].base
      /\ req'[r].prefix = req[r].prefix /\ req'[r].baseVer = req[r].baseVer
      /\ req'[r].ver = req[r].ver /\ req'[r].attempt = req[r].attempt + 1
      /\ req'[r].code = req[r].code
  BY <1>0, <1>1 DEF Request
<1>4. CallShape(r)' /\ Numbered(r)' /\ Coded(r)' /\ Writes(r)' /\ Recording(r)'
  <2>1. CallShape(r)'
    BY <1>0, <1>1, <1>2, <1>3 DEF Orderly, CallShape, Carries, Underway, InTx
  <2>2. Numbered(r)' /\ Coded(r)' /\ Writes(r)' /\ Recording(r)'
    BY <1>1 DEF Numbered, Coded, Writes, Recording
  <2> QED BY <2>1, <2>2
<1>5. Passed(r)'
  <2> SUFFICES ASSUME ~lost[r] PROVE Passed(r)'
    BY <1>2 DEF Passed
  <2>1. \A h \in hits'[r] : (MetNumber(r, h) \/ MetCode(r, h) \/ MetVersion(r, h))'
    BY <1>0, <1>1, <1>2, <1>3, HitsStand DEF Underway, InTx
  <2>2. NumbersPassed(r) /\ CodesPassed(r)
    BY <1>0 DEF Orderly, Passed, Underway
  <2>3. NumbersPassed(r)'
    BY <1>0, <1>1, <1>2, <2>2 DEF NumbersPassed, Behind
  <2>4. CodesPassed(r)' /\ VersionsPassed(r)'
    BY <1>0, <1>1, <1>2, <2>2 DEF CodesPassed, VersionsPassed, KeyOf
  <2> QED BY <2>1, <2>3, <2>4 DEF Passed
<1>6. MeetsAnother(r)' /\ MeetsBlind(r)'
  BY <1>0, <1>1, <1>2, <1>3 DEF Orderly, MeetsAnother, MeetsBlind, InTx
<1> QED BY <1>4, <1>5, <1>6 DEF Orderly

\* What is recorded is passed; what is left to be recorded was so before.
LEMMA RecordOrderly ==
    ASSUME IInv, Grown, Typed', NEW r \in Reqs,
           RecordNumber(r) \/ RecordCode(r) \/ RecordFails(r)
    PROVE  Orderly(r)'
<1>0. /\ Typed /\ Orderly(r) /\ req[r] \in Request /\ pc[r] = "again"
  BY DEF IInv, Typed, RecordNumber, RecordCode, RecordFails
<1>1. /\ pc' = pc /\ req' = req /\ own' = own /\ hits' = hits
      /\ UNCHANGED <<year, quotes, given, blind>> /\ todo'[r] \subseteq todo[r]
  BY <1>0 DEF RecordNumber, RecordCode, RecordFails, hist, db, Typed
<1>2. CallShape(r)' /\ Numbered(r)' /\ Coded(r)' /\ Writes(r)' /\ Recording(r)'
  <2>1. CallShape(r)' /\ Numbered(r)' /\ Coded(r)'
    BY <1>0, <1>1 DEF Orderly, CallShape, Carries, Numbered, Coded
  <2>2. Writes(r)' /\ Recording(r)'
    BY <1>0, <1>1 DEF Orderly, Writes, Recording
  <2> QED BY <2>1, <2>2
<1>3. MeetsBlind(r)'
  BY <1>0, <1>1 DEF Orderly, MeetsBlind
<1>4. CASE RecordFails(r)
  <2>1. lost'[r] = TRUE
    BY <1>0, <1>4 DEF RecordFails, Typed
  <2>2. Passed(r)' /\ MeetsAnother(r)'
    BY <2>1 DEF Passed, MeetsAnother
  <2> QED BY <1>2, <1>3, <2>2 DEF Orderly
<1>5. CASE RecordNumber(r) \/ RecordCode(r)
  <2>0. lost' = lost
    BY <1>5 DEF RecordNumber, RecordCode, hist
  <2>1. MeetsAnother(r)'
    BY <1>0, <1>1, <2>0 DEF Orderly, MeetsAnother
  <2>2. Passed(r)'
    <3> SUFFICES ASSUME ~lost[r] PROVE Passed(r)'
      BY <2>0 DEF Passed
    <3>1. \A h \in hits'[r] : (MetNumber(r, h) \/ MetCode(r, h) \/ MetVersion(r, h))'
      BY <1>0, <1>1, <2>0, HitsStand DEF Underway
    <3>2. NumbersPassed(r) /\ CodesPassed(r) /\ VersionsPassed(r)'
      BY <1>0, <1>1 DEF Orderly, Passed, Underway, VersionsPassed
    <3>3. /\ req[r].num \in Numbers /\ KeyOf(req[r].num) \in Keys /\ req[r].num[3] \in Nat
          /\ req[r].num[2] \in Years /\ year \in Years /\ year' = year
      BY <1>0, <1>1, RecordedTyped, Shape DEF Typed
    <3>4. NumbersPassed(r)'
      <4> SUFFICES ASSUME NEW h \in hits[r], h[2] = 1, h[1] \in Numbers
                   PROVE  Behind(h[1], year)' \/ (h[1] = req[r].num /\ "number" \in todo'[r])
        BY <1>0, <1>1 DEF NumbersPassed, Underway, InTx
      <4>1. Behind(h[1], year) => Behind(h[1], year)'
        BY <1>0, <3>3, BehindStays
      <4>2. Behind(h[1], year) \/ (h[1] = req[r].num /\ "number" \in todo[r])
        BY <1>0, <3>2 DEF NumbersPassed
      <4>3. CASE RecordNumber(r) /\ h[1] = req[r].num /\ "number" \in todo[r]
        <5>1. /\ req[r].manual = None /\ req[r].num[1] = req[r].prefix
              /\ req[r].num[2] <= year
          BY <1>0, <4>3 DEF Orderly, Recording, Numbered
        <5>2. CASE Fits(req[r].num, req[r].prefix)
          <6>1. Record(KeyOf(req[r].num), req[r].num[3]) /\ req[r].num[2] = year
            BY <4>3, <5>2 DEF RecordNumber, KeyOf, Fits
          <6>2. counter'[KeyOf(req[r].num)] >= req[r].num[3]
            BY <1>0, <3>3, <6>1, RecordSo
          <6> QED BY <3>3, <4>3, <6>1, <6>2 DEF Behind, KeyOf
        <5>3. CASE ~Fits(req[r].num, req[r].prefix)
          <6>0. req[r].num[1] = req[r].prefix
            BY <5>1
          <6>1. req[r].num[2] # year
            BY <5>3, <6>0, Zenon DEF Fits
          <6>2. req[r].num[2] < year
            <7>1. req[r].num[2] \in Nat /\ year \in Nat
              BY <3>3
            <7> QED BY <5>1, <6>1, <7>1
          <6> QED BY <3>3, <4>3, <6>2 DEF Behind
        <5> QED BY <5>2, <5>3
      <4>4. CASE RecordCode(r)
        BY <4>1, <4>2, <4>4 DEF RecordCode
      <4> QED BY <1>5, <4>1, <4>2, <4>3, <4>4
    <3>5. CodesPassed(r)'
      <4> SUFFICES ASSUME NEW h \in hits[r], h[2] = 1, h[1] \in Codes
                   PROVE  \/ counter'[KeyOf(h[1])] >= h[1][3]
                          \/ h[1] = req[r].code /\ "code" \in todo'[r]
        BY <1>0, <1>1 DEF CodesPassed, KeyOf, InTx
      <4>1. counter[KeyOf(h[1])] >= h[1][3] => counter'[KeyOf(h[1])] >= h[1][3]
        <5>1. KeyOf(h[1]) \in Keys /\ h[1][3] \in Nat
          BY Shape
        <5> QED BY <1>0, <5>1 DEF Grown, Typed
      <4>2. counter[KeyOf(h[1])] >= h[1][3] \/ (h[1] = req[r].code /\ "code" \in todo[r])
        BY <1>0, <3>2 DEF CodesPassed
      <4>3. CASE RecordNumber(r)
        <5>1. "code" \in todo[r] => "code" \in todo'[r]
          BY <1>0, <4>3 DEF RecordNumber, Typed
        <5> QED BY <4>1, <4>2, <5>1
      <4>4. CASE RecordCode(r) /\ h[1] = req[r].code
        <5>1. Record(KeyOf(req[r].code), req[r].code[3])
          BY <4>4 DEF RecordCode, KeyOf
        <5>2. KeyOf(req[r].code) \in Keys /\ req[r].code[3] \in Nat
          BY <4>4, RecordedTyped DEF RecordCode
        <5>3. counter'[KeyOf(req[r].code)] >= req[r].code[3]
          BY <1>0, <5>1, <5>2, RecordSo
        <5> QED BY <4>4, <5>3
      <4> QED BY <1>5, <4>1, <4>2, <4>3, <4>4
    <3> QED BY <3>1, <3>2, <3>4, <3>5 DEF Passed
  <2> QED BY <1>2, <1>3, <2>1, <2>2 DEF Orderly
<1> QED BY <1>4, <1>5

\* What an index held: a number, a code made for the owner, or a version.
LEMMA MetIs ==
    ASSUME IInv, NEW r \in Reqs, pc[r] = "write", NEW onNumber \in BOOLEAN,
           IF onNumber THEN NumberTaken(r) ELSE CodeTaken(r)
    PROVE  /\ onNumber => /\ Met(r, onNumber)[1] = req[r].num /\ Met(r, onNumber)[2] = 1
                          /\ req[r].num \in Numbers
                          /\ req[r].num \in given
           /\ ~onNumber => /\ Met(r, onNumber)[1] = req[r].code
                           /\ Met(r, onNumber)[2] = req[r].ver
                           /\ req[r].kind # "renumber" /\ req[r].code \in given
                           /\ \E q \in quotes : q.code = req[r].code /\ q.ver = req[r].ver
           /\ ~onNumber /\ req[r].owner # None => req[r].code \in Codes /\ req[r].ver = 1
                                                  /\ req[r].code[1] = req[r].owner
           /\ ~onNumber /\ req[r].owner = None => /\ req[r].kind = "version"
                                                  /\ req[r].code = req[r].base /\ req[r].ver > 1
<1>0. /\ Typed /\ GivenKnown /\ CallShape(r) /\ Numbered(r) /\ Coded(r) /\ Carries(req[r])
      /\ req[r].kind \in AllKinds /\ req[r].num \in Numbers
  BY DEF IInv, Orderly, CallShape, Underway, InTx, Typed, Request, Numbered
<1>1. ASSUME onNumber PROVE req[r].num \in given
  BY <1>0, <1>1 DEF NumberTaken, TakenNumbers, GivenKnown
<1>2. ASSUME ~onNumber
      PROVE  /\ req[r].kind # "renumber" /\ req[r].code # None /\ req[r].code \in given
             /\ \E q \in quotes : q.code = req[r].code /\ q.ver = req[r].ver
  <2>1. <<req[r].code, req[r].ver>> \in TakenCodes /\ req[r].kind # "renumber"
    BY <1>2 DEF CodeTaken
  <2>2. PICK q \in {p \in quotes : p.code # None} :
          <<req[r].code, req[r].ver>> = <<q.code, q.ver>>
    BY <2>1 DEF TakenCodes
  <2>3. q \in quotes /\ q.code = req[r].code /\ q.ver = req[r].ver /\ req[r].code # None
    BY <2>2
  <2> QED BY <1>0, <2>1, <2>3 DEF GivenKnown
<1>3. ASSUME ~onNumber, req[r].owner # None
      PROVE  req[r].code \in Codes /\ req[r].ver = 1 /\ req[r].code[1] = req[r].owner
  BY <1>0, <1>2, <1>3 DEF Coded, Carries
<1>4. ASSUME ~onNumber, req[r].owner = None
      PROVE  req[r].kind = "version" /\ req[r].code = req[r].base /\ req[r].ver > 1
  BY <1>0, <1>2, <1>4 DEF Coded, Carries, AllKinds
<1>5. ASSUME onNumber PROVE Met(r, onNumber)[1] = req[r].num /\ Met(r, onNumber)[2] = 1
  BY <1>5 DEF Met
<1>6. ASSUME ~onNumber
      PROVE  Met(r, onNumber)[1] = req[r].code /\ Met(r, onNumber)[2] = req[r].ver
  BY <1>6 DEF Met
<1> QED BY <1>0, <1>1, <1>2, <1>3, <1>4, <1>5, <1>6

\* A value just made is new to its counter: whoever has it came past it.
LEMMA MadeIsBlind ==
    ASSUME IInv, NEW r \in Reqs, pc[r] = "write", year = Min(Years)
    PROVE  /\ req[r].manual = None /\ req[r].num \in given => req[r].num \in blind
           /\ req[r].owner # None /\ req[r].code \in Codes /\ req[r].code \in given
                => req[r].code \in blind
<1>0. /\ Typed /\ GivenKnown /\ Numbered(r) /\ Writes(r)
  BY DEF IInv, Orderly
<1>1. ASSUME req[r].manual = None, req[r].num \in given, req[r].num \notin blind PROVE FALSE
  <2>1. /\ req[r].num \in Numbers /\ req[r].num[1] = req[r].prefix
        /\ req[r].askedYear \in Years /\ req[r].askedYear <= req[r].num[2]
        /\ req[r].num[2] <= year
    BY <1>0, <1>1 DEF Numbered
  <2>2. req[r].num[2] = req[r].askedYear
    <3>1. Min(Years) \in Nat /\ Min(Years) <= req[r].askedYear /\ req[r].askedYear \in Nat
      BY <2>1, FirstYear
    <3>2. req[r].num[2] \in Nat
      BY <2>1, Shape
    <3> QED BY <2>1, <3>1, <3>2
  <2>3. KeyOf(req[r].num) = <<req[r].prefix, req[r].askedYear>>
    BY <2>1, <2>2 DEF KeyOf
  <2>4. req[r].num[3] > counter[KeyOf(req[r].num)]
    BY <1>0, <1>1, <2>3 DEF Writes
  <2>5. counter[KeyOf(req[r].num)] >= req[r].num[3]
    BY <1>0, <1>1 DEF GivenKnown
  <2>6. counter[KeyOf(req[r].num)] \in Nat /\ req[r].num[3] \in Nat
    BY <1>0, <2>1, Shape DEF Typed
  <2> QED BY <2>4, <2>5, <2>6
<1>2. ASSUME req[r].owner # None, req[r].code \in Codes, req[r].code \in given,
             req[r].code \notin blind
      PROVE  FALSE
  <2>1. req[r].code[3] > counter[KeyOf(req[r].code)]
    BY <1>0, <1>2 DEF Writes
  <2>2. counter[KeyOf(req[r].code)] >= req[r].code[3]
    BY <1>0, <1>2 DEF GivenKnown
  <2>3. counter[KeyOf(req[r].code)] \in Nat /\ req[r].code[3] \in Nat
    BY <1>0, <1>2, Shape DEF Typed
  <2> QED BY <2>1, <2>2, <2>3
<1> QED BY <1>1, <1>2

\* No try meets what one before it has met.
LEMMA MetIsNew ==
    ASSUME IInv, NEW r \in Reqs, pc[r] = "write", ~lost[r], NEW onNumber \in BOOLEAN,
           IF onNumber THEN NumberTaken(r) ELSE CodeTaken(r)
    PROVE  Met(r, onNumber) \notin hits[r]
<1> SUFFICES ASSUME NEW h \in hits[r], h = Met(r, onNumber) PROVE FALSE
  OBVIOUS
<1>1. NumbersPassed(r) /\ CodesPassed(r) /\ VersionsPassed(r)
  BY DEF IInv, Orderly, Passed, Underway, InTx
<1>2. CASE onNumber
  <2>1. h[1] = req[r].num /\ h[2] = 1 /\ req[r].num \in Numbers
    BY <1>2, MetIs
  <2> QED BY <1>1, <2>1 DEF NumbersPassed
<1>3. CASE ~onNumber /\ req[r].owner # None
  <2>1. h[1] = req[r].code /\ h[2] = 1 /\ req[r].code \in Codes
    BY <1>3, MetIs
  <2> QED BY <1>1, <2>1 DEF CodesPassed
<1>4. CASE ~onNumber /\ req[r].owner = None
  <2>1. h[2] = req[r].ver /\ h[2] > 1
    BY <1>4, MetIs
  <2>2. req[r].ver \in Nat
    BY DEF IInv, Typed, Request
  <2> QED BY <1>1, <2>1, <2>2 DEF VersionsPassed
<1> QED BY <1>2, <1>3, <1>4

LEMMA CollideOrderly ==
    ASSUME IInv, Grown, Typed', NEW r \in Reqs, Collide(r)
    PROVE  Orderly(r)'
<1>0. /\ Typed /\ Orderly(r) /\ pc[r] = "write" /\ Carries(req[r]) /\ req[r] \in Request
      /\ CallShape(r) /\ Numbered(r) /\ Coded(r) /\ req[r].attempt \in 0 .. MaxTries - 1
  <2>1. Typed /\ Orderly(r) /\ pc[r] = "write"
    BY DEF IInv, Collide
  <2>2. Carries(req[r]) /\ CallShape(r) /\ Numbered(r) /\ Coded(r)
    BY <2>1 DEF Orderly, CallShape, Underway, InTx
  <2>3. req[r] \in Request
    BY <2>1 DEF Typed
  <2>4. req[r].attempt \in 0 .. MaxTries - 1
    BY <2>3 DEF Request
  <2> QED BY <2>1, <2>2, <2>3, <2>4
<1>1. PICK onNumber \in BOOLEAN :
             /\ IF onNumber THEN NumberTaken(r) ELSE CodeTaken(r)
             /\ hits'[r] = hits[r] \cup {Met(r, onNumber)}
             /\ pc'[r] = IF GivesUp(r, onNumber) THEN "conflict" ELSE "again"
             /\ todo'[r] = IF GivesUp(r, onNumber) THEN {} ELSE Recorded(r, onNumber)
  BY <1>0, CollideSo
<1> DEFINE m == Met(r, onNumber)
           again == ~GivesUp(r, onNumber)
<1>2. /\ own'[r] = <<>> /\ req' = req /\ lost' = lost
      /\ UNCHANGED <<year, counter, quotes, given, blind>>
  BY <1>0, EndTyped DEF Collide, db
<1>3. /\ pc'[r] \in {"again", "conflict"} /\ (pc'[r] = "again" <=> again)
      /\ again => req[r].attempt < MaxTries - 1 /\ (onNumber => req[r].manual = None)
  <2>1. again => req[r].attempt # MaxTries - 1 /\ (onNumber => req[r].manual = None)
    BY DEF GivesUp, LastTry
  <2>2. req[r].attempt # MaxTries - 1 => req[r].attempt < MaxTries - 1
    BY <1>0 DEF MaxTries
  <2> QED BY <1>1, <2>1, <2>2
<1>4. /\ again /\ onNumber => "number" \in todo'[r]
      /\ again /\ ~onNumber /\ req[r].owner # None => "code" \in todo'[r]
      /\ again /\ "number" \in todo'[r] => onNumber
      /\ again /\ "code" \in todo'[r] => req[r].owner # None
  BY <1>1 DEF Recorded, RecordsNumber, RecordsCode
<1>5. CallShape(r)'
  BY <1>0, <1>2, <1>3 DEF CallShape, Carries, Underway, InTx
<1>6. Numbered(r)' /\ Coded(r)'
  BY <1>0, <1>2, <1>3 DEF Numbered, Coded
<1>7. Writes(r)' /\ Recording(r)'
  <2>1. onNumber => req[r].num \in given
    BY <1>0, <1>1, MetIs
  <2> QED BY <1>2, <1>3, <1>4, <2>1 DEF Writes, Recording
<1>8. Passed(r)'
  <2> SUFFICES ASSUME ~lost[r], again PROVE Passed(r)'
    BY <1>2, <1>3 DEF Passed, Underway, InTx
  <2>1. /\ \A h \in hits[r] : MetNumber(r, h) \/ MetCode(r, h) \/ MetVersion(r, h)
        /\ NumbersPassed(r) /\ CodesPassed(r)
    BY <1>0 DEF Orderly, Passed, Underway, InTx
  <2>2. MetNumber(r, m) \/ MetCode(r, m) \/ MetVersion(r, m)
    <3>1. CASE onNumber
      BY <1>0, <1>1, <1>3, <3>1, MetIs DEF MetNumber
    <3>2. CASE ~onNumber /\ req[r].owner # None
      BY <1>0, <1>1, <3>2, MetIs DEF MetCode
    <3>3. CASE ~onNumber /\ req[r].owner = None
      BY <1>0, <1>1, <3>3, MetIs DEF MetVersion
    <3> QED BY <3>1, <3>2, <3>3
  <2>3. \A h \in hits'[r] : MetNumber(r, h) \/ MetCode(r, h) \/ MetVersion(r, h)
    BY <1>1, <2>1, <2>2
  <2>4. \A h \in hits'[r] : (MetNumber(r, h) \/ MetCode(r, h) \/ MetVersion(r, h))'
    BY <1>2, <2>3 DEF MetNumber, MetCode, MetVersion
  <2>5. NumbersPassed(r)'
    <3> SUFFICES ASSUME NEW h \in hits'[r], h[2] = 1, h[1] \in Numbers
                 PROVE  Behind(h[1], year) \/ (h[1] = req[r].num /\ "number" \in todo'[r])
      BY <1>2, <1>3 DEF NumbersPassed, Behind
    <3>1. CASE h \in hits[r]
      BY <1>0, <2>1, <3>1 DEF NumbersPassed
    <3>2. CASE h = m /\ onNumber
      BY <1>0, <1>1, <1>4, <3>2, MetIs
    <3>3. CASE h = m /\ ~onNumber
      <4>1. h[1] = req[r].code /\ h[2] = req[r].ver
        BY <1>0, <1>1, <3>3, MetIs
      <4>2. req[r].ver > 1 \/ req[r].code \in Codes
        BY <1>0, <1>1, <3>3, MetIs
      <4>3. h[1] \notin Codes
        BY Shape
      <4> QED BY <4>1, <4>2, <4>3
    <3> QED BY <1>1, <3>1, <3>2, <3>3
  <2>6. CodesPassed(r)'
    <3> SUFFICES ASSUME NEW h \in hits'[r], h[2] = 1, h[1] \in Codes
                 PROVE  \/ counter[KeyOf(h[1])] >= h[1][3]
                        \/ h[1] = req[r].code /\ "code" \in todo'[r]
      BY <1>2, <1>3 DEF CodesPassed, KeyOf, InTx
    <3>1. CASE h \in hits[r]
      BY <1>0, <2>1, <3>1 DEF CodesPassed, InTx
    <3>2. CASE h = m /\ onNumber
      <4>1. h[1] \in Numbers
        BY <1>0, <1>1, <3>2, MetIs
      <4> QED BY <4>1, Shape
    <3>3. CASE h = m /\ ~onNumber
      <4>1. h[1] = req[r].code /\ h[2] = req[r].ver
        BY <1>0, <1>1, <3>3, MetIs
      <4>2. req[r].owner # None
        BY <1>0, <1>1, <3>3, <4>1, MetIs
      <4> QED BY <1>4, <3>3, <4>1, <4>2
    <3> QED BY <1>1, <3>1, <3>2, <3>3
  <2>7. VersionsPassed(r)'
    BY <1>3 DEF VersionsPassed
  <2> QED BY <2>4, <2>5, <2>6, <2>7 DEF Passed
<1>9. MeetsAnother(r)'
  <2> SUFFICES ASSUME ~lost[r] PROVE Cardinality(hits'[r]) = req[r].attempt + 1
    BY <1>2, <1>3 DEF MeetsAnother, InTx
  <2>1. m \notin hits[r]
    BY <1>0, <1>1, MetIsNew
  <2>2. IsFiniteSet(hits[r]) /\ Cardinality(hits[r]) = req[r].attempt
    BY <1>0 DEF Typed, Orderly, MeetsAnother, InTx
  <2>3. hits'[r] = hits[r] \cup {m}
    BY <1>1
  <2> HIDE DEF m
  <2> QED BY <2>1, <2>2, <2>3, FS_AddElement
<1>10. MeetsBlind(r)'
  <2> SUFFICES ASSUME year = Min(Years), NEW h \in hits'[r]
               PROVE  h[1] \in blind \/ h[1] = req[r].manual \/ h[2] > 1
    BY <1>2 DEF MeetsBlind
  <2>1. CASE h \in hits[r]
    BY <1>0, <2>1 DEF Orderly, MeetsBlind
  <2>2. CASE h = m /\ onNumber
    <3>1. h[1] = req[r].num /\ req[r].num \in given
      BY <1>0, <1>1, <2>2, MetIs
    <3>2. req[r].manual # None => req[r].num = req[r].manual
      BY <1>0 DEF Numbered
    <3> QED BY <1>0, <3>1, <3>2, MadeIsBlind
  <2>3. CASE h = m /\ ~onNumber /\ req[r].owner # None
    BY <1>0, <1>1, <2>3, MetIs, MadeIsBlind
  <2>4. CASE h = m /\ ~onNumber /\ req[r].owner = None
    BY <1>0, <1>1, <2>4, MetIs
  <2> QED BY <1>1, <2>1, <2>2, <2>3, <2>4
<1> QED BY <1>5, <1>6, <1>7, <1>8, <1>9, <1>10 DEF Orderly

-----------------------------------------------------------------------------
(***************************************************************************)
(* The theorems.                                                           *)
(***************************************************************************)

LEMMA InitHolds == Init => IInv
<1> SUFFICES ASSUME Init PROVE IInv
  OBVIOUS
<1>1. given \subseteq Numbers \cup Codes
  BY DEF Init, QuoteRow
<1>2. Typed
  <2>1. year \in Years /\ counter \in [Keys -> Nat] /\ lock \in [Keys -> Reqs \cup {None}]
        /\ quotes \subseteq QuoteRow /\ IsFiniteSet(quotes)
        /\ pc \in [Reqs -> Ended \cup Underway] /\ todo \in [Reqs -> SUBSET {"number", "code"}]
        /\ lost \in [Reqs -> BOOLEAN]
    BY DEF Init, Ended
  <2>2. req \in [Reqs -> Request]
    BY NoCallTyped DEF Init
  <2>3. /\ hits \in [Reqs -> SUBSET ((Numbers \cup Codes) \X (Nat \ {0}))]
        /\ \A r \in Reqs : IsFiniteSet(hits[r])
    BY FS_EmptySet DEF Init
  <2>4. /\ own = [r \in Reqs |-> own[r]]
        /\ \A r \in Reqs : /\ own[r] = [k \in DOMAIN own[r] |-> own[r][k]]
                           /\ DOMAIN own[r] = {}
    BY DEF Init
  <2>5. blind \subseteq given
    BY DEF Init
  <2> QED BY <1>1, <2>1, <2>2, <2>3, <2>4, <2>5 DEF Typed
<1>3. LocksFollow /\ GivenKnown /\ NumberNotBurnt
  <2>1. LocksFollow
    BY DEF Init, LocksFollow
  <2>2. GivenKnown
    <3>1. \A q \in quotes : q.num # None
      BY Shape DEF Init, QuoteRow
    <3> QED BY <3>1 DEF Init, GivenKnown
  <2>3. NumberNotBurnt
    BY DEF Init, NumberNotBurnt, Keys
  <2> QED BY <2>1, <2>2, <2>3
<1>4. ASSUME NEW r \in Reqs PROVE Orderly(r)
  <2>1. pc[r] = "idle" /\ hits[r] = {} /\ lost[r] = FALSE /\ own[r] = <<>>
    BY DEF Init
  <2>2. CallShape(r) /\ Numbered(r) /\ Coded(r) /\ Writes(r) /\ Recording(r)
    BY <2>1 DEF CallShape, Numbered, Coded, Writes, Recording, Underway, InTx
  <2>3. Passed(r) /\ MeetsAnother(r) /\ MeetsBlind(r)
    BY <2>1 DEF Passed, MeetsAnother, MeetsBlind, Underway, InTx
  <2> QED BY <2>2, <2>3 DEF Orderly
<1> QED BY <1>2, <1>3, <1>4 DEF IInv

LEMMA ActOrderly ==
    ASSUME IInv, Grown, Typed', NEW r \in Reqs, Act(r)
    PROVE  Orderly(r)'
BY ArriveOrderly, AskOrderly, GetNumberOrderly, TakeManualOrderly, GetCodeOrderly, NoCodeOrderly,
   EndOrderly, CollideOrderly, RecordOrderly, RetryOrderly DEF Act, Step, Stop

LEMMA OrderKept ==
    ASSUME IInv, [Next]_vars, NEW s \in Reqs
    PROVE  Orderly(s)'
<1>0. Typed /\ Typed' /\ Grown /\ Orderly(s)
  BY NextTyped, StepGrows DEF IInv
<1>1. ASSUME NEW r \in Reqs, Act(r) PROVE Orderly(s)'
  <2>1. CASE s = r
    BY <1>0, <1>1, <2>1, ActOrderly
  <2>2. CASE s # r
    BY <1>0, <1>1, <2>2, Aside, Bystander
  <2> QED BY <2>1, <2>2
<1>2. CASE (\E q \in quotes : Delete(q)) \/ NewYear \/ UNCHANGED vars
  <2>1. Undisturbed(s)
    BY <1>2 DEF Delete, NewYear, vars, Undisturbed, hist, db
  <2> QED BY <1>0, <2>1, Bystander
<1> QED BY <1>1, <1>2, NextIs

LEMMA Inductive == Spec => []IInv
<1>1. IInv /\ [Next]_vars => IInv'
  <2> SUFFICES ASSUME IInv, [Next]_vars PROVE IInv'
    OBVIOUS
  <2>1. Typed' /\ LocksFollow' /\ GivenKnown' /\ NumberNotBurnt'
    BY NextTyped, LocksKept, GivenKept, BurntKept
  <2>2. \A s \in Reqs : Orderly(s)'
    BY OrderKept
  <2> QED BY <2>1, <2>2 DEF IInv
<1> QED BY <1>1, InitHolds, PTL DEF Spec

(* Every variable keeps its type, for any calls, legacy rows and years.    *)
THEOREM TypesHold == Spec => []TypeOK
<1>1. IInv => TypeOK
  BY DEF IInv, Typed, TypeOK, Underway
<1> QED BY <1>1, Inductive, PTL

(* No burned numbers: for any mix of calls, collisions and failures a      *)
(* counter stands at a number some quote has had, or at one that was given *)
(* a later year because the year turned between the two reads of it.       *)
THEOREM NumbersAreNotBurnt == Spec => []NumberNotBurnt
<1>1. IInv => NumberNotBurnt
  BY DEF IInv
<1> QED BY <1>1, Inductive, PTL

(* The four tries are worth something: unless the record of a collision is *)
(* lost each try meets another value, and within a year a value a counter  *)
(* gave is met only as blind, as typed, or as a version just taken.        *)
THEOREM TriesAreWorth == Spec => []TriesMeetOthers
<1>1. IInv => TriesMeetOthers
  <2> SUFFICES ASSUME IInv PROVE TriesMeetOthers
    OBVIOUS
  <2>1. EachTryMeetsAnother
    BY DEF IInv, Orderly, MeetsAnother, EachTryMeetsAnother
  <2>2. OnlyBlindCollisions
    BY DEF IInv, Orderly, MeetsBlind, OnlyBlindCollisions
  <2> QED BY <2>1, <2>2 DEF TriesMeetOthers
<1> QED BY <1>1, Inductive, PTL

-----------------------------------------------------------------------------
(***************************************************************************)
(* Progress.                                                               *)
(***************************************************************************)

\* A call that goes for a project code has locked rows of numbers only.
NumbersFirst == \A r \in Reqs : pc[r] = "code" => \A k \in DOMAIN own[r] : k[1] \in Prefixes

LEMMA NumbersFirstKept == IInv /\ NumbersFirst /\ [Next]_vars => NumbersFirst'
<1> SUFFICES ASSUME IInv, NumbersFirst, [Next]_vars, NEW s \in Reqs, pc'[s] = "code",
                    NEW k \in DOMAIN own'[s]
             PROVE  k[1] \in Prefixes
  BY DEF NumbersFirst
<1>0. Typed /\ Orderly(s)
  BY DEF IInv
<1>1. CASE Undisturbed(s)
  BY <1>1 DEF Undisturbed, NumbersFirst
<1>2. CASE (\E q \in quotes : Delete(q)) \/ NewYear \/ UNCHANGED vars
  BY <1>1, <1>2 DEF Delete, NewYear, vars, Undisturbed, hist, db
<1>3. ASSUME NEW r \in Reqs, Act(r) PROVE k[1] \in Prefixes
  <2>1. CASE s # r
    BY <1>1, <1>3, <2>1, Aside
  <2>2. CASE s = r
    <3>1. GetNumber(s) \/ TakeManual(s)
      <4>1. \A how \in Ended : ~End(s, how)
        BY <1>0, EndSo DEF Ended
      <4>2. ~Arrive(s)
        <5>1. GivenKnown
          BY DEF IInv
        <5> QED BY <1>0, <5>1, BeginSo DEF Begin, Typed
      <4>3. ~AskNumber(s) /\ ~GetCode(s) /\ ~NoCode(s) /\ ~Collide(s) /\ ~Retry(s)
        BY <1>0 DEF AskNumber, GetCode, NoCode, Collide, Retry, Typed
      <4>4. ~RecordNumber(s) /\ ~RecordCode(s) /\ ~RecordFails(s)
        BY DEF RecordNumber, RecordCode, RecordFails
      <4>5. ~Commit(s) /\ ~Refuse(s) /\ ~Abort(s)
        BY <4>1 DEF Commit, Refuse, Abort, Ended
      <4> QED BY <1>3, <2>2, <4>2, <4>3, <4>4, <4>5 DEF Act, Step, Stop
    <3>2. own[s] = <<>> /\ Carries(req[s]) /\ req[s] \in Request
      BY <1>0, <3>1 DEF Orderly, CallShape, GetNumber, TakeManual, Underway, InTx, Typed
    <3>3. DOMAIN own[s] = {}
      BY <3>2
    <3>4. CASE GetNumber(s)
      <4> DEFINE j == <<req[s].prefix, req[s].askedYear>>
      <4>1. j \in Keys /\ j[1] \in Prefixes
        BY <1>0, <3>2, <3>4, CallKeys DEF GetNumber, Orderly, Carries
      <4>2. WriteCounter(s, j, Value(s, j) + 1) /\ Value(s, j) + 1 \in Nat
        BY <1>0, <3>4, <4>1, ValueTyped DEF GetNumber
      <4>3. DOMAIN own'[s] = DOMAIN own[s] \cup {j}
        BY <1>0, <4>1, <4>2, WriteTyped
      <4> QED BY <3>3, <4>1, <4>3
    <3>5. CASE TakeManual(s)
      <4>1. CASE UNCHANGED <<lock, own>>
        BY <3>3, <4>1
      <4>2. CASE ~UNCHANGED <<lock, own>>
        <5> DEFINE m == req[s].manual
        <5>1. m \in Numbers
          BY <1>0, <3>5, CallKeys DEF TakeManual, Orderly
        <5>2. m[3] \in Nat /\ KeyOf(m) \in Keys /\ KeyOf(m)[1] \in Prefixes
          BY <5>1, Shape
        <5>3. Raised(Value(s, KeyOf(m)), m[3]) \in Nat
          BY <1>0, <5>2, ValueTyped DEF Raised
        <5>4. WriteCounter(s, KeyOf(m), Raised(Value(s, KeyOf(m)), m[3]))
          BY <3>5, <4>2 DEF TakeManual, KeyOf
        <5>5. DOMAIN own'[s] = DOMAIN own[s] \cup {KeyOf(m)}
          BY <1>0, <5>2, <5>3, <5>4, WriteTyped
        <5> QED BY <3>3, <5>2, <5>5
      <4> QED BY <4>1, <4>2
    <3> QED BY <3>1, <3>4, <3>5
  <2> QED BY <2>1, <2>2
<1> QED BY <1>2, <1>3, NextIs

LEMMA NumbersFirstInvariant == Spec => []NumbersFirst
<1>1. Init => NumbersFirst
  BY DEF Init, NumbersFirst
<1> QED BY <1>1, NumbersFirstKept, Inductive, PTL DEF Spec

\* Who holds a row is about to ask for a code or to write; the row of a code is
\* held by who is about to write, and nothing keeps that call from its end.
LEMMA HoldersGoOn ==
    ASSUME IInv, NumbersFirst, NEW k \in Keys, lock[k] # None
    PROVE  \E q \in Reqs : /\ lock[k] = q
                           /\ pc[q] = "write" \/ (pc[q] = "code" /\ k[1] \in Prefixes)
<1>1. lock[k] \in Reqs
  BY DEF IInv, Typed
<1>2. k \in DOMAIN own[lock[k]]
  BY <1>1 DEF IInv, LocksFollow
<1>3. DOMAIN own[lock[k]] # {} /\ CallShape(lock[k])
  BY <1>1, <1>2 DEF IInv, Orderly
<1>4. pc[lock[k]] \in {"code", "write"}
  BY <1>2, <1>3 DEF CallShape
<1> QED BY <1>1, <1>2, <1>4 DEF NumbersFirst

\* Whoever waits for the row of a code waits for a call that goes on.
LEMMA OwnersRowFrees ==
    ASSUME IInv, NumbersFirst, NEW k \in Keys, lock[k] # None, k[1] \in Owners
    PROVE  \E q \in Reqs : Able(q)
<1>1. k[1] \notin Prefixes
  OBVIOUS
<1>2. PICK q \in Reqs : pc[q] = "write"
  BY <1>1, HoldersGoOn
<1> QED BY <1>2 DEF Able, Free, Ended

LEMMA AnyRowFrees ==
    ASSUME IInv, NumbersFirst, NEW k \in Keys, lock[k] # None
    PROVE  \E q \in Reqs : Able(q)
<1>1. PICK q \in Reqs : pc[q] \in {"code", "write"}
  BY HoldersGoOn
<1>2. CASE pc[q] = "code" /\ req[q].owner # None /\ ~MayLock(q, <<req[q].owner, year>>)
  <2> DEFINE j == <<req[q].owner, year>>
  <2>1. j \in Keys /\ j[1] \in Owners
    BY <1>2, CallKeys DEF IInv, Orderly
  <2>2. lock[j] # None
    BY <1>2 DEF MayLock
  <2> HIDE DEF j
  <2> QED BY <2>1, <2>2, OwnersRowFrees
<1>3. CASE ~(pc[q] = "code" /\ req[q].owner # None /\ ~MayLock(q, <<req[q].owner, year>>))
  BY <1>1, <1>3 DEF Able, Free, Ended
<1> QED BY <1>2, <1>3

(* No deadlock: while calls are under way, the next step of one of them is *)
(* enabled, however many there are and whatever rows they lock, because a  *)
(* number's row is always taken before a code's.                           *)
THEOREM ProgressIsPossible == Spec => []SomebodyIsAble
<1>1. ASSUME IInv, NumbersFirst, NEW r \in Reqs, pc[r] \notin Ended
      PROVE  \E q \in Reqs : Able(q)
  <2>0. /\ Typed /\ CallShape(r) /\ Numbered(r) /\ Coded(r) /\ Recording(r)
        /\ pc[r] \in Underway /\ req[r] \in Request
    BY <1>1 DEF IInv, Typed, Orderly
  <2>1. ASSUME NEW k \in Keys, ~MayLock(r, k) PROVE \E q \in Reqs : Able(q)
    BY <1>1, <2>1, AnyRowFrees DEF MayLock
  <2>2. ASSUME NEW k \in Keys, lock[k] # None PROVE \E q \in Reqs : Able(q)
    BY <1>1, <2>2, AnyRowFrees
  <2>3. CASE Free(r)
    BY <1>1, <2>3 DEF Able
  <2>4. CASE pc[r] = "number" /\ req[r].manual # None /\ ~MayLock(r, KeyOf(req[r].manual))
    <3>1. KeyOf(req[r].manual) \in Keys
      BY <2>0, <2>4, CallKeys, Shape
    <3> QED BY <2>1, <2>4, <3>1
  <2>5. CASE pc[r] = "upsert" /\ ~MayLock(r, <<req[r].prefix, req[r].askedYear>>)
    BY <2>0, <2>1, <2>5, CallKeys
  <2>6. CASE pc[r] = "code" /\ req[r].owner # None /\ ~MayLock(r, <<req[r].owner, year>>)
    BY <2>0, <2>1, <2>6, CallKeys
  <2>7. CASE pc[r] = "again" /\ lock[KeyOf(req[r].num)] # None
    <3>1. KeyOf(req[r].num) \in Keys
      BY <1>1, <2>7, RecordedTyped
    <3> QED BY <2>2, <2>7, <3>1
  <2>8. CASE pc[r] = "again" /\ todo[r] = {"code"} /\ lock[KeyOf(req[r].code)] # None
    <3>1. KeyOf(req[r].code) \in Keys
      BY <1>1, <2>8, RecordedTyped
    <3> QED BY <2>2, <2>8, <3>1
  <2> QED BY <2>3, <2>4, <2>5, <2>6, <2>7, <2>8 DEF Free, KeyOf
<1>2. IInv /\ NumbersFirst => SomebodyIsAble
  BY <1>1 DEF SomebodyIsAble
<1> QED BY <1>2, Inductive, NumbersFirstInvariant, PTL

-----------------------------------------------------------------------------
(***************************************************************************)
(* Every step counts.                                                      *)
(***************************************************************************)

\* A call that has not begun has used no try.
Unused == \A r \in Reqs : pc[r] = "idle" => req[r].attempt = 0

LEMMA LeavesIdle ==
    ASSUME IInv, NEW r \in Reqs, Act(r) PROVE pc'[r] # "idle"
<1>0. Typed
  BY DEF IInv
<1>1. CASE Arrive(r)
  <2>1. PICK c \in Request : Begin(r, c)
    BY <1>0, <1>1, BeginSo DEF IInv
  <2> QED BY <1>0, <2>1 DEF Begin, Typed
<1>2. CASE AskNumber(r) \/ GetNumber(r) \/ TakeManual(r) \/ GetCode(r) \/ NoCode(r)
  BY <1>0, <1>2 DEF AskNumber, GetNumber, TakeManual, GetCode, NoCode, Typed
<1>3. CASE Commit(r) \/ Refuse(r) \/ Abort(r)
  BY <1>0, <1>3 DEF Commit, Refuse, Abort, End, Typed
<1>4. CASE Collide(r)
  BY <1>0, <1>4 DEF Collide, Typed
<1>5. CASE RecordNumber(r) \/ RecordCode(r) \/ RecordFails(r) \/ Retry(r)
  BY <1>0, <1>5 DEF RecordNumber, RecordCode, RecordFails, Retry, Typed
<1> QED BY <1>1, <1>2, <1>3, <1>4, <1>5 DEF Act, Step, Stop

LEMMA UnusedKept == IInv /\ Unused /\ [Next]_vars => Unused'
<1> SUFFICES ASSUME IInv, Unused, [Next]_vars, NEW s \in Reqs, pc'[s] = "idle"
             PROVE  req'[s].attempt = 0
  BY DEF Unused
<1>1. ASSUME NEW r \in Reqs, Act(r) PROVE req'[s].attempt = 0
  <2>1. r # s
    BY <1>1, LeavesIdle
  <2>2. pc'[s] = pc[s] /\ req'[s] = req[s]
    BY <1>1, <2>1, Aside DEF Undisturbed
  <2> QED BY <2>2 DEF Unused
<1>2. CASE (\E q \in quotes : Delete(q)) \/ NewYear \/ UNCHANGED vars
  BY <1>2 DEF Delete, NewYear, vars, Unused
<1> QED BY <1>1, <1>2, NextIs

LEMMA UnusedInvariant == Spec => []Unused
<1>1. Init => Unused
  BY DEF Init, Unused, NoCall, Blank
<1> QED BY <1>1, UnusedKept, Inductive, PTL DEF Spec

LEMMA TryNearer ==
    ASSUME IInv, NEW r \in Reqs,
           AskNumber(r) \/ GetNumber(r) \/ TakeManual(r) \/ GetCode(r) \/ NoCode(r)
    PROVE  Nearer(r)
<1>0. Typed /\ req[r] \in Request
  BY DEF IInv, Typed
<1>1. Stage[pc[r]] < Stage[pc'[r]]
  BY <1>0 DEF AskNumber, GetNumber, TakeManual, GetCode, NoCode, Stage, Typed
<1>2. req'[r].attempt = req[r].attempt
  BY <1>0 DEF AskNumber, GetNumber, TakeManual, GetCode, NoCode, Typed, Request
<1> QED BY <1>1, <1>2 DEF Nearer

LEMMA ActNearer ==
    ASSUME IInv, Unused, NEW r \in Reqs, Act(r) PROVE Nearer(r)
<1>0. Typed /\ req[r] \in Request /\ CallShape(r)
  BY DEF IInv, Orderly, Typed
<1>1. CASE Arrive(r)
  <2>1. PICK c \in Request : Begin(r, c) /\ c.attempt = 0
    BY <1>0, <1>1, BeginSo DEF IInv
  <2>2. pc[r] = "idle" /\ pc'[r] = "number" /\ req'[r] = c
    BY <1>0, <2>1 DEF Begin, Typed
  <2>3. req'[r].attempt = req[r].attempt
    BY <2>1, <2>2 DEF Unused
  <2> QED BY <2>2, <2>3 DEF Nearer, Stage
<1>2. CASE AskNumber(r) \/ GetNumber(r) \/ TakeManual(r) \/ GetCode(r) \/ NoCode(r)
  BY <1>2, TryNearer
<1>3. CASE Commit(r) \/ Refuse(r) \/ Abort(r)
  <2>1. pc[r] \in InTx
    BY <1>3 DEF Commit, Refuse, Abort, InTx
  <2>2. pc'[r] \in {"done", "aborted"}
    BY <1>0, <1>3 DEF Commit, Refuse, Abort, End, Typed
  <2> QED BY <2>1, <2>2 DEF InTx, Answered, Nearer
<1>4. CASE Collide(r)
  <2>1. pc[r] = "write" /\ req' = req
    BY <1>4 DEF Collide
  <2>2. pc'[r] \in {"conflict", "again"}
    BY <1>0, <1>4 DEF Collide, Typed
  <2> QED BY <2>1, <2>2 DEF Nearer, Stage
<1>5. CASE RecordNumber(r) \/ RecordCode(r) \/ RecordFails(r)
  <2>1. pc' = pc /\ req' = req
    BY <1>5 DEF RecordNumber, RecordCode, RecordFails
  <2>2. todo'[r] \subseteq todo[r] /\ todo'[r] # todo[r]
    <3>1. todo[r] \subseteq {"number", "code"}
      BY <1>0 DEF Typed
    <3>2. \/ todo'[r] = todo[r] \ {"number"} /\ "number" \in todo[r]
          \/ todo'[r] = {} /\ todo[r] # {}
      BY <1>0, <1>5 DEF RecordNumber, RecordCode, RecordFails, Typed
    <3> QED BY <3>2
  <2> QED BY <2>1, <2>2 DEF Nearer
<1>6. CASE Retry(r)
  <2>1. req[r].attempt < MaxTries - 1 /\ req[r].attempt \in Nat
    BY <1>0, <1>6 DEF Retry, CallShape, Request
  <2>2. req'[r].attempt = req[r].attempt + 1
    BY <1>0, <1>6 DEF Retry, Typed, Request
  <2> QED BY <2>1, <2>2 DEF Nearer, MaxTries
<1> QED BY <1>1, <1>2, <1>3, <1>4, <1>5, <1>6 DEF Act, Step, Stop

LEMMA NextCounts == IInv /\ Unused /\ [Next]_vars => [StepCounts]_vars
<1> SUFFICES ASSUME IInv, Unused, Next PROVE StepCounts
  BY DEF vars, StepCounts
<1>1. ASSUME NEW r \in Reqs, Act(r) PROVE StepCounts
  <2>1. Nearer(r)
    BY <1>1, ActNearer
  <2>2. \A s \in Reqs \ {r} : pc'[s] = pc[s] /\ todo'[s] = todo[s] /\ req'[s] = req[s]
    BY <1>1, Aside DEF Undisturbed
  <2> QED BY <2>1, <2>2 DEF StepCounts
<1>2. CASE (\E q \in quotes : Delete(q)) \/ NewYear
  <2>1. UNCHANGED <<pc, req, todo>>
    BY <1>2 DEF Delete, NewYear
  <2> QED BY <1>2, <2>1 DEF StepCounts
<1> QED BY <1>1, <1>2, NextIs

(* A call answers in four tries at most, each step takes one call nearer   *)
(* to its answer and sets no other back, and no try is spent on the value  *)
(* that failed before: for any calls, numbers and years.                   *)
THEOREM TriesLeadOn == Spec => TriesLead
<1>1. Spec => EveryStepCounts
  BY NextCounts, UnusedInvariant, Inductive, PTL DEF Spec, EveryStepCounts
<1> QED BY <1>1, TriesAreWorth DEF TriesLead

=============================================================================
