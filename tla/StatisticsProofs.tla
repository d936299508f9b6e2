-------------------------- MODULE StatisticsProofs --------------------------
(***************************************************************************)
(* Proofs about Statistics, for any answers, list, page size and number of *)
(* changes.  TypeInv comes first; the export, the figures and the reading  *)
(* of a list each have an invariant of their own on top of it.             *)
(***************************************************************************)
EXTENDS Statistics, FiniteSetTheorems, TLAPS

(* One answer comes before another in the order that was asked for.        *)
Less(i, j, sort) == Precedes(SortKey(i, sort), SortKey(j, sort))

LEMMA PairsInOrder ==
  ASSUME NEW a \in Int, NEW b \in Int, NEW c \in Int, NEW d \in Int
  PROVE  Precedes(<<a, b>>, <<c, d>>) <=> a < c \/ (a = c /\ b < d)
BY DEF Precedes

LEMMA TriplesInOrder ==
  ASSUME NEW a \in Int, NEW b \in Int, NEW c \in Int,
         NEW d \in Int, NEW e \in Int, NEW f \in Int
  PROVE  Precedes(<<a, b, c>>, <<d, e, f>>) <=>
           a < d \/ (a = d /\ b < e) \/ (a = d /\ b = e /\ c < f)
<1>1. ASSUME Precedes(<<a, b, c>>, <<d, e, f>>)
      PROVE  a < d \/ (a = d /\ b < e) \/ (a = d /\ b = e /\ c < f)
  BY <1>1 DEF Precedes
<1>2. ASSUME a < d \/ (a = d /\ b < e) \/ (a = d /\ b = e /\ c < f)
      PROVE  Precedes(<<a, b, c>>, <<d, e, f>>)
  BY <1>2 DEF Precedes
<1>. QED BY <1>1, <1>2

LEMMA StoredAnswers ==
  ASSUME answers \in Table, NEW i \in Stored
  PROVE  /\ i \in Int /\ answers[i].status \in Int /\ answers[i].guests \in Int
         /\ answers[i].name \in Int /\ answers[i].created \in Int
BY DataAssumption DEF Table, Stored, Answer, Ids, Attending, Declined

(* Whatever the order asked for, it goes by two numbers of the answer, and *)
(* by its id, one way or the other, at the end.                            *)
Major(i, sort) ==
  LET a == answers[i] IN
  CASE sort = "name"        -> a.name
    [] sort = "attending"   -> a.status
    [] sort = "declined"    -> -a.status
    [] sort = "guests_asc"  -> a.guests
    [] sort = "guests_desc" -> -a.guests
    [] sort = "newest"      -> -a.created
Minor(i, sort) == IF sort \in {"name", "newest"} THEN 0 ELSE answers[i].name
Last(i, sort) == IF sort = "newest" THEN -i ELSE i

LEMMA KeyNumbers ==
  ASSUME answers \in Table, NEW sort \in Sorts, NEW i \in Stored
  PROVE  /\ Major(i, sort) \in Int /\ Minor(i, sort) \in Int /\ Last(i, sort) \in Int
         /\ SortKey(i, sort) = IF sort \in {"name", "newest"}
                              THEN <<Major(i, sort), Last(i, sort)>>
                              ELSE <<Major(i, sort), Minor(i, sort), Last(i, sort)>>
<1>1. sort \in {"newest", "name", "attending", "declined", "guests_asc", "guests_desc"}
  BY DataAssumption
<1>. QED BY <1>1, StoredAnswers DEF Major, Minor, Last, SortKey

LEMMA LessByNumbers ==
  ASSUME answers \in Table, NEW sort \in Sorts, NEW i \in Stored, NEW j \in Stored
  PROVE  Less(i, j, sort) <=>
           \/ Major(i, sort) < Major(j, sort)
           \/ Major(i, sort) = Major(j, sort) /\ Minor(i, sort) < Minor(j, sort)
           \/ Major(i, sort) = Major(j, sort) /\ Minor(i, sort) = Minor(j, sort)
                /\ Last(i, sort) < Last(j, sort)
<1>1. CASE sort \in {"name", "newest"}
  <2>1. Minor(i, sort) = 0 /\ Minor(j, sort) = 0
    BY <1>1 DEF Minor
  <2>. QED BY <1>1, <2>1, KeyNumbers, PairsInOrder DEF Less
<1>2. CASE sort \notin {"name", "newest"}
  BY <1>2, KeyNumbers, TriplesInOrder DEF Less
<1>. QED BY <1>1, <1>2

(* No two answers tie, so that a list has one order only.                  *)
LEMMA KeysInOrder ==
  ASSUME answers \in Table, NEW sort \in Sorts,
         NEW i \in Stored, NEW j \in Stored, NEW k \in Stored
  PROVE  /\ ~Less(i, i, sort)
         /\ Less(i, j, sort) /\ Less(j, k, sort) => Less(i, k, sort)
         /\ i # j => Less(i, j, sort) \/ Less(j, i, sort)
<1>1. /\ Major(i, sort) \in Int /\ Minor(i, sort) \in Int /\ Last(i, sort) \in Int
      /\ Major(j, sort) \in Int /\ Minor(j, sort) \in Int /\ Last(j, sort) \in Int
      /\ Major(k, sort) \in Int /\ Minor(k, sort) \in Int /\ Last(k, sort) \in Int
  BY KeyNumbers
<1>2. ~Less(i, i, sort)
  BY <1>1, LessByNumbers
<1>3. Less(i, j, sort) /\ Less(j, k, sort) => Less(i, k, sort)
  BY <1>1, LessByNumbers
<1>4. i # j => Less(i, j, sort) \/ Less(j, i, sort)
  <2>1. i # j => Last(i, sort) # Last(j, sort)
    BY StoredAnswers DEF Last
  <2>. QED BY <1>1, <2>1, LessByNumbers
<1>. QED BY <1>2, <1>3, <1>4

-----------------------------------------------------------------------------
(* Counting answers.                                                       *)

LEMMA CountUpTo ==
  ASSUME NEW n \in Nat
  PROVE  IsFiniteSet(1..n) /\ Cardinality(1..n) = n
BY FS_Interval

LEMMA CountOfIds ==
  ASSUME NEW S \in SUBSET Ids
  PROVE  IsFiniteSet(S) /\ Cardinality(S) \in 0..N
<1>1. IsFiniteSet(Ids) /\ Cardinality(Ids) = N
  BY FS_Interval, DataAssumption DEF Ids
<1>2. IsFiniteSet(S) /\ Cardinality(S) <= N
  BY <1>1, FS_Subset
<1>. QED BY <1>2, FS_CardinalityType, DataAssumption

LEMMA FilteredAreStored ==
  ASSUME NEW o
  PROVE  Filtered(o) \subseteq Stored /\ Stored \subseteq Ids
BY DEF Filtered, WithStatus, Stored

(* How many answers of the list come before one of them.                   *)
Rank(i, o) == Cardinality({j \in Filtered(o) : Less(j, i, o.sort)})

(* The slice reads the list in its order: the answer at place k has k - 1  *)
(* others before it, and every answer has a place.                         *)
LEMMA PlacesOfListing ==
  ASSUME answers \in Table, NEW o \in Options, NEW list \in Listings(o),
         NEW i \in Filtered(o)
  PROVE  \E k \in 1..Cardinality(Filtered(o)) : list[k] = i /\ Rank(i, o) = k - 1
<1>. DEFINE rows == Filtered(o)
            n == Cardinality(rows)
<1>1. rows \subseteq Stored /\ IsFiniteSet(rows) /\ n \in Nat
  BY FilteredAreStored, CountOfIds
<1>2. /\ list \in [1..n -> rows]
      /\ \A j, k \in 1..n : j < k => list[j] # list[k] /\ ~Less(list[k], list[j], o.sort)
  BY DEF Listings, Less
<1>3. o.sort \in Sorts
  BY DEF Options
<1>4. \A j, k \in 1..n : j < k => Less(list[j], list[k], o.sort)
  BY <1>1, <1>2, <1>3, KeysInOrder
<1>5. IsInjective(list)
  BY <1>1, <1>2 DEF IsInjective
<1>6. IsFiniteSet(1..n) /\ Cardinality(1..n) = n
  BY <1>1, CountUpTo
<1>7. list \in Surjection(1..n, rows)
  BY <1>1, <1>2, <1>5, <1>6, FS_Injection DEF Injection
<1>8. PICK k \in 1..n : list[k] = i
  BY <1>7 DEF Surjection
<1>. DEFINE before == {j \in rows : Less(j, i, o.sort)}
            head == [m \in 1..k-1 |-> list[m]]
<1>9. \A m \in 1..n : list[m] \in before <=> m < k
  <2>. SUFFICES ASSUME NEW m \in 1..n
                PROVE  Less(list[m], list[k], o.sort) <=> m < k
    BY <1>2, <1>8
  <2>1. list[m] \in Stored /\ list[k] \in Stored
    BY <1>1, <1>2
  <2>2. m = k => ~Less(list[m], list[k], o.sort)
    BY <2>1, <1>3, KeysInOrder
  <2>3. k < m => ~Less(list[m], list[k], o.sort)
    BY <1>2
  <2>. QED BY <2>2, <2>3, <1>1, <1>4
<1>10. head \in Bijection(1..k-1, before)
  <2>1. head \in [1..k-1 -> before]
    BY <1>1, <1>9
  <2>2. IsInjective(head)
    BY <1>1, <1>5, <1>2 DEF IsInjective
  <2>3. \A j \in before : \E m \in 1..k-1 : head[m] = j
    <3>. SUFFICES ASSUME NEW j \in before PROVE \E m \in 1..k-1 : head[m] = j
      OBVIOUS
    <3>1. PICK m \in 1..n : list[m] = j
      BY <1>7 DEF Surjection
    <3>2. m \in 1..k-1
      BY <3>1, <1>1, <1>9
    <3>. QED BY <3>1, <3>2
  <2>. QED BY <2>1, <2>2, <2>3 DEF Bijection, Injection, Surjection
<1>11. Cardinality(before) = k - 1
  <2>1. k - 1 \in Nat
    BY <1>1
  <2>2. IsFiniteSet(1..k-1) /\ Cardinality(1..k-1) = k - 1
    BY <2>1, CountUpTo, Zenon
  <2>. QED BY <2>2, <1>10, FS_Bijection DEF ExistsBijection
<1>. QED BY <1>8, <1>11 DEF Rank

(* An answer further down the list has more answers before it.             *)
LEMMA RanksInOrder ==
  ASSUME answers \in Table, NEW o \in Options, NEW i \in Filtered(o)
  PROVE  /\ Rank(i, o) \in 0..Cardinality(Filtered(o))-1
         /\ \A j \in Filtered(o) : Less(i, j, o.sort) => Rank(i, o) < Rank(j, o)
<1>. DEFINE rows == Filtered(o)
            before(j) == {k \in rows : Less(k, j, o.sort)}
<1>1. rows \subseteq Stored /\ IsFiniteSet(rows) /\ Cardinality(rows) \in Nat /\ o.sort \in Sorts
  BY FilteredAreStored, CountOfIds, DataAssumption DEF Options
<1>2. ASSUME NEW S \in SUBSET rows, NEW T \in SUBSET S, NEW x \in S, x \notin T
      PROVE  Cardinality(T) < Cardinality(S)
  <2>1. IsFiniteSet(S)
    BY <1>1, FS_Subset
  <2>2. IsFiniteSet(T) /\ Cardinality(T) <= Cardinality(S) /\ Cardinality(T) # Cardinality(S)
    BY <1>2, <2>1, FS_Subset
  <2>. QED BY <2>1, <2>2, FS_CardinalityType
<1>3. \A j \in rows : before(j) \in SUBSET rows /\ j \notin before(j)
  BY <1>1, KeysInOrder
<1>4. Cardinality(before(i)) < Cardinality(rows) /\ Cardinality(before(i)) \in Nat
  BY <1>1, <1>2, <1>3, FS_Subset, FS_CardinalityType
<1>5. ASSUME NEW j \in rows, Less(i, j, o.sort)
      PROVE  Cardinality(before(i)) < Cardinality(before(j))
  <2>1. before(i) \subseteq before(j)
    BY <1>1, <1>5, KeysInOrder
  <2>2. i \in before(j)
    BY <1>5
  <2>. QED BY <1>2, <1>3, <2>1, <2>2
<1>. QED BY <1>1, <1>4, <1>5 DEF Rank

(* The order of a list is decided: there is exactly one.                   *)
LEMMA OneListing ==
  ASSUME answers \in Table, NEW o \in Options
  PROVE  \E list : Listings(o) = {list}
<1>. DEFINE rows == Filtered(o)
            n == Cardinality(rows)
            place == [i \in rows |-> Rank(i, o) + 1]
            list == [k \in 1..n |-> CHOOSE i \in rows : place[i] = k]
<1>1. rows \subseteq Stored /\ n \in Nat /\ o.sort \in Sorts
  BY FilteredAreStored, CountOfIds, DataAssumption DEF Options
<1>2. place \in [rows -> 1..n]
  <2>1. \A i \in rows : Rank(i, o) + 1 \in 1..n
    BY <1>1, RanksInOrder
  <2>. QED BY <2>1
<1>3. \A i, j \in rows : i # j => Rank(i, o) # Rank(j, o)
  <2>. SUFFICES ASSUME NEW i \in rows, NEW j \in rows, i # j
                PROVE  Rank(i, o) # Rank(j, o)
    OBVIOUS
  <2>1. Less(i, j, o.sort) \/ Less(j, i, o.sort)
    BY <1>1, KeysInOrder
  <2>2. Rank(i, o) < Rank(j, o) \/ Rank(j, o) < Rank(i, o)
    BY <2>1, RanksInOrder
  <2>3. Rank(i, o) \in Int /\ Rank(j, o) \in Int
    BY <1>1, RanksInOrder
  <2>. QED BY <2>2, <2>3
<1>4. place \in Surjection(rows, 1..n)
  <2>1. \A i \in rows : Rank(i, o) \in Int
    BY <1>1, RanksInOrder
  <2>2. place \in Injection(rows, 1..n)
    BY <1>2, <1>3, <2>1 DEF Injection, IsInjective
  <2>3. IsFiniteSet(1..n) /\ Cardinality(1..n) = n
    BY <1>1, CountUpTo
  <2>. QED BY <2>2, <2>3, FS_Injection
<1>5. \A k \in 1..n : list[k] \in rows /\ place[list[k]] = k
  BY <1>4 DEF Surjection
<1>6. list \in [1..n -> rows]
  BY <1>5
<1>7. \A k \in 1..n : Rank(list[k], o) = k - 1
  <2>. SUFFICES ASSUME NEW k \in 1..n PROVE Rank(list[k], o) = k - 1
    OBVIOUS
  <2>1. list[k] \in rows /\ place[list[k]] = k
    BY <1>5
  <2>2. place[list[k]] = Rank(list[k], o) + 1
    BY <2>1
  <2>3. Rank(list[k], o) \in Int
    BY <2>1, <1>1, RanksInOrder
  <2>. HIDE DEF list, place
  <2>. QED BY <2>1, <2>2, <2>3
<1>. HIDE DEF list, place
<1>8. list \in Listings(o)
  <2>1. ASSUME NEW j \in 1..n, NEW k \in 1..n, j < k
        PROVE  list[j] # list[k] /\ ~Less(list[k], list[j], o.sort)
    <3>1. list[j] \in rows /\ list[k] \in rows
      BY <1>6
    <3>2. Rank(list[j], o) = j - 1 /\ Rank(list[k], o) = k - 1
      BY <1>7
    <3>3. Rank(list[j], o) < Rank(list[k], o) /\ ~(Rank(list[k], o) < Rank(list[j], o))
      BY <2>1, <3>2, <1>1
    <3>4. list[j] # list[k]
      BY <3>3
    <3>. QED BY <3>1, <3>3, <3>4, RanksInOrder
  <2>2. DOMAIN list = 1..n
    BY <1>6
  <2>. QED BY <1>6, <2>1, <2>2 DEF Listings, Less
<1>9. ASSUME NEW other \in Listings(o) PROVE other = list
  <2>1. /\ other \in [1..n -> rows]
        /\ \A j, k \in 1..n : j < k => other[j] # other[k]
    BY DEF Listings
  <2>2. ASSUME NEW k \in 1..n PROVE other[k] = list[k]
    <3>1. other[k] \in rows /\ list[k] \in rows
      BY <2>1, <1>6
    <3>2. PICK m \in 1..n : other[m] = other[k] /\ Rank(other[k], o) = m - 1
      BY <3>1, PlacesOfListing
    <3>3. m = k
      <4>1. ~(m < k) /\ ~(k < m)
        BY <2>1, <3>2
      <4>. QED BY <4>1, <1>1
    <3>4. Rank(list[k], o) = k - 1
      BY <1>7
    <3>. QED BY <1>3, <3>1, <3>2, <3>3, <3>4
  <2>3. other = [k \in 1..n |-> other[k]] /\ list = [k \in 1..n |-> list[k]]
    BY <2>1, <1>6
  <2>. QED BY <2>2, <2>3, Zenon
<1>. QED BY <1>8, <1>9

-----------------------------------------------------------------------------
(* Pages, and persons.                                                     *)

LEMMA PagesOfCount ==
  ASSUME NEW count \in Nat
  PROVE  Pages(count) \in Nat \ {0}
BY DataAssumption DEF Pages

LEMMA LesserOfTwo ==
  ASSUME NEW a \in Int, NEW b \in Int
  PROVE  Min({a, b}) = IF a <= b THEN a ELSE b
BY DEF Min

LEMMA Division ==
  ASSUME NEW a \in Nat, NEW b \in Nat \ {0}
  PROVE  /\ a \div b \in Nat
         /\ (a \div b) * b <= a
         /\ a < (a \div b + 1) * b
OBVIOUS

(* All pages but the last are full, and the last is neither empty nor      *)
(* overfull.                                                               *)
LEMMA PagesFill ==
  ASSUME NEW count \in Nat
  PROVE  /\ count <= Pages(count) * PerPage
         /\ count > 0 => (Pages(count) - 1) * PerPage < count
<1>. DEFINE d == (count + PerPage - 1) \div PerPage
<1>1. count + PerPage - 1 \in Nat /\ PerPage \in Nat \ {0}
  BY DataAssumption
<1>2. d \in Nat /\ d * PerPage <= count + PerPage - 1 /\ count + PerPage - 1 < (d + 1) * PerPage
  BY <1>1, Division
<1>. HIDE DEF d
<1>3. count <= d * PerPage /\ (d - 1) * PerPage < count
  BY <1>1, <1>2
<1>4. CASE count = 0
  BY <1>4, <1>1 DEF Pages
<1>5. CASE count # 0
  <2>1. Pages(count) = d
    BY <1>5 DEF Pages, d
  <2>. QED BY <1>3, <2>1
<1>. QED BY <1>4, <1>5

LEMMA LaterPageStartsLater ==
  ASSUME NEW m \in Nat \ {0}, NEW n \in Nat \ {0}, m <= n
  PROVE  (m - 1) * PerPage <= (n - 1) * PerPage
BY DataAssumption

LEMMA GuestsAreFinite ==
  ASSUME answers \in Table, NEW ids \in SUBSET Stored, NEW from \in {0, 1}
  PROVE  IsFiniteSet(UNION {{i} \X (from..answers[i].guests) : i \in ids})
<1>. DEFINE group(i) == {i} \X (from..answers[i].guests)
            groups == [i \in ids |-> group(i)]
            all == {group(i) : i \in ids}
<1>1. IsFiniteSet(ids)
  BY CountOfIds, FilteredAreStored
<1>2. groups \in Surjection(ids, all)
  BY DEF Surjection
<1>3. IsFiniteSet(all)
  BY <1>1, <1>2, FS_Surjection
<1>4. \A T \in all : IsFiniteSet(T)
  <2>. SUFFICES ASSUME NEW i \in ids PROVE IsFiniteSet(group(i))
    BY Zenon
  <2>1. answers[i].guests \in Int
    BY StoredAnswers
  <2>2. \A a, b \in Int : IsFiniteSet(a..b)
    BY FS_Interval
  <2>3. from \in Int
    OBVIOUS
  <2>4. IsFiniteSet(from..answers[i].guests)
    BY <2>1, <2>2, <2>3, Zenon
  <2>. QED BY <2>4, FS_Singleton, FS_Product, Zenon
<1>. QED BY <1>3, <1>4, FS_UNION

-----------------------------------------------------------------------------
(* The types of the state.  Readers are on lists that exist, and keys that *)
(* were not given out are not in use.                                      *)

TypeInv ==
  /\ TypeOK
  /\ page.at # "idle" => walk.options \in Options
  /\ file.at # "idle" => file.options \in Options
  /\ \A i \in Stored : i <= issued

LEMMA FiguresInRange ==
  ASSUME TypeOK
  PROVE  /\ Cardinality(Stored) \in 0..N /\ SumGuests \in Nat /\ Len(views) \in Nat
         /\ \A o \in Options : Cardinality(Filtered(o)) \in 0..N
         /\ \A status \in {Attending, Declined} : Cardinality(WithStatus(status)) \in 0..N
         /\ IsFiniteSet(Range(views)) /\ Cardinality(Range(views)) \in Nat
         /\ Cardinality(Range(views)) <= Len(views)
<1>1. /\ Cardinality(Stored) \in 0..N
      /\ \A o \in Options : Cardinality(Filtered(o)) \in 0..N
  BY CountOfIds, FilteredAreStored
<1>2. \A status \in {Attending, Declined} : Cardinality(WithStatus(status)) \in 0..N
  <2>1. \A status \in {Attending, Declined} : WithStatus(status) \in SUBSET Ids
    BY DEF WithStatus, Stored
  <2>. QED BY <2>1, CountOfIds
<1>3. SumGuests \in Nat
  <2>1. answers \in Table /\ WithStatus(Attending) \in SUBSET Stored
    BY DEF TypeOK, WithStatus
  <2>2. IsFiniteSet(Brought(WithStatus(Attending)))
    BY <2>1, GuestsAreFinite DEF Brought
  <2>. QED BY <2>2, FS_CardinalityType DEF SumGuests
<1>4. /\ Len(views) \in Nat /\ IsFiniteSet(Range(views)) /\ Cardinality(Range(views)) \in Nat
      /\ Cardinality(Range(views)) <= Len(views)
  <2>1. views \in Seq(Visitors)
    BY DEF TypeOK
  <2>2. Len(views) \in Nat /\ views \in [1..Len(views) -> Visitors]
    BY <2>1
  <2>3. views \in Surjection(1..Len(views), Range(views))
    BY <2>2 DEF Surjection, Range
  <2>4. IsFiniteSet(1..Len(views)) /\ Cardinality(1..Len(views)) = Len(views)
    BY <2>2, CountUpTo
  <2>5. IsFiniteSet(Range(views)) /\ Cardinality(Range(views)) <= Len(views)
    BY <2>3, <2>4, FS_Surjection
  <2>. QED BY <2>2, <2>5, FS_CardinalityType
<1>. QED BY <1>1, <1>2, <1>3, <1>4

LEMMA StartingTypes == NoPage \in Page /\ NoWalk \in Walk /\ NoFile \in File
<1>1. NoPage \in Page
  BY DataAssumption DEF NoPage, Page, Steps, Figures, FigureTypes
<1>2. NoWalk \in Walk /\ NoFile \in File
  BY DEF NoWalk, Walk, NoFile, File
<1>. QED BY <1>1, <1>2

LEMMA TypeInit == Init => TypeInv
<1>. SUFFICES ASSUME Init PROVE TypeInv
  OBVIOUS
<1>1. answers \in Table /\ issued \in 0..N /\ \A i \in Stored : i <= issued
  BY DataAssumption DEF Init
<1>2. page = NoPage /\ file = NoFile /\ walk = NoWalk /\ views = <<>> /\ log = {}
      /\ changes = 0 /\ drift = 0 /\ arrived = 0
  BY DEF Init
<1>3. page.at = "idle" /\ file.at = "idle"
  BY <1>2 DEF NoPage, NoFile
<1>4. TypeOK
  BY <1>1, <1>2, StartingTypes, DataAssumption DEF TypeOK
<1>. QED BY <1>1, <1>3, <1>4 DEF TypeInv

(* What a reader of a page changes, in types.                              *)
LEMMA TypeOfPage ==
  ASSUME TypeInv, UNCHANGED <<answers, issued, views, file, log, changes>>,
         page' \in Page, walk' \in Walk, drift' \in 0..changes, arrived' \in 0..changes,
         page'.at # "idle" => walk'.options \in Options
  PROVE  TypeInv'
BY DEF TypeInv, TypeOK, Stored

LEMMA TypeOfReading ==
  ASSUME TypeInv,
         \/ \E o \in Options : OpenList(o)
         \/ OpenNext \/ CountList \/ ReadSlice \/ CountAttending \/ AddGuests
         \/ CountAll \/ CountDeclined \/ CountViews \/ CountUnique \/ ClosePage
  PROVE  TypeInv'
<1>0. /\ page \in Page /\ walk \in Walk
      /\ page.at # "idle" => walk.options \in Options
      /\ changes \in Nat /\ drift \in 0..changes /\ arrived \in 0..changes
      /\ 0 \in 0..changes
  BY DataAssumption DEF TypeInv, TypeOK
<1>1. ASSUME NEW o \in Options, OpenList(o)
      PROVE  TypeInv'
  <2>1. page' \in Page
    BY <1>1, StartingTypes DEF OpenList, Page, Steps
  <2>2. walk' \in Walk /\ walk'.options \in Options
    BY <1>1, StartingTypes, FilteredAreStored DEF OpenList, Walk
  <2>. QED BY <1>0, <1>1, <2>1, <2>2, TypeOfPage DEF OpenList
<1>2. CASE OpenNext
  <2>1. page.number + 1 \in Nat \ {0}
    BY <1>0 DEF Page
  <2>2. \A n \in Nat \ {0} : [NoPage EXCEPT !.at = "count", !.number = n] \in Page
    BY StartingTypes DEF Page, Steps
  <2>3. page' \in Page
    BY <1>2, <2>1, <2>2 DEF OpenNext
  <2>. QED BY <1>0, <1>2, <2>3, TypeOfPage DEF OpenNext
<1>3. CASE CountList
  <2>. DEFINE count == Cardinality(Filtered(walk.options))
  <2>1. count \in 0..N /\ Pages(count) \in Nat \ {0}
    BY <1>0, <1>3, FiguresInRange, PagesOfCount, DataAssumption DEF CountList, TypeInv
  <2>2. page.number \in Nat \ {0}
    BY <1>0 DEF Page
  <2>3. Min({page.number, Pages(count)}) \in Nat \ {0}
    BY <2>1, <2>2, LesserOfTwo
  <2>4. page' = [page EXCEPT !.at = "slice", !.count = count,
                             !.number = Min({page.number, Pages(count)})]
    BY <1>3 DEF CountList
  <2>. HIDE DEF count
  <2>5. page' \in Page
    BY <1>0, <2>1, <2>3, <2>4 DEF Page, Steps
  <2>. QED BY <1>0, <1>3, <2>5, TypeOfPage DEF CountList, PageOnly
<1>4. CASE ReadSlice
  <2>1. PICK list \in Listings(walk.options) :
           LET rows == Slice(list, page.number, page.count)
           IN /\ page' = [page EXCEPT !.at = "attending", !.rows = rows]
              /\ walk' = [walk EXCEPT !.seen = walk.seen \cup rows]
    BY <1>4 DEF ReadSlice
  <2>2. \A k \in DOMAIN list : list[k] \in Ids
    BY FilteredAreStored DEF Listings
  <2>3. PICK rows \in SUBSET Ids :
           /\ page' = [page EXCEPT !.at = "attending", !.rows = rows]
           /\ walk' = [walk EXCEPT !.seen = walk.seen \cup rows]
    BY <2>1, <2>2 DEF Slice
  <2>4. page' \in Page
    BY <1>0, <2>3 DEF Page, Steps
  <2>5. walk' \in Walk /\ walk'.options = walk.options
    BY <1>0, <2>3 DEF Walk
  <2>. QED BY <1>0, <1>4, <2>4, <2>5, TypeOfPage DEF ReadSlice
<1>5. CASE CountAttending
  <2>1. page' \in Page
    BY <1>0, <1>5, FiguresInRange DEF TypeInv, CountAttending, Read, Page, Steps, FigureTypes
  <2>. QED BY <1>0, <1>5, <2>1, TypeOfPage DEF CountAttending, PageOnly
<1>6. CASE AddGuests
  <2>1. page' \in Page
    BY <1>0, <1>6, FiguresInRange DEF TypeInv, AddGuests, Read, Page, Steps, FigureTypes
  <2>. QED BY <1>0, <1>6, <2>1, TypeOfPage DEF AddGuests, PageOnly
<1>7. CASE CountAll
  <2>1. page' \in Page
    BY <1>0, <1>7, FiguresInRange DEF TypeInv, CountAll, Read, Page, Steps, FigureTypes
  <2>. QED BY <1>0, <1>7, <2>1, TypeOfPage DEF CountAll, PageOnly
<1>8. CASE CountDeclined
  <2>1. page' \in Page
    BY <1>0, <1>8, FiguresInRange DEF TypeInv, CountDeclined, Read, Page, Steps, FigureTypes
  <2>. QED BY <1>0, <1>8, <2>1, TypeOfPage DEF CountDeclined, PageOnly
<1>9. CASE CountViews
  <2>1. page' \in Page
    BY <1>0, <1>9, FiguresInRange DEF TypeInv, CountViews, Read, Page, Steps, FigureTypes
  <2>. QED BY <1>0, <1>9, <2>1, TypeOfPage DEF CountViews, PageOnly
<1>10. CASE CountUnique
  <2>1. page' \in Page
    BY <1>0, <1>10, FiguresInRange DEF TypeInv, CountUnique, Read, Page, Steps, FigureTypes
  <2>. QED BY <1>0, <1>10, <2>1, TypeOfPage DEF CountUnique, PageOnly
<1>11. CASE ClosePage
  BY <1>0, <1>11, StartingTypes, TypeOfPage DEF ClosePage, NoPage
<1>. QED BY <1>1, <1>2, <1>3, <1>4, <1>5, <1>6, <1>7, <1>8, <1>9, <1>10, <1>11

LEMMA TypeOfExporting ==
  ASSUME TypeInv,
         (\E o \in Options : OpenExport(o)) \/ LogExport \/ QueryExport \/ StreamRow \/ CloseExport
  PROVE  TypeInv'
<1>0. /\ file \in File /\ log \subseteq Options
      /\ file.at # "idle" => file.options \in Options
      /\ UNCHANGED <<answers, issued, views, changes, page, walk, drift, arrived>>
  BY DEF TypeInv, TypeOK, OpenExport, LogExport, QueryExport, StreamRow, CloseExport,
         FileOnly, pageVars
<1>1. ASSUME file' \in File, log' \subseteq Options, file'.at # "idle" => file'.options \in Options
      PROVE  TypeInv'
  BY <1>0, <1>1 DEF TypeInv, TypeOK, Stored
<1>2. ASSUME NEW o \in Options, OpenExport(o)
      PROVE  TypeInv'
  <2>1. file' \in File /\ file'.options \in Options
    BY <1>2, StartingTypes DEF OpenExport, File
  <2>. QED BY <1>0, <1>1, <1>2, <2>1 DEF OpenExport
<1>3. CASE LogExport
  <2>1. file' \in File /\ file'.options = file.options
    BY <1>0, <1>3 DEF LogExport, File
  <2>. QED BY <1>0, <1>1, <1>3, <2>1 DEF LogExport
<1>4. CASE QueryExport
  <2>1. Filtered(file.options) \subseteq Ids
    BY FilteredAreStored
  <2>2. file' \in File /\ file'.options = file.options
    BY <1>0, <1>4, <2>1 DEF QueryExport, File
  <2>. QED BY <1>0, <1>1, <1>4, <2>2 DEF QueryExport
<1>5. CASE StreamRow
  <2>1. PICK i \in file.rows : file' = [file EXCEPT !.sent = file.sent \cup {i}]
    BY <1>5 DEF StreamRow
  <2>2. file' \in File /\ file'.options = file.options
    BY <1>0, <2>1 DEF File
  <2>. QED BY <1>0, <1>1, <1>5, <2>2 DEF StreamRow
<1>6. CASE CloseExport
  BY <1>0, <1>1, <1>6, StartingTypes DEF CloseExport, NoFile
<1>. QED BY <1>2, <1>3, <1>4, <1>5, <1>6

(* A change of answers changes one row, and the history of the page that   *)
(* is being made.                                                          *)
LEMMA TypeOfChange ==
  ASSUME TypeInv, NEW table \in Table, NEW spoils \in BOOLEAN, Change(table, spoils),
         issued' \in 0..N, \A i \in Ids : table[i] # None => i <= issued'
  PROVE  TypeInv'
<1>1. walk' \in Walk /\ walk'.options = walk.options
  BY DEF TypeInv, TypeOK, Change, Walk
<1>2. changes' \in 0..MaxChanges /\ drift' \in 0..changes' /\ arrived' \in 0..changes'
  BY DataAssumption DEF TypeInv, TypeOK, Change
<1>3. answers' = table /\ UNCHANGED <<views, page, file, log>>
  BY DEF Change
<1>. QED BY <1>1, <1>2, <1>3 DEF TypeInv, TypeOK, Stored

LEMMA TypeOfChanging ==
  ASSUME TypeInv,
         \/ \E a \in Answers : Submit(a)
         \/ \E i \in Ids : Delete(i) \/ \E a \in Edits : Edit(i, a)
         \/ \E v \in Visitors : View(v)
  PROVE  TypeInv'
<1>0. /\ answers \in Table /\ issued \in 0..N
      /\ \A i \in Ids : answers[i] # None => i <= issued
  BY DEF TypeInv, TypeOK, Stored
<1>1. ASSUME NEW a \in Answers, Submit(a)
      PROVE  TypeInv'
  <2>. DEFINE table == [answers EXCEPT ![issued + 1] = a]
  <2>1. issued + 1 \in Ids /\ issued' = issued + 1
    BY <1>0, <1>1, DataAssumption DEF Submit, Ids
  <2>2. table \in Table /\ \A i \in Ids : table[i] # None => i <= issued + 1
    BY <1>0, <2>1, DataAssumption DEF Table, Ids
  <2>. DEFINE spoils == page.at = "slice" /\ LastPage
  <2>3. spoils \in BOOLEAN /\ Change(table, spoils)
    BY <1>1 DEF Submit
  <2>. HIDE DEF table, spoils
  <2>4. issued' \in 0..N
    BY <2>1, DataAssumption DEF Ids
  <2>. QED BY <2>1, <2>2, <2>3, <2>4, TypeOfChange
<1>2. ASSUME NEW i \in Ids, Delete(i)
      PROVE  TypeInv'
  <2>. DEFINE table == [answers EXCEPT ![i] = None]
  <2>1. table \in Table /\ \A j \in Ids : table[j] # None => j <= issued
    BY <1>0 DEF Table
  <2>. QED BY <1>0, <1>2, <2>1, TypeOfChange DEF Delete
<1>3. ASSUME NEW i \in Ids, NEW a \in Edits, Edit(i, a)
      PROVE  TypeInv'
  <2>. DEFINE b == [a EXCEPT !.created = answers[i].created]
              table == [answers EXCEPT ![i] = b]
  <2>1. b \in Answer
    BY <1>0, <1>3, DataAssumption DEF Edit, Stored, Table, Answer
  <2>. HIDE DEF b
  <2>2. table \in Table /\ \A j \in Ids : table[j] # None => j <= issued
    BY <1>0, <1>3, <2>1 DEF Table, Edit, Stored
  <2>3. Change(table, TRUE) /\ issued' = issued
    BY <1>3 DEF Edit, b
  <2>. QED BY <1>0, <2>2, <2>3, TypeOfChange
<1>4. ASSUME NEW v \in Visitors, View(v)
      PROVE  TypeInv'
  BY <1>4, DataAssumption DEF View, TypeInv, TypeOK, Stored
<1>. QED BY <1>1, <1>2, <1>3, <1>4

LEMMA TypeStep == TypeInv /\ [Next]_vars => TypeInv'
<1>1. ASSUME TypeInv, Next PROVE TypeInv'
  <2>1. CASE \E o \in Options : OpenList(o) \/ OpenExport(o)
    BY <1>1, <2>1, TypeOfReading, TypeOfExporting
  <2>2. CASE \/ OpenNext \/ CountList \/ ReadSlice \/ CountAttending \/ AddGuests \/ CountAll
             \/ CountDeclined \/ CountViews \/ CountUnique \/ ClosePage
             \/ LogExport \/ QueryExport \/ StreamRow \/ CloseExport
    BY <1>1, <2>2, TypeOfReading, TypeOfExporting
  <2>. QED BY <1>1, <2>1, <2>2, TypeOfChanging DEF Next
<1>2. ASSUME TypeInv, UNCHANGED vars PROVE TypeInv'
  BY <1>2 DEF vars, TypeInv, TypeOK, Stored
<1>. QED BY <1>1, <1>2

LEMMA Typed == Spec => []TypeInv
BY TypeInit, TypeStep, PTL DEF Spec

(* The pages of event_statistics, the export and their history keep their  *)
(* types: a page counts no more answers than there are ids, and drift is   *)
(* at most the number of changes.                                          *)
THEOREM TypeCorrect == Spec => []TypeOK
<1>1. TypeInv => TypeOK
  BY DEF TypeInv
<1>. QED BY <1>1, Typed, PTL

(* _response_queryset: the id at the end of every order_by decides between *)
(* equal names and times, so that two pages read at one moment, or a page  *)
(* and an export, have the answers in one order.                           *)
THEOREM ListsHaveOneOrder == Spec => [](\A o \in Options : \E list : Listings(o) = {list})
<1>1. TypeInv => \A o \in Options : \E list : Listings(o) = {list}
  BY OneListing DEF TypeInv, TypeOK
<1>. QED BY <1>1, Typed, PTL

(* Where an answer's page begins and ends.                                 *)
LEMMA PageOfPlace ==
  ASSUME NEW count \in Nat, NEW k \in 1..count
  PROVE  \E p \in 1..Pages(count) : (p - 1) * PerPage < k /\ k <= p * PerPage
<1>. DEFINE d == (k - 1) \div PerPage
<1>1. PerPage \in Nat \ {0} /\ k - 1 \in Nat
  BY DataAssumption
<1>2. d \in Nat /\ d * PerPage <= k - 1 /\ k - 1 < (d + 1) * PerPage
  BY <1>1, Division
<1>3. Pages(count) \in Nat \ {0} /\ count <= Pages(count) * PerPage
  BY PagesOfCount, PagesFill
<1>. HIDE DEF d
<1>4. d * PerPage < Pages(count) * PerPage
  BY <1>1, <1>2, <1>3
<1>5. d + 1 <= Pages(count)
  <2>. SUFFICES ASSUME Pages(count) <= d PROVE FALSE
    BY <1>2, <1>3
  <2>1. Pages(count) * PerPage <= d * PerPage
    BY <1>1, <1>2, <1>3
  <2>. QED BY <1>1, <1>2, <1>3, <1>4, <2>1
<1>6. PICK p \in 1..Pages(count) : p = d + 1 /\ p - 1 = d
  BY <1>2, <1>3, <1>5
<1>7. (p - 1) * PerPage < k /\ k <= p * PerPage
  BY <1>1, <1>2, <1>6
<1>. QED BY <1>7, Zenon

(* event_statistics: the pages of a list that nobody changes are a         *)
(* partition of it: every answer is on exactly one page, and no page has   *)
(* more than PerPage of them.                                              *)
PagesPartition ==
  \A o \in Options : \A list \in Listings(o) :
    LET count == Cardinality(Filtered(o)) IN
    /\ \A i \in Filtered(o) : \E p \in 1..Pages(count) : i \in Slice(list, p, count)
    /\ \A p, q \in 1..Pages(count) :
         p # q => Slice(list, p, count) \cap Slice(list, q, count) = {}
    /\ \A p \in 1..Pages(count) : Cardinality(Slice(list, p, count)) <= PerPage

LEMMA PartitionHolds ==
  ASSUME answers \in Table
  PROVE  PagesPartition
<1>. SUFFICES ASSUME NEW o \in Options, NEW list \in Listings(o)
              PROVE
    LET count == Cardinality(Filtered(o)) IN
    /\ \A i \in Filtered(o) : \E p \in 1..Pages(count) : i \in Slice(list, p, count)
    /\ \A p, q \in 1..Pages(count) :
         p # q => Slice(list, p, count) \cap Slice(list, q, count) = {}
    /\ \A p \in 1..Pages(count) : Cardinality(Slice(list, p, count)) <= PerPage
  BY DEF PagesPartition
<1>. DEFINE count == Cardinality(Filtered(o))
            last == Pages(count)
            places(p) == {k \in 1..count : (p - 1) * PerPage < k /\ k <= p * PerPage}
<1>1. count \in Nat /\ last \in Nat \ {0} /\ PerPage \in Nat \ {0}
  BY FilteredAreStored, CountOfIds, PagesOfCount, DataAssumption
<1>2. list \in [1..count -> Filtered(o)]
  BY DEF Listings
<1>3. \A j, k \in 1..count : list[j] = list[k] => j = k
  <2>1. \A j, k \in 1..count : j < k => list[j] # list[k]
    BY DEF Listings
  <2>. QED BY <1>1, <2>1
<1>4. \A p \in 1..last : Slice(list, p, count) = {list[k] : k \in places(p)}
  <2>. SUFFICES ASSUME NEW p \in 1..last
                PROVE  Slice(list, p, count) = {list[k] : k \in places(p)}
    OBVIOUS
  <2>1. count <= last * PerPage
    BY <1>1, PagesFill
  <2>2. {k \in DOMAIN list : (p - 1) * PerPage < k
           /\ k <= (IF p = last THEN count ELSE p * PerPage)} = places(p)
    BY <1>1, <1>2, <2>1
  <2>. QED BY <2>2 DEF Slice
<1>. HIDE DEF last
<1>5. ASSUME NEW i \in Filtered(o)
      PROVE  \E p \in 1..last : i \in Slice(list, p, count)
  <2>1. PICK k \in 1..count : list[k] = i
    BY PlacesOfListing
  <2>2. PICK p \in 1..last : (p - 1) * PerPage < k /\ k <= p * PerPage
    BY <1>1, PageOfPlace DEF last
  <2>. QED BY <1>4, <2>1, <2>2
<1>6. ASSUME NEW p \in 1..last, NEW q \in 1..last, p # q
      PROVE  Slice(list, p, count) \cap Slice(list, q, count) = {}
  <2>. SUFFICES ASSUME NEW k \in places(p), k \in places(q) PROVE FALSE
    BY <1>2, <1>3, <1>4
  <2>1. CASE p < q
    <3>1. p <= q - 1 /\ p * PerPage <= (q - 1) * PerPage
      BY <1>1, <2>1
    <3>. QED BY <1>1, <3>1
  <2>2. CASE q < p
    <3>1. q <= p - 1 /\ q * PerPage <= (p - 1) * PerPage
      BY <1>1, <2>2
    <3>. QED BY <1>1, <3>1
  <2>. QED BY <1>1, <1>6, <2>1, <2>2
<1>7. ASSUME NEW p \in 1..last
      PROVE  Cardinality(Slice(list, p, count)) <= PerPage
  <2>. DEFINE first == (p - 1) * PerPage
              shift == [i \in Slice(list, p, count) |->
                          (CHOOSE k \in places(p) : list[k] = i) - first]
  <2>1. first \in Int /\ p * PerPage = first + PerPage
    BY <1>1
  <2>2. \A i \in Slice(list, p, count) :
           \E k \in places(p) : list[k] = i
    BY <1>4
  <2>3. \A i \in Slice(list, p, count) :
           /\ shift[i] \in 1..PerPage
           /\ list[shift[i] + first] = i
    <3>. SUFFICES ASSUME NEW i \in Slice(list, p, count)
                  PROVE  shift[i] \in 1..PerPage /\ list[shift[i] + first] = i
      OBVIOUS
    <3>. DEFINE k == CHOOSE k \in places(p) : list[k] = i
    <3>1. k \in places(p) /\ list[k] = i
      BY <2>2
    <3>2. shift[i] = k - first
      OBVIOUS
    <3>. HIDE DEF k, shift
    <3>3. shift[i] \in 1..PerPage /\ shift[i] + first = k
      BY <1>1, <2>1, <3>1, <3>2
    <3>. QED BY <3>1, <3>3
  <2>4. shift \in Injection(Slice(list, p, count), 1..PerPage)
    <3>1. shift \in [Slice(list, p, count) -> 1..PerPage]
      BY <2>3
    <3>. HIDE DEF shift
    <3>. QED BY <2>3, <3>1 DEF Injection, IsInjective
  <2>5. IsFiniteSet(1..PerPage) /\ Cardinality(1..PerPage) = PerPage
    BY <1>1, CountUpTo
  <2>. HIDE DEF shift
  <2>. QED BY <2>4, <2>5, FS_Injection
<1>. QED BY <1>5, <1>6, <1>7 DEF last

(* The pages of Paginator over _response_queryset, read at one moment,     *)
(* leave no answer out, show none twice, and are never too long.           *)
THEOREM ListsArePaged == Spec => []PagesPartition
<1>1. TypeInv => PagesPartition
  BY PartitionHolds DEF TypeInv, TypeOK
<1>. QED BY <1>1, Typed, PTL

-----------------------------------------------------------------------------
(* Exports: rows leave only in the last of the steps, and the entry is     *)
(* there from the second.                                                  *)

ExportInv ==
  /\ file.at \in {"query", "stream"} => file.options \in log
  /\ file.sent # {} => file.at = "stream"

(* Which steps touch the export and the log.                               *)
LEMMA WhoExports ==
  ASSUME [Next]_vars
  PROVE  \/ UNCHANGED <<file, log>>
         \/ (\E o \in Options : OpenExport(o)) \/ LogExport \/ QueryExport \/ StreamRow
         \/ CloseExport
BY DEF Next, vars, pageVars, OpenList, OpenNext, CountList, ReadSlice, CountAttending, AddGuests,
       CountAll, CountDeclined, CountViews, CountUnique, ClosePage, PageOnly,
       Submit, Edit, Delete, Change, View

LEMMA ExportInit == Init => ExportInv
BY DEF Init, NoFile, ExportInv

LEMMA ExportStep == TypeInv /\ ExportInv /\ [Next]_vars => ExportInv'
<1>. SUFFICES ASSUME TypeInv, ExportInv, [Next]_vars PROVE ExportInv'
  OBVIOUS
<1>0. file \in File
  BY DEF TypeInv, TypeOK
<1>1. CASE UNCHANGED <<file, log>>
  BY <1>1 DEF ExportInv
<1>2. ASSUME NEW o \in Options, OpenExport(o) PROVE ExportInv'
  BY <1>2 DEF OpenExport, NoFile, ExportInv
<1>3. CASE LogExport
  BY <1>0, <1>3 DEF LogExport, File, ExportInv
<1>4. CASE QueryExport
  BY <1>0, <1>4 DEF QueryExport, File, ExportInv
<1>5. CASE StreamRow
  BY <1>0, <1>5 DEF StreamRow, File, ExportInv
<1>6. CASE CloseExport
  BY <1>6 DEF CloseExport, NoFile, ExportInv
<1>. QED BY <1>1, <1>2, <1>3, <1>4, <1>5, <1>6, WhoExports

(* registrations_export: nobody gets a row of a list that the audit log    *)
(* does not name, though iter_registrations_csv makes its query only when  *)
(* the response is streamed.                                               *)
THEOREM ExportsAreLogged == Spec => []ExportsLogged
<1>1. ExportInv => ExportsLogged
  BY DEF ExportInv, ExportsLogged
<1>. QED BY <1>1, Typed, ExportInit, ExportStep, PTL DEF Spec

-----------------------------------------------------------------------------
(* The figures.                                                            *)

LEMMA StoredInTwoParts ==
  ASSUME answers \in Table
  PROVE  Cardinality(Stored) = Cardinality(WithStatus(Attending)) + Cardinality(WithStatus(Declined))
<1>1. WithStatus(Attending) \in SUBSET Ids /\ WithStatus(Declined) \in SUBSET Ids
  BY DEF WithStatus, Stored
<1>2. WithStatus(Attending) \cap WithStatus(Declined) = {}
  BY DEF WithStatus, Attending, Declined
<1>3. WithStatus(Attending) \cup WithStatus(Declined) = Stored
  <2>1. \A i \in Stored : answers[i].status \in {Attending, Declined}
    BY DEF Stored, Table, Answer
  <2>. QED BY <2>1 DEF WithStatus
<1>4. IsFiniteSet(WithStatus(Attending)) /\ IsFiniteSet(WithStatus(Declined))
      /\ Cardinality(WithStatus(Attending)) \in Int /\ Cardinality(WithStatus(Declined)) \in Int
  BY <1>1, CountOfIds, DataAssumption
<1>5. Cardinality(WithStatus(Attending) \cap WithStatus(Declined)) = 0
  BY <1>2, FS_EmptySet
<1>. QED BY <1>3, <1>4, <1>5, FS_Union

(* An answer and the guests of it: one person more than the guests.        *)
LEMMA PersonsOfAnswers ==
  ASSUME answers \in Table, NEW ids \in SUBSET Stored
  PROVE  Cardinality(UNION {{i} \X (0..answers[i].guests) : i \in ids})
           = Cardinality(ids) + Cardinality(Brought(ids))
<1>. DEFINE all == UNION {{i} \X (0..answers[i].guests) : i \in ids}
            hosts == ids \X {0}
<1>1. \A i \in ids : answers[i].guests \in Nat
  BY DEF Table, Stored, Answer
<1>2. all = Brought(ids) \cup hosts
  <2>1. \A x : x \in all <=> \E i \in ids : \E k \in 0..answers[i].guests : x = <<i, k>>
    OBVIOUS
  <2>2. \A x : x \in Brought(ids) <=> \E i \in ids : \E k \in 1..answers[i].guests : x = <<i, k>>
    BY DEF Brought
  <2>3. \A x : x \in hosts <=> \E i \in ids : x = <<i, 0>>
    OBVIOUS
  <2>4. \A i \in ids : 0..answers[i].guests = {0} \cup 1..answers[i].guests
    BY <1>1
  <2>. HIDE DEF all, hosts
  <2>5. ASSUME NEW x \in all PROVE x \in Brought(ids) \/ x \in hosts
    <3>0. PICK i \in ids : \E k \in 0..answers[i].guests : x = <<i, k>>
      BY <2>1
    <3>1. PICK k \in 0..answers[i].guests : x = <<i, k>>
      BY <3>0
    <3>2. k = 0 \/ k \in 1..answers[i].guests
      BY <2>4
    <3>. QED BY <2>2, <2>3, <3>1, <3>2
  <2>6. ASSUME NEW x \in Brought(ids) PROVE x \in all
    BY <2>1, <2>2, <2>4
  <2>7. ASSUME NEW x \in hosts PROVE x \in all
    BY <2>1, <2>3, <2>4
  <2>. QED BY <2>5, <2>6, <2>7
<1>3. Brought(ids) \cap hosts = {}
  <2>1. \A i \in ids : 0 \notin 1..answers[i].guests
    BY <1>1
  <2>. QED BY <2>1 DEF Brought
<1>4. IsFiniteSet(ids) /\ IsFiniteSet(Brought(ids))
  BY CountOfIds, FilteredAreStored, GuestsAreFinite DEF Brought
<1>5. IsFiniteSet(hosts) /\ Cardinality(hosts) = Cardinality(ids)
  <2>1. IsFiniteSet({0}) /\ Cardinality({0}) = 1
    BY FS_Singleton
  <2>2. IsFiniteSet(ids \X {0}) /\ Cardinality(ids \X {0}) = Cardinality(ids) * Cardinality({0})
    BY <1>4, <2>1, FS_Product
  <2>3. Cardinality(ids) \in Nat
    BY <1>4, FS_CardinalityType
  <2>. QED BY <2>1, <2>2, <2>3
<1>6. Cardinality(Brought(ids) \cap hosts) = 0
  BY <1>3, FS_EmptySet
<1>7. Cardinality(ids) \in Nat /\ Cardinality(Brought(ids)) \in Nat
  BY <1>4, FS_CardinalityType
<1>8. Cardinality(Brought(ids) \cup hosts) =
        Cardinality(Brought(ids)) + Cardinality(hosts) - Cardinality(Brought(ids) \cap hosts)
  BY <1>4, <1>5, FS_Union
<1>. HIDE DEF all, hosts
<1>9. Cardinality(all) = Cardinality(ids) + Cardinality(Brought(ids))
  BY <1>2, <1>5, <1>6, <1>7, <1>8
<1>. QED BY <1>9 DEF all

LEMMA SetsButForOne ==
  ASSUME NEW S \in SUBSET Ids, NEW T \in SUBSET Ids, NEW x, S \subseteq T \cup {x}
  PROVE  Cardinality(S) <= Cardinality(T) + 1
<1>1. IsFiniteSet(T) /\ Cardinality(T) \in Int
  BY CountOfIds, DataAssumption
<1>2. IsFiniteSet(T \cup {x}) /\ Cardinality(T \cup {x}) <= Cardinality(T) + 1
  <2>1. /\ IsFiniteSet(T \cup {x})
        /\ Cardinality(T \cup {x}) = IF x \in T THEN Cardinality(T) ELSE Cardinality(T) + 1
    BY <1>1, FS_AddElement, Zenon
  <2>. QED BY <1>1, <2>1
<1>3. Cardinality(S) <= Cardinality(T \cup {x})
  BY <1>2, FS_Subset
<1>. QED BY <1>1, <1>2, <1>3, CountOfIds, FS_CardinalityType, DataAssumption

(* What a submission, an edit and a deletion have in common.               *)
LEMMA ChangesTouchOneRow ==
  ASSUME TypeInv,
         \/ \E a \in Answers : Submit(a)
         \/ \E i \in Ids : Delete(i) \/ \E a \in Edits : Edit(i, a)
  PROVE  /\ \E x \in Ids : \A i \in Ids \ {x} : answers'[i] = answers[i]
         /\ UNCHANGED <<views, page, arrived>>
         /\ page.at # "idle" => drift' = drift + 1
<1>1. issued \in Nat /\ answers \in Table
  BY DataAssumption DEF TypeInv, TypeOK
<1>2. ASSUME NEW table, NEW spoils, Change(table, spoils)
      PROVE  /\ UNCHANGED <<views, page, arrived>> /\ answers' = table
             /\ page.at # "idle" => drift' = drift + 1
  BY <1>2 DEF Change
<1>3. ASSUME NEW x \in Ids, NEW a, NEW spoils, Change([answers EXCEPT ![x] = a], spoils)
      PROVE  /\ \E y \in Ids : \A i \in Ids \ {y} : answers'[i] = answers[i]
             /\ UNCHANGED <<views, page, arrived>>
             /\ page.at # "idle" => drift' = drift + 1
  <2>1. answers' = [answers EXCEPT ![x] = a]
    BY <1>2, <1>3
  <2>2. \A i \in Ids \ {x} : answers'[i] = answers[i]
    BY <1>1, <2>1 DEF Table
  <2>. QED BY <1>2, <1>3, <2>2
<1>4. ASSUME NEW a \in Answers, Submit(a) PROVE issued + 1 \in Ids
  BY <1>1, <1>4, DataAssumption DEF Submit, Ids
<1>. QED BY <1>3, <1>4 DEF Submit, Delete, Edit

(* Each figure read so far is off by no more than what has changed since   *)
(* the first: those who come, then those of the total who do not, then the *)
(* three figures by themselves.                                            *)
Within(x, y, d) == -d <= x - y /\ x - y <= d

FigureInv ==
  LET f == page.stats
      come == Cardinality(WithStatus(Attending))
      stay == Cardinality(WithStatus(Declined))
  IN /\ page.at \in {"guests", "total"} => Within(f.attending, come, drift)
     /\ page.at = "declined" => Within(f.total - f.attending, stay, drift)
     /\ page.at \in {"views", "unique", "shown"}
          => Within(f.total - f.attending, f.declined, drift)
     /\ page.at \in {"guests", "total", "declined", "views", "unique", "shown"} /\ drift = 0
          => f.attending = come
     /\ page.at \in {"total", "declined", "views", "unique", "shown"} /\ drift = 0
          => f.guests = SumGuests
     /\ page.at \in {"unique", "shown"} => f.views + arrived = Len(views)
     /\ page.at = "shown" => f.unique <= f.views + arrived

LEMMA WithinOneMore ==
  ASSUME NEW x \in Int, NEW y \in Int, NEW z \in Int, NEW d \in Nat,
         y <= z + 1, z <= y + 1, Within(x, y, d)
  PROVE  Within(x, z, d + 1)
BY DEF Within

LEMMA CountDrifts ==
  ASSUME NEW S \in SUBSET Ids, NEW T \in SUBSET Ids, NEW i,
         S \subseteq T \cup {i}, T \subseteq S \cup {i},
         NEW x \in Int, NEW d \in Nat, Within(x, Cardinality(S), d)
  PROVE  Within(x, Cardinality(T), d + 1)
<1>1. Cardinality(S) <= Cardinality(T) + 1 /\ Cardinality(T) <= Cardinality(S) + 1
  BY SetsButForOne
<1>2. Cardinality(S) \in Int /\ Cardinality(T) \in Int
  BY CountOfIds, DataAssumption
<1>. QED BY <1>1, <1>2, WithinOneMore

(* A page that shows no figure yet.                                        *)
LEMMA NoFigures ==
  ASSUME page'.at \in {"idle", "count", "slice", "attending"}
  PROVE  FigureInv'
BY DEF FigureInv

LEMMA FigureInit == Init => FigureInv
BY DEF Init, NoPage, FigureInv

LEMMA CountsInt ==
  ASSUME TypeInv
  PROVE  /\ page.stats.attending \in Int /\ page.stats.guests \in Int /\ page.stats.total \in Int
         /\ page.stats.declined \in Int /\ page.stats.views \in Int /\ page.stats.unique \in Int
         /\ drift \in Nat /\ arrived \in Nat /\ Len(views) \in Nat
         /\ Cardinality(WithStatus(Attending)) \in Nat
         /\ Cardinality(WithStatus(Declined)) \in Nat
<1>1. page.stats \in FigureTypes
  BY DEF TypeInv, TypeOK, Page
<1>2. /\ page.stats.attending \in Int /\ page.stats.guests \in Int /\ page.stats.total \in Int
      /\ page.stats.declined \in Int /\ page.stats.views \in Int /\ page.stats.unique \in Int
  BY <1>1, DataAssumption DEF FigureTypes
<1>3. drift \in Nat /\ arrived \in Nat
  BY DataAssumption DEF TypeInv, TypeOK
<1>4. Len(views) \in Nat
  BY FiguresInRange DEF TypeInv
<1>5. Cardinality(WithStatus(Attending)) \in Nat /\ Cardinality(WithStatus(Declined)) \in Nat
  <2>1. \A status \in {Attending, Declined} : WithStatus(status) \in SUBSET Ids
    BY DEF WithStatus, Stored
  <2>. QED BY <2>1, CountOfIds, DataAssumption
<1>. QED BY <1>2, <1>3, <1>4, <1>5

LEMMA FigureRead ==
  ASSUME TypeInv, FigureInv,
         CountAttending \/ AddGuests \/ CountAll \/ CountDeclined \/ CountViews \/ CountUnique
  PROVE  FigureInv'
<1>. DEFINE f == page.stats
            come == Cardinality(WithStatus(Attending))
            stay == Cardinality(WithStatus(Declined))
<1>0. /\ f \in FigureTypes /\ page \in Page
      /\ UNCHANGED <<answers, views, WithStatus(Attending), WithStatus(Declined), SumGuests>>
  BY DEF TypeInv, TypeOK, Page, CountAttending, AddGuests, CountAll, CountDeclined,
         CountViews, CountUnique, PageOnly, WithStatus, Stored, SumGuests, Brought
<1>1. CASE CountAttending
  <2>1. page'.at = "guests" /\ page'.stats.attending = come /\ drift' = 0
    BY <1>0, <1>1 DEF CountAttending, Read, Page, FigureTypes
  <2>. QED BY <1>0, <2>1, CountsInt DEF FigureInv, Within
<1>2. CASE AddGuests
  <2>1. /\ page'.at = "total" /\ page.at = "guests" /\ page'.stats.attending = f.attending
        /\ page'.stats.guests = SumGuests /\ drift' = drift
    BY <1>0, <1>2 DEF AddGuests, Read, Page, FigureTypes
  <2>. QED BY <1>0, <2>1, CountsInt DEF FigureInv, Within
<1>3. CASE CountAll
  <2>1. /\ page'.at = "declined" /\ page.at = "total" /\ page'.stats.attending = f.attending
        /\ page'.stats.guests = f.guests /\ page'.stats.total = Cardinality(Stored)
        /\ drift' = drift
    BY <1>0, <1>3 DEF CountAll, Read, Page, FigureTypes
  <2>2. Cardinality(Stored) = come + stay
    BY StoredInTwoParts DEF TypeInv, TypeOK
  <2>3. f.attending \in Int /\ come \in Int /\ stay \in Int /\ drift \in Int
    BY CountsInt
  <2>4. Within(f.attending, come, drift)
    BY <2>1 DEF FigureInv
  <2>5. come' = come /\ stay' = stay /\ drift' = drift
    BY <1>0, <2>1
  <2>6. page'.stats.total = come + stay /\ page'.stats.attending = f.attending
    BY <2>1, <2>2
  <2>. HIDE DEF f, come, stay
  <2>7. Within(page'.stats.total - page'.stats.attending, stay', drift')
    BY <2>3, <2>4, <2>5, <2>6 DEF Within
  <2>. USE DEF f, come, stay
  <2>8. drift' = 0 => page'.stats.attending = come' /\ page'.stats.guests = SumGuests'
    BY <1>0, <2>1, <2>5 DEF FigureInv
  <2>. QED BY <2>1, <2>7, <2>8 DEF FigureInv
<1>4. CASE CountDeclined
  <2>1. /\ page'.at = "views" /\ page.at = "declined" /\ page'.stats.attending = f.attending
        /\ page'.stats.guests = f.guests /\ page'.stats.total = f.total
        /\ page'.stats.declined = stay /\ drift' = drift
    BY <1>0, <1>4 DEF CountDeclined, Read, Page, FigureTypes
  <2>. QED BY <1>0, <2>1, CountsInt DEF FigureInv, Within
<1>5. CASE CountViews
  <2>1. /\ page'.at = "unique" /\ page.at = "views" /\ page'.stats.attending = f.attending
        /\ page'.stats.guests = f.guests /\ page'.stats.total = f.total
        /\ page'.stats.declined = f.declined /\ page'.stats.views = Len(views)
        /\ arrived' = 0 /\ drift' = drift
    BY <1>0, <1>5 DEF CountViews, Read, Page, FigureTypes
  <2>. QED BY <1>0, <2>1, CountsInt DEF FigureInv, Within
<1>6. CASE CountUnique
  <2>1. /\ page'.at = "shown" /\ page.at = "unique" /\ page'.stats.attending = f.attending
        /\ page'.stats.guests = f.guests /\ page'.stats.total = f.total
        /\ page'.stats.declined = f.declined /\ page'.stats.views = f.views
        /\ page'.stats.unique = Cardinality(Range(views))
        /\ arrived' = arrived /\ drift' = drift
    BY <1>0, <1>6 DEF CountUnique, Read, Page, FigureTypes, PageOnly
  <2>2. Cardinality(Range(views)) <= Len(views)
    BY FiguresInRange DEF TypeInv
  <2>. QED BY <1>0, <2>1, <2>2, CountsInt DEF FigureInv, Within
<1>. QED BY <1>1, <1>2, <1>3, <1>4, <1>5, <1>6

LEMMA FigureChange ==
  ASSUME TypeInv, TypeInv', FigureInv,
         \/ \E a \in Answers : Submit(a)
         \/ \E i \in Ids : Delete(i) \/ \E a \in Edits : Edit(i, a)
  PROVE  FigureInv'
<1>. DEFINE f == page.stats
            come == Cardinality(WithStatus(Attending))
            stay == Cardinality(WithStatus(Declined))
<1>1. UNCHANGED <<views, page, arrived>>
  BY ChangesTouchOneRow
<1>2. CASE page.at = "idle"
  BY <1>1, <1>2, NoFigures
<1>3. CASE page.at # "idle"
  <2>1. drift' = drift + 1
    BY <1>3, ChangesTouchOneRow
  <2>2. PICK x \in Ids : \A i \in Ids \ {x} : answers'[i] = answers[i]
    BY ChangesTouchOneRow
  <2>3. \A status \in {Attending, Declined} :
           /\ WithStatus(status) \in SUBSET Ids /\ WithStatus(status)' \in SUBSET Ids
           /\ WithStatus(status) \subseteq WithStatus(status)' \cup {x}
           /\ WithStatus(status)' \subseteq WithStatus(status) \cup {x}
    BY <2>2 DEF WithStatus, Stored
  <2>4. /\ f.attending \in Int /\ f.total \in Int /\ f.declined \in Int
        /\ drift \in Nat /\ f.total - f.attending \in Int
    BY CountsInt
  <2>5. page.at \in {"guests", "total"} => Within(f.attending, come', drift + 1)
    <3>1. page.at \in {"guests", "total"} => Within(f.attending, come, drift)
      BY DEF FigureInv
    <3>. QED BY <2>3, <2>4, <3>1, CountDrifts
  <2>6. page.at = "declined" => Within(f.total - f.attending, stay', drift + 1)
    <3>. DEFINE rest == f.total - f.attending
    <3>1. page.at = "declined" => Within(rest, stay, drift)
      BY DEF FigureInv
    <3>2. rest \in Int
      BY <2>4
    <3>. HIDE DEF rest
    <3>3. page.at = "declined" => Within(rest, stay', drift + 1)
      BY <2>3, <2>4, <3>1, <3>2, CountDrifts
    <3>. QED BY <3>3 DEF rest
  <2>7. page.at \in {"views", "unique", "shown"}
          => Within(f.total - f.attending, f.declined, drift + 1)
    <3>. DEFINE rest == f.total - f.attending
    <3>1. page.at \in {"views", "unique", "shown"} => Within(rest, f.declined, drift)
      BY DEF FigureInv
    <3>2. rest \in Int
      BY <2>4
    <3>. HIDE DEF rest
    <3>3. page.at \in {"views", "unique", "shown"} => Within(rest, f.declined, drift + 1)
      BY <2>4, <3>1, <3>2, WithinOneMore
    <3>. QED BY <3>3 DEF rest
  <2>8. drift' # 0
    BY <2>1, CountsInt
  <2>. QED BY <1>1, <2>1, <2>5, <2>6, <2>7, <2>8 DEF FigureInv
<1>. QED BY <1>2, <1>3

LEMMA FigureView ==
  ASSUME TypeInv, FigureInv, NEW v \in Visitors, View(v)
  PROVE  FigureInv'
<1>1. /\ UNCHANGED <<answers, page, drift, WithStatus(Attending), WithStatus(Declined), SumGuests>>
      /\ page.at # "idle" => arrived' = arrived + 1
  BY DEF View, WithStatus, Stored, SumGuests, Brought
<1>2. Len(views') = Len(views) + 1
  BY DEF View, TypeInv, TypeOK
<1>3. CASE page.at = "idle"
  BY <1>1, <1>3, NoFigures
<1>4. CASE page.at # "idle"
  <2>0. page.stats.views \in Int /\ arrived \in Int /\ Len(views) \in Int
    BY CountsInt
  <2>1. page.stats.views + arrived = Len(views) => page.stats.views + arrived' = Len(views')
    BY <1>1, <1>2, <1>4, <2>0
  <2>2. page.stats.unique <= page.stats.views + arrived
          => page.stats.unique <= page.stats.views + arrived'
    BY <1>1, <1>4, CountsInt
  <2>. QED BY <1>1, <2>1, <2>2 DEF FigureInv, Within
<1>. QED BY <1>3, <1>4

LEMMA FigureStep == TypeInv /\ TypeInv' /\ FigureInv /\ [Next]_vars => FigureInv'
<1>. SUFFICES ASSUME TypeInv, TypeInv', FigureInv, [Next]_vars PROVE FigureInv'
  OBVIOUS
<1>1. CASE (\E o \in Options : OpenList(o)) \/ OpenNext \/ CountList \/ ReadSlice \/ ClosePage
  <2>0. page \in Page
    BY DEF TypeInv, TypeOK
  <2>1. CASE (\E o \in Options : OpenList(o)) \/ OpenNext
    BY <2>1, NoFigures DEF OpenList, OpenNext, NoPage
  <2>2. CASE CountList
    BY <2>0, <2>2, NoFigures DEF CountList, Page
  <2>3. CASE ReadSlice
    BY <2>0, <2>3, NoFigures DEF ReadSlice, Page
  <2>4. CASE ClosePage
    BY <2>4, NoFigures DEF ClosePage, NoPage
  <2>. QED BY <1>1, <2>1, <2>2, <2>3, <2>4
<1>2. CASE UNCHANGED <<answers, views, page, drift, arrived>>
  BY <1>2 DEF FigureInv, Within, WithStatus, Stored, SumGuests, Brought
<1>3. CASE \/ \E o \in Options : OpenExport(o)
           \/ LogExport \/ QueryExport \/ StreamRow \/ CloseExport
  BY <1>2, <1>3 DEF OpenExport, LogExport, QueryExport, StreamRow, CloseExport, FileOnly, pageVars
<1>4. CASE UNCHANGED vars
  BY <1>2, <1>4 DEF vars
<1>. QED BY <1>1, <1>3, <1>4, FigureRead, FigureChange, FigureView DEF Next

(* event_statistics: the six queries of statistics_for_event see different *)
(* moments, but those who come and those who do not differ from the total  *)
(* by no more than the answers changed since; on an event that is quiet,   *)
(* attending_total and the guests count every person expected.             *)
THEOREM FiguresDoAgree == Spec => []FiguresAgree
<1>1. TypeInv /\ FigureInv => FiguresAgree
  <2>. SUFFICES ASSUME TypeInv, FigureInv PROVE FiguresAgree
    OBVIOUS
  <2>1. Cardinality(UNION {{i} \X (0..answers[i].guests) : i \in WithStatus(Attending)})
          = Cardinality(WithStatus(Attending)) + SumGuests
    BY PersonsOfAnswers DEF TypeInv, TypeOK, WithStatus, SumGuests
  <2>. QED BY <2>1, CountsInt DEF FigureInv, FiguresAgree, Within
<1>. QED BY <1>1, Typed, FigureInit, FigureStep, PTL DEF Spec

-----------------------------------------------------------------------------
(* Reading a list to its end.  An answer of the start that has not been    *)
(* seen is still in the list, with at least as many answers before it as   *)
(* the pages read so far hold: a guest's answer can only push it further.  *)

Unseen == walk.start \ walk.seen

Ahead(from) == \A i \in Unseen : Rank(i, walk.options) >= from

WalkInv ==
  page.at # "idle" /\ ~walk.spoiled =>
    /\ walk.start \subseteq Filtered(walk.options)
    /\ page.at \in {"count", "slice"} => Ahead((page.number - 1) * PerPage)
    /\ page.at = "slice" /\ LastPage => page.count = Cardinality(Filtered(walk.options))
    /\ page.at \notin {"count", "slice"} /\ LastPage => Unseen = {}
    /\ page.at \notin {"count", "slice"} /\ ~LastPage => Ahead(page.number * PerPage)

LEMMA RankType ==
  ASSUME NEW i, NEW o
  PROVE  Rank(i, o) \in Nat
<1>1. {j \in Filtered(o) : Less(j, i, o.sort)} \in SUBSET Ids
  BY FilteredAreStored
<1>. QED BY <1>1, CountOfIds, DataAssumption DEF Rank

(* Without a change of answers the list and its ranks are as they were.    *)
LEMMA ListUnchanged ==
  ASSUME UNCHANGED <<answers, walk.options>>
  PROVE  /\ UNCHANGED Filtered(walk.options)
         /\ \A i : Rank(i, walk.options)' = Rank(i, walk.options)
<1>1. \A i, sort : SortKey(i, sort)' = SortKey(i, sort)
  BY DEF SortKey
<1>2. UNCHANGED Filtered(walk.options)
  BY DEF Filtered, WithStatus, Stored
<1>. QED BY <1>1, <1>2 DEF Rank, Less

LEMMA WalkInit == Init => WalkInv
BY DEF Init, NoPage, WalkInv

LEMMA WalkSame ==
  ASSUME WalkInv, UNCHANGED <<answers, page, walk>>
  PROVE  WalkInv'
<1>1. UNCHANGED <<LastPage, Unseen>>
  BY DEF LastPage, Pages, Unseen
<1>. QED BY <1>1, ListUnchanged DEF WalkInv, Ahead

LEMMA WalkOpen ==
  ASSUME NEW o \in Options, OpenList(o)
  PROVE  WalkInv'
<1>1. /\ page'.at = "count" /\ page'.number = 1
      /\ walk'.start = Filtered(o) /\ walk'.options = o /\ UNCHANGED answers
  BY DEF OpenList, NoPage, NoWalk
<1>2. Filtered(o)' = Filtered(o)
  BY <1>1 DEF Filtered, WithStatus, Stored
<1>3. (page'.number - 1) * PerPage = 0
  BY <1>1, DataAssumption
<1>4. \A i : Rank(i, walk.options)' \in Nat
  <2>1. \A i : {j \in Filtered(o)' : Less(j, i, o.sort)'} \in SUBSET Ids
    BY <1>2, FilteredAreStored
  <2>2. \A i : Rank(i, o)' \in Nat
    BY <2>1, CountOfIds, DataAssumption DEF Rank
  <2>. QED BY <1>1, <2>2 DEF Rank
<1>. QED BY <1>1, <1>2, <1>3, <1>4 DEF WalkInv, Ahead

LEMMA WalkNext ==
  ASSUME TypeInv, WalkInv, OpenNext
  PROVE  WalkInv'
<1>1. /\ page'.at = "count" /\ page'.number = page.number + 1 /\ UNCHANGED <<answers, walk>>
      /\ page.at = "shown" /\ ~LastPage
  BY DEF OpenNext, NoPage
<1>2. (page'.number - 1) * PerPage = page.number * PerPage
  <2>1. page.number \in Nat
    BY DEF TypeInv, TypeOK, Page
  <2>. QED BY <1>1, <2>1
<1>. QED BY <1>1, <1>2, ListUnchanged DEF WalkInv, Ahead, Unseen

LEMMA WalkCount ==
  ASSUME TypeInv, WalkInv, CountList
  PROVE  WalkInv'
<1>. DEFINE count == Cardinality(Filtered(walk.options))
<1>1. page \in Page /\ page.number \in Nat \ {0}
  BY DEF TypeInv, TypeOK, Page
<1>2. count \in Nat /\ Pages(count) \in Nat \ {0}
  BY FilteredAreStored, CountOfIds, PagesOfCount, DataAssumption
<1>3. /\ page'.at = "slice" /\ page'.count = count /\ page'.number = Min({page.number, Pages(count)})
      /\ page.at = "count" /\ UNCHANGED <<answers, walk>>
  BY <1>1 DEF CountList, PageOnly, Page
<1>4. page'.number \in Nat \ {0} /\ page'.number <= page.number
  BY <1>1, <1>2, <1>3, LesserOfTwo
<1>5. (page'.number - 1) * PerPage <= (page.number - 1) * PerPage
  BY <1>1, <1>4, LaterPageStartsLater
<1>6. /\ (page'.number - 1) * PerPage \in Int /\ (page.number - 1) * PerPage \in Int
      /\ \A i : Rank(i, walk.options) \in Nat
  BY <1>1, <1>4, RankType, DataAssumption
<1>7. Ahead((page.number - 1) * PerPage) => Ahead((page.number - 1) * PerPage)'
  <2>1. \A m, n \in Int : n <= m /\ Ahead(m) => Ahead(n)'
    BY <1>3, <1>6, ListUnchanged DEF Ahead, Unseen
  <2>. QED BY <1>5, <1>6, <2>1
<1>. QED BY <1>3, <1>7, ListUnchanged DEF WalkInv

LEMMA WalkSlice ==
  ASSUME TypeInv, WalkInv, ReadSlice
  PROVE  WalkInv'
<1>. SUFFICES ASSUME ~walk.spoiled PROVE WalkInv'
  BY DEF ReadSlice, TypeInv, TypeOK, Walk, WalkInv
<1>. DEFINE top == IF LastPage THEN page.count ELSE page.number * PerPage
            from == (page.number - 1) * PerPage
            o == walk.options
<1>0. PICK list \in Listings(o) :
         LET shown == {list[k] : k \in {k \in DOMAIN list : from < k /\ k <= top}} IN
         /\ page' = [page EXCEPT !.at = "attending", !.rows = shown]
         /\ walk' = [walk EXCEPT !.seen = walk.seen \cup shown]
  BY DEF ReadSlice, Slice, LastPage
<1>. DEFINE rows == {list[k] : k \in {k \in DOMAIN list : from < k /\ k <= top}}
<1>1. /\ rows = {list[k] : k \in {k \in DOMAIN list : from < k /\ k <= top}}
      /\ page' = [page EXCEPT !.at = "attending", !.rows = rows]
      /\ walk' = [walk EXCEPT !.seen = walk.seen \cup rows]
  BY <1>0
<1>. HIDE DEF rows
<1>2. /\ page \in Page /\ walk \in Walk /\ page.at = "slice" /\ o \in Options /\ answers \in Table
      /\ UNCHANGED answers
  BY DEF ReadSlice, TypeInv, TypeOK
<1>3. /\ page'.at = "attending" /\ page'.number = page.number /\ page'.count = page.count
      /\ walk'.options = o /\ walk'.start = walk.start /\ walk'.seen = walk.seen \cup rows
      /\ UNCHANGED LastPage
  BY <1>1, <1>2 DEF Page, Walk, LastPage, Pages
<1>4. /\ walk.start \subseteq Filtered(o)
      /\ Ahead(from)
      /\ LastPage => page.count = Cardinality(Filtered(o))
  BY <1>2 DEF WalkInv
<1>5. from \in Int /\ page.number * PerPage \in Int /\ page.count \in Int
  BY <1>2, DataAssumption DEF Page
<1>6. Cardinality(Filtered(o)) \in Nat
  BY FilteredAreStored, CountOfIds, DataAssumption
<1>7. DOMAIN list = 1..Cardinality(Filtered(o))
  BY DEF Listings
<1>. HIDE DEF from
<1>8. ASSUME NEW i \in Unseen, i \notin rows
      PROVE  ~LastPage /\ Rank(i, o) >= page.number * PerPage
  <2>1. i \in Filtered(o) /\ Rank(i, o) >= from
    BY <1>4, <1>8 DEF Unseen, Ahead
  <2>2. PICK k \in 1..Cardinality(Filtered(o)) : list[k] = i /\ Rank(i, o) = k - 1
    BY <1>2, <2>1, PlacesOfListing
  <2>3. from < k
    BY <1>5, <1>6, <2>1, <2>2
  <2>4. ~(k <= top)
    BY <1>1, <1>7, <1>8, <2>2, <2>3
  <2>. QED BY <1>4, <1>5, <1>6, <2>2, <2>4
<1>9. Unseen' = Unseen \ rows
  BY <1>3 DEF Unseen
<1>10. LastPage => Unseen' = {}
  BY <1>8, <1>9
<1>11. ~LastPage => Ahead(page.number * PerPage)'
  BY <1>2, <1>3, <1>8, <1>9, ListUnchanged DEF Ahead
<1>. QED BY <1>2, <1>3, <1>4, <1>10, <1>11, ListUnchanged DEF WalkInv

(* A new answer joins the list and pushes others back, never forward.      *)
LEMMA SubmitPushesBack ==
  ASSUME TypeInv, NEW a \in Answers, Submit(a), page.at # "idle", NEW i \in Filtered(walk.options)
  PROVE  /\ i \in Filtered(walk.options)'
         /\ Rank(i, walk.options) <= Rank(i, walk.options)'
<1>. DEFINE o == walk.options
<1>1. answers' = [answers EXCEPT ![issued + 1] = a] /\ walk'.options = o
  BY DEF Submit, Change, TypeInv, TypeOK, Walk
<1>2. /\ answers \in Table /\ issued + 1 \in Ids /\ issued + 1 \notin Stored
      /\ a # None
  BY DataAssumption, NoneAssumption DEF TypeInv, TypeOK, Submit, Ids, Stored
<1>3. \A j \in Stored : answers'[j] = answers[j]
  BY <1>1, <1>2 DEF Table, Stored
<1>4. Filtered(o) \subseteq Filtered(o)'
  BY <1>1, <1>3 DEF Filtered, WithStatus, Stored
<1>5. \A j \in Filtered(o) : Less(j, i, o.sort)' <=> Less(j, i, o.sort)
  <2>1. \A j \in Stored : SortKey(j, o.sort)' = SortKey(j, o.sort)
    BY <1>1, <1>3 DEF SortKey
  <2>. QED BY <2>1, FilteredAreStored DEF Less
<1>. DEFINE before == {j \in Filtered(o) : Less(j, i, o.sort)}
<1>6. before \subseteq before'
  BY <1>1, <1>4, <1>5
<1>7. before' \in SUBSET Ids
  BY DEF Filtered, WithStatus, Stored
<1>8. Cardinality(before) <= Cardinality(before')
  BY <1>6, <1>7, CountOfIds, FS_Subset
<1>. QED BY <1>4, <1>8 DEF Rank

LEMMA WalkChange ==
  ASSUME TypeInv, WalkInv,
         \/ \E a \in Answers : Submit(a)
         \/ \E i \in Ids : Delete(i) \/ \E a \in Edits : Edit(i, a)
  PROVE  WalkInv'
<1>1. UNCHANGED page
  BY ChangesTouchOneRow
<1>2. walk \in Walk
  BY DEF TypeInv, TypeOK
<1>3. CASE page.at = "idle" \/ walk'.spoiled
  BY <1>1, <1>3 DEF WalkInv
<1>4. CASE page.at # "idle" /\ ~walk'.spoiled
  <2>1. PICK a \in Answers : Submit(a)
    BY <1>2, <1>4 DEF Delete, Edit, Change, Walk
  <2>2. ~(page.at = "slice" /\ LastPage) /\ walk' = walk
    BY <1>2, <1>4, <2>1 DEF Submit, Change, Walk
  <2>3. /\ walk.start \subseteq Filtered(walk.options)
        /\ page.at \in {"count", "slice"} => Ahead((page.number - 1) * PerPage)
        /\ page.at \notin {"count", "slice"} /\ LastPage => Unseen = {}
        /\ page.at \notin {"count", "slice"} /\ ~LastPage => Ahead(page.number * PerPage)
    BY <1>4, <2>2 DEF WalkInv
  <2>4. \A i \in Filtered(walk.options) :
           /\ i \in Filtered(walk.options)'
           /\ Rank(i, walk.options) <= Rank(i, walk.options)'
    BY <1>4, <2>1, SubmitPushesBack
  <2>5. \A i : Rank(i, walk.options) \in Nat /\ Rank(i, walk.options)' \in Nat
    <3>1. \A i : {j \in Filtered(walk.options)' : Less(j, i, walk.options.sort)'} \in SUBSET Ids
      BY DEF Filtered, WithStatus, Stored
    <3>. QED BY <3>1, RankType, CountOfIds, DataAssumption DEF Rank
  <2>6. \A from \in Int : Ahead(from) => Ahead(from)'
    BY <2>2, <2>3, <2>4, <2>5 DEF Ahead, Unseen
  <2>7. (page.number - 1) * PerPage \in Int /\ page.number * PerPage \in Int
    BY DataAssumption DEF TypeInv, TypeOK, Page
  <2>8. UNCHANGED <<LastPage, Unseen>>
    BY <1>1, <2>2 DEF LastPage, Pages, Unseen
  <2>9. walk'.start \subseteq Filtered(walk.options)'
    BY <2>2, <2>3, <2>4
  <2>. QED BY <1>1, <2>2, <2>3, <2>6, <2>7, <2>8, <2>9 DEF WalkInv
<1>. QED BY <1>3, <1>4

(* The figures are read after the slice, and say nothing of the list.      *)
LEMMA WalkRead ==
  ASSUME TypeInv, WalkInv,
         CountAttending \/ AddGuests \/ CountAll \/ CountDeclined \/ CountViews \/ CountUnique
  PROVE  WalkInv'
<1>1. /\ page.at \notin {"idle", "count", "slice"} /\ page'.at \notin {"idle", "count", "slice"}
      /\ page'.number = page.number /\ page'.count = page.count
      /\ UNCHANGED <<answers, walk>>
  BY DEF TypeInv, TypeOK, Page, CountAttending, AddGuests, CountAll, CountDeclined,
         CountViews, CountUnique, Read, PageOnly
<1>2. UNCHANGED <<LastPage, Unseen>>
  BY <1>1 DEF LastPage, Pages, Unseen
<1>. QED BY <1>1, <1>2, ListUnchanged DEF WalkInv, Ahead

LEMMA WalkStep == TypeInv /\ WalkInv /\ [Next]_vars => WalkInv'
<1>. SUFFICES ASSUME TypeInv, WalkInv, [Next]_vars PROVE WalkInv'
  OBVIOUS
<1>1. CASE ClosePage
  BY <1>1 DEF ClosePage, NoPage, WalkInv
<1>2. CASE \/ \E o \in Options : OpenExport(o)
           \/ LogExport \/ QueryExport \/ StreamRow \/ CloseExport
           \/ \E v \in Visitors : View(v)
  <2>1. UNCHANGED <<answers, page, walk>>
    BY <1>2 DEF OpenExport, LogExport, QueryExport, StreamRow, CloseExport, FileOnly, pageVars, View
  <2>. QED BY <2>1, WalkSame
<1>3. CASE UNCHANGED vars
  BY <1>3, WalkSame DEF vars
<1>. QED BY <1>1, <1>2, <1>3, WalkOpen, WalkNext, WalkCount, WalkSlice, WalkRead, WalkChange
         DEF Next

(* event_statistics: whoever follows the links of a list to its last page  *)
(* has seen every answer of the start, for every order and page size,      *)
(* however many guests answer meanwhile, unless an answer is edited or     *)
(* deleted or one comes in between the two queries of the last page.       *)
THEOREM WalksAreComplete == Spec => []WalkComplete
<1>1. TypeInv /\ WalkInv => WalkComplete
  BY DEF WalkInv, WalkComplete, Unseen
<1>. QED BY <1>1, Typed, WalkInit, WalkStep, PTL DEF Spec
=============================================================================
