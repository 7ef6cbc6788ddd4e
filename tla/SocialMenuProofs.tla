-------------------------- MODULE SocialMenuProofs --------------------------
(***************************************************************************)
(* Proofs about SocialMenu, for any links, orders and answers.             *)
(***************************************************************************)
EXTENDS SocialMenu, SequenceTheorems, FiniteSetTheorems, TLAPS

\* Until MainViewController publishes its array again, the menu's array is the
\* shared one and every row that has data shows it.
RowsAreCurrent ==
    ~overwritten =>
        /\ menuArray = appArray
        /\ \A i \in DOMAIN shown \cap DOMAIN menuArray : shown[i] = menuArray[i]

IInv == RowsAreCurrent /\ TapOpensLinkShown /\ overwritten \in BOOLEAN

\* A tap opens the link its row shows unless MainViewController has replaced
\* the shared array since the table was last reloaded, whatever the queries
\* answer and in whatever order.
THEOREM TapsAreRight == Spec => []TapOpensLinkShown
<1>1. Init => IInv
  <2> SUFFICES ASSUME Init PROVE IInv
    OBVIOUS
  <2>1. shown = menuArray /\ menuArray = appArray /\ overwritten = FALSE
    BY DEF Init
  <2>2. tap.opened = tap.shown
    BY DEF Init
  <2> QED
    BY <2>1, <2>2 DEF IInv, RowsAreCurrent, TapOpensLinkShown
<1>2. IInv /\ [Next]_vars => IInv'
  <2> SUFFICES ASSUME IInv, [Next]_vars PROVE IInv'
    OBVIOUS
  <2> USE DEF IInv, RowsAreCurrent, TapOpensLinkShown
  <2>1. CASE mainViewDidLoad \/ adsData \/ UNCHANGED vars
    <3>1. UNCHANGED <<menuArray, appArray, shown, tap, overwritten>>
      BY <2>1 DEF mainViewDidLoad, adsData, vars, arrays
    <3> QED
      BY <3>1
  <2>2. CASE mainSocialData
    <3>1. CASE overwritten' = TRUE /\ tap' = tap
      BY <3>1
    <3>2. CASE UNCHANGED <<menuArray, appArray, shown, tap, overwritten>>
      BY <3>2
    <3> QED
      BY <2>2, <3>1, <3>2 DEF mainSocialData
  <2>3. CASE menuViewDidLoad
    <3>1. shown' = menuArray' /\ menuArray' = appArray' /\ overwritten' = FALSE /\ tap' = tap
      BY <2>3 DEF menuViewDidLoad, reloadData
    <3> QED
      BY <3>1
  <2>4. CASE viewWillAppear
    BY <2>4 DEF viewWillAppear
  <2>5. CASE menuSocialData
    <3>1. CASE appArray' = menuArray' /\ shown' = menuArray' /\ overwritten' = FALSE /\ tap' = tap
      BY <3>1
    <3>2. CASE UNCHANGED <<menuArray, appArray, shown, tap, overwritten>>
      BY <3>2
    <3> QED
      BY <2>5, <3>1, <3>2 DEF menuSocialData, reloadData
  <2>6. CASE cellForRowAt
    <3>1. PICK i \in DOMAIN shown \cap DOMAIN menuArray :
             shown' = [shown EXCEPT ![i] = menuArray[i]]
      BY <2>6 DEF cellForRowAt
    <3>2. DOMAIN shown' = DOMAIN shown
          /\ \A j \in DOMAIN shown : shown'[j] = IF j = i THEN menuArray[i] ELSE shown[j]
      BY <3>1
    <3> QED
      BY <2>6, <3>2 DEF cellForRowAt, arrays
  <2>7. CASE didSelectRowAt
    BY <2>7 DEF didSelectRowAt, arrays
  <2> QED
    BY <2>1, <2>2, <2>3, <2>4, <2>5, <2>6, <2>7 DEF Next
<1>3. IInv => TapOpensLinkShown
  BY DEF IInv
<1> QED
  BY <1>1, <1>2, <1>3, PTL DEF Spec

----------------------------------------------------------------------------
(* The rows and the copies.                                                *)

\* How many queries can have been answered so far, of each controller.
MainAnswered == IF mainLoaded THEN 2 - mainAsked - (IF adsAsked THEN 1 ELSE 0) ELSE 0
MenuAnswered == IF menuAsked \/ ~menuLoaded THEN 0 ELSE 1

\* Nothing is asked before viewDidLoad, and the ads leave room for the query
\* that their answer sends.
QueriesBounded ==
    /\ ~mainLoaded => mainAsked = 0 /\ ~adsAsked
    /\ adsAsked => mainAsked <= 1
    /\ menuAsked => menuLoaded

\* As long as every answer was complete: what the table shows is covered by the
\* menu's array and by both arrays that may replace it, and until the menu's
\* query is answered its array and the shared one are no longer than the main
\* controller's.
RowsAreBacked ==
    /\ Len(shown) <= Len(menuArray)
    /\ Len(shown) <= Len(appArray)
    /\ Len(shown) <= Len(mainArray) + Len(MenuOrder)
    /\ MenuAnswered = 0 => Len(menuArray) <= Len(mainArray) /\ Len(appArray) <= Len(mainArray)

\* Each array has a link at most once for each answer that could reach it.
CopiesBounded ==
    \A d \in Links : /\ Count(mainArray, d) <= MainAnswered
                     /\ Count(menuArray, d) <= MainAnswered + MenuAnswered
                     /\ Count(appArray, d) <= MainAnswered + MenuAnswered

MenuInv == TypeOK /\ QueriesBounded /\ (~short => RowsAreBacked) /\ CopiesBounded

\* What a query answers: documents of the collection, each at most once, and as
\* many as there are if none is missing.
LEMMA AnswerFacts ==
    ASSUME NEW order \in {MainOrder, MenuOrder}, NEW answer \in Answers(order)
    PROVE  /\ answer.docs \in Seq(Links)
           /\ answer.less \in BOOLEAN
           /\ ~answer.less => Len(answer.docs) = Len(order)
           /\ \A i, j \in 1..Len(answer.docs) : answer.docs[i] = answer.docs[j] => i = j
  <1>1. order \in Seq(Links) /\ Len(order) \in Nat
    BY OrderAssumption
  <1>a. PICK p \in UNION {[1..m -> 1..Len(order)] : m \in 0..Len(order)} :
            /\ \A i, j \in DOMAIN p : i < j => p[i] < p[j]
            /\ answer = [docs |-> [k \in DOMAIN p |-> order[p[k]]],
                         less |-> DOMAIN p # 1..Len(order)]
    BY DEF Answers
  <1>b. PICK n \in 0..Len(order) : p \in [1..n -> 1..Len(order)]
    BY <1>a
  <1>2. /\ p \in [1..n -> 1..Len(order)]
        /\ \A i, j \in 1..n : i < j => p[i] < p[j]
        /\ answer = [docs |-> [k \in 1..n |-> order[p[k]]], less |-> 1..n # 1..Len(order)]
    BY <1>a, <1>b
  <1>3. n \in Nat /\ \A k \in 1..n : p[k] \in 1..Len(order) /\ order[p[k]] \in Links
    BY <1>1, <1>2
  <1>4. answer.docs \in Seq(Links) /\ Len(answer.docs) = n
    BY <1>2, <1>3
  <1>5. \A k \in 1..n : answer.docs[k] = order[p[k]]
    BY <1>2
  <1>6. answer.less = (1..n # 1..Len(order))
    BY <1>2
  <1>7. 1..n = 1..Len(order) => n = Len(order)
    BY <1>1, <1>3
  <1>8. ASSUME NEW i \in 1..n, NEW j \in 1..n, order[p[i]] = order[p[j]] PROVE i = j
    <2>1. p[i] = p[j]
      BY <1>3, <1>8, DocumentAssumption
    <2>2. i \in Int /\ j \in Int /\ p[i] \in Int
      BY <1>1, <1>3
    <2>3. (i < j => p[i] < p[i]) /\ (j < i => p[i] < p[i])
      BY <1>2, <2>1, Zenon
    <2> QED
      BY <2>2, <2>3
  <1> QED
    BY <1>4, <1>5, <1>6, <1>7, <1>8

\* Appending an answer adds at most one copy of a link.
LEMMA AppendedCopies ==
    ASSUME NEW a \in Seq(Links), NEW b \in Seq(Links), NEW d,
           \A i, j \in 1..Len(b) : b[i] = b[j] => i = j
    PROVE  /\ Count(a, d) \in Nat
           /\ Count(a \o b, d) \in Nat
           /\ Count(a \o b, d) <= Count(a, d) + 1
  <1> DEFINE c == a \o b
             A == {i \in DOMAIN a : a[i] = d}
             C == {i \in DOMAIN c : c[i] = d}
  <1>1. /\ c \in Seq(Links)
        /\ Len(a) \in Nat /\ Len(b) \in Nat /\ Len(c) = Len(a) + Len(b)
        /\ \A i \in 1..(Len(a) + Len(b)) : c[i] = IF i <= Len(a) THEN a[i] ELSE b[i - Len(a)]
        /\ DOMAIN a = 1..Len(a) /\ DOMAIN c = 1..(Len(a) + Len(b))
    BY ConcatProperties, LenProperties
  <1>2. IsFiniteSet(A) /\ Cardinality(A) \in Nat
    <2>1. IsFiniteSet(1..Len(a)) /\ A \in SUBSET (1..Len(a))
      BY <1>1, FS_Interval
    <2> HIDE DEF A
    <2> QED
      BY <2>1, FS_Subset, FS_CardinalityType
  <1>3. \E x : C \subseteq A \cup {x}
    <2> HIDE DEF c
    <2>1. CASE \E k \in 1..Len(b) : b[k] = d
      <3>1. PICK k \in 1..Len(b) : b[k] = d
        BY <2>1
      <3>2. ASSUME NEW i \in C PROVE i \in A \cup {Len(a) + k}
        <4>1. i \in 1..(Len(a) + Len(b)) /\ c[i] = d
          BY <1>1, <3>2
        <4>2. CASE i <= Len(a)
          BY <1>1, <4>1, <4>2
        <4>3. CASE ~(i <= Len(a))
          <5>1. i - Len(a) \in 1..Len(b) /\ b[i - Len(a)] = d
            BY <1>1, <4>1, <4>3
          <5>2. i - Len(a) = k
            BY <3>1, <5>1
          <5>3. ASSUME NEW l \in Nat, NEW m \in Nat, NEW n \in 1..(l + m), n - l = k
                PROVE  n = l + k
            BY <5>3
          <5>4. i = Len(a) + k
            BY <1>1, <4>1, <5>2, <5>3
          <5> QED
            BY <5>4
        <4> QED
          BY <4>2, <4>3
      <3> QED
        BY <3>2
    <2>2. CASE ~ \E k \in 1..Len(b) : b[k] = d
      <3>1. ASSUME NEW i \in C PROVE i \in A
        <4>1. i \in 1..(Len(a) + Len(b)) /\ c[i] = d
          BY <1>1, <3>1
        <4>2. i <= Len(a)
          BY <1>1, <2>2, <4>1
        <4> QED
          BY <1>1, <4>1, <4>2
      <3> QED
        BY <3>1
    <2> QED
      BY <2>1, <2>2
  <1>4. PICK x : C \subseteq A \cup {x}
    BY <1>3
  <1> HIDE DEF A, C
  <1>5. /\ IsFiniteSet(A \cup {x})
        /\ Cardinality(A \cup {x}) \in Nat
        /\ Cardinality(A \cup {x}) <= Cardinality(A) + 1
    <2>1. /\ IsFiniteSet(A \cup {x})
          /\ Cardinality(A \cup {x}) = IF x \in A THEN Cardinality(A) ELSE Cardinality(A) + 1
      BY <1>2, FS_AddElement, Zenon
    <2> QED
      BY <1>2, <2>1
  <1>6. /\ Cardinality(C) \in Nat
        /\ Cardinality(C) <= Cardinality(A \cup {x})
    <2>1. IsFiniteSet(C) /\ Cardinality(C) <= Cardinality(A \cup {x})
      BY <1>4, <1>5, FS_Subset, Zenon
    <2> QED
      BY <2>1, FS_CardinalityType
  <1>7. Count(a, d) = Cardinality(A) /\ Count(a \o b, d) = Cardinality(C)
    BY Zenon DEF Count, A, C
  <1> QED
    BY <1>2, <1>5, <1>6, <1>7

\* Drawing or tapping a row cannot read out of range while no answer misses
\* documents, and no link appears more often than there are queries that are
\* not outstanding, in whatever order the answers come, fail and are published;
\* every variable keeps its type.
THEOREM LinksComeFromAnswers ==
    Spec => [](TypeOK /\ OnlyShortAnswersLoseRows /\ OneCopyPerQuery)
<1>0. ASSUME NEW a \in Seq(Links), NEW d PROVE Count(a, d) \in Nat
  <2>1. <<>> \in Seq(Links) /\ \A i, j \in 1..Len(<<>>) : <<>>[i] = <<>>[j] => i = j
    BY EmptySeq
  <2> QED
    BY <2>1, AppendedCopies
<1>1. Init => MenuInv
  <2> SUFFICES ASSUME Init PROVE MenuInv
    OBVIOUS
  <2>1. /\ mainArray = <<>> /\ menuArray = <<>> /\ appArray = <<>> /\ shown = <<>>
        /\ mainAsked = 0
        /\ mainLoaded = FALSE /\ menuLoaded = FALSE /\ adsAsked = FALSE /\ menuAsked = FALSE
        /\ short = FALSE /\ overwritten = FALSE
        /\ tap = [shown |-> NoLink, opened |-> NoLink, late |-> FALSE]
    BY DEF Init
  <2>2. <<>> \in Seq(Links) /\ Len(<<>>) = 0
    BY EmptySeq
  <2>3. TypeOK
    <3>1. tap \in Taps
      BY <2>1 DEF Taps
    <3>2. mainAsked \in 0..2
      BY <2>1
    <3> QED
      BY <2>1, <2>2, <3>1, <3>2 DEF TypeOK
  <2>4. QueriesBounded
    BY <2>1, Zenon DEF QueriesBounded
  <2>5. MainAnswered = 0 /\ MenuAnswered = 0
    BY <2>1, Zenon DEF MainAnswered, MenuAnswered
  <2>6. RowsAreBacked
    BY <2>1, <2>2, <2>5, OrderAssumption DEF RowsAreBacked
  <2>7. CopiesBounded
    <3>1. ASSUME NEW d PROVE Count(<<>>, d) = 0
      <4>1. {i \in DOMAIN <<>> : <<>>[i] = d} = {}
        BY EmptySeq
      <4> QED
        BY <4>1, FS_EmptySet DEF Count
    <3> QED
      BY <2>1, <2>5, <3>1 DEF CopiesBounded
  <2> QED
    BY <2>3, <2>4, <2>6, <2>7 DEF MenuInv
<1>2. MenuInv /\ [Next]_vars => MenuInv'
  <2> SUFFICES ASSUME MenuInv, [Next]_vars PROVE MenuInv'
    OBVIOUS
  <2>1. /\ mainAsked \in 0..2
        /\ mainArray \in Seq(Links) /\ menuArray \in Seq(Links)
        /\ appArray \in Seq(Links) /\ shown \in Seq(Links)
        /\ Len(mainArray) \in Nat /\ Len(menuArray) \in Nat
        /\ Len(appArray) \in Nat /\ Len(shown) \in Nat
        /\ Len(MenuOrder) \in Nat /\ Len(MainOrder) \in Nat /\ Len(MenuOrder) <= Len(MainOrder)
    BY OrderAssumption, SortAssumption DEF MenuInv, TypeOK
  <2>2. MenuAnswered \in {0, 1} /\ MenuAnswered' \in {0, 1}
    BY DEF MenuAnswered
  <2>3. MainAnswered \in 0..2
    <3>1. CASE mainLoaded /\ adsAsked
      <4>1. mainAsked \in 0..1
        BY <2>1, <3>1 DEF MenuInv, QueriesBounded
      <4> QED
        BY <3>1, <4>1 DEF MainAnswered
    <3>2. CASE mainLoaded /\ ~adsAsked
      BY <2>1, <3>2 DEF MainAnswered
    <3>3. CASE ~mainLoaded
      BY <3>3 DEF MainAnswered
    <3> QED
      BY <3>1, <3>2, <3>3
  <2>4. ASSUME UNCHANGED <<arrays, shown, short>>, MainAnswered' \in Nat,
               MainAnswered <= MainAnswered', MenuAnswered <= MenuAnswered'
        PROVE  (~short' => RowsAreBacked') /\ CopiesBounded'
    <3>1. \A d \in Links : /\ Count(mainArray, d) \in Nat
                           /\ Count(menuArray, d) \in Nat
                           /\ Count(appArray, d) \in Nat
      BY <1>0, <2>1
    <3>2. CopiesBounded'
      BY <2>2, <2>3, <2>4, <3>1 DEF MenuInv, CopiesBounded, arrays
    <3>3. MenuAnswered' = 0 => MenuAnswered = 0
      BY <2>2, <2>4
    <3> QED
      BY <2>4, <3>2, <3>3 DEF MenuInv, RowsAreBacked, arrays
  <2>5. CASE mainViewDidLoad
    <3>1. /\ mainAsked = 0 /\ mainAsked' = 1
          /\ ~mainLoaded /\ mainLoaded' /\ ~adsAsked /\ adsAsked'
          /\ UNCHANGED <<menuLoaded, menuAsked, arrays, shown, tap, short, overwritten>>
      BY <2>1, <2>5 DEF mainViewDidLoad, MenuInv, QueriesBounded
    <3>2. MainAnswered = 0 /\ MainAnswered' = 0 /\ MenuAnswered' = MenuAnswered
      BY <3>1 DEF MainAnswered, MenuAnswered
    <3>3. TypeOK' /\ QueriesBounded'
      BY <2>5, <3>1 DEF mainViewDidLoad, MenuInv, TypeOK, QueriesBounded, arrays
    <3> QED
      BY <2>2, <2>4, <3>1, <3>2, <3>3 DEF MenuInv
  <2>6. CASE adsData
    <3>1. /\ adsAsked /\ adsAsked' = FALSE /\ mainLoaded
          /\ UNCHANGED <<mainLoaded, menuLoaded, menuAsked, arrays, shown, tap, short, overwritten>>
      BY <2>6 DEF adsData, MenuInv, QueriesBounded
    <3>2. mainAsked \in 0..1 /\ mainAsked' \in {mainAsked, mainAsked + 1}
      BY <2>1, <2>6, <3>1 DEF adsData, MenuInv, QueriesBounded
    <3>3. MainAnswered = 1 - mainAsked /\ MainAnswered' = 2 - mainAsked'
      BY <3>1, <3>2 DEF MainAnswered
    <3>4. MenuAnswered' = MenuAnswered
      BY <3>1 DEF MenuAnswered
    <3>5. mainAsked' \in 0..2
      BY <3>2
    <3>6. TypeOK' /\ QueriesBounded'
      BY <3>1, <3>5 DEF MenuInv, TypeOK, QueriesBounded, arrays
    <3>7. MainAnswered' \in Nat /\ MainAnswered <= MainAnswered' /\ MenuAnswered <= MenuAnswered'
      <4>1. MenuAnswered <= MenuAnswered'
        BY <2>2, <3>4
      <4>2. CASE mainAsked' = mainAsked
        BY <3>2, <3>3, <4>1, <4>2
      <4>3. CASE mainAsked' = mainAsked + 1
        BY <3>2, <3>3, <4>1, <4>3
      <4> QED
        BY <3>2, <4>2, <4>3
    <3> QED
      BY <2>4, <3>1, <3>6, <3>7 DEF MenuInv
  <2>7. CASE mainSocialData
    <3>1. /\ mainAsked \in 1..2 /\ mainAsked' = mainAsked - 1
          /\ UNCHANGED <<mainLoaded, menuLoaded, adsAsked, menuAsked, menuArray, shown, tap>>
      BY <2>1, <2>7 DEF mainSocialData
    <3>2. mainLoaded
      BY <3>1 DEF MenuInv, QueriesBounded
    <3>3. mainAsked' \in 0..2 /\ (mainAsked <= 1 => mainAsked' <= 1)
      BY <3>1
    <3>4. QueriesBounded'
      BY <3>1, <3>2, <3>3 DEF MenuInv, QueriesBounded
    <3>5. MainAnswered' = MainAnswered + 1 /\ MenuAnswered' = MenuAnswered
      BY <3>1, <3>2 DEF MainAnswered, MenuAnswered
    <3>6. ASSUME NEW answer \in Answers(MainOrder),
                 mainArray' = mainArray \o answer.docs,
                 short' = (short \/ answer.less),
                 appArray' = mainArray', overwritten' = TRUE
          PROVE  MenuInv'
      <4> DEFINE docs == answer.docs
      <4>1. /\ docs \in Seq(Links)
            /\ answer.less \in BOOLEAN
            /\ ~answer.less => Len(docs) = Len(MainOrder)
            /\ \A i, j \in 1..Len(docs) : docs[i] = docs[j] => i = j
        BY AnswerFacts
      <4> HIDE DEF docs
      <4>2. mainArray' \in Seq(Links) /\ Len(mainArray') = Len(mainArray) + Len(docs)
            /\ Len(docs) \in Nat
        BY <2>1, <3>6, <4>1, ConcatProperties DEF docs
      <4>3. short' \in BOOLEAN /\ (~short' => ~short /\ ~answer.less)
        BY <3>6, <4>1 DEF MenuInv, TypeOK
      <4>4. TypeOK'
        BY <3>1, <3>3, <3>6, <4>2, <4>3 DEF MenuInv, TypeOK
      <4>5. ASSUME ~short' PROVE RowsAreBacked'
        <5>1. RowsAreBacked /\ Len(docs) = Len(MainOrder)
          BY <4>1, <4>3, <4>5 DEF MenuInv
        <5> QED
          BY <2>1, <3>1, <3>5, <3>6, <4>2, <5>1 DEF RowsAreBacked
      <4>6. ASSUME NEW d \in Links
            PROVE  /\ Count(mainArray', d) <= MainAnswered'
                   /\ Count(menuArray', d) <= MainAnswered' + MenuAnswered'
                   /\ Count(appArray', d) <= MainAnswered' + MenuAnswered'
        <5>1. /\ Count(mainArray, d) \in Nat /\ Count(mainArray', d) \in Nat
              /\ Count(mainArray', d) <= Count(mainArray, d) + 1
          BY <2>1, <3>6, <4>1, AppendedCopies DEF docs
        <5>2. Count(menuArray, d) \in Nat /\ Count(menuArray', d) = Count(menuArray, d)
              /\ Count(appArray', d) = Count(mainArray', d)
          BY <1>0, <2>1, <3>1, <3>6
        <5>3. Count(mainArray, d) <= MainAnswered
              /\ Count(menuArray, d) <= MainAnswered + MenuAnswered
          BY DEF MenuInv, CopiesBounded
        <5> QED
          BY <2>2, <2>3, <3>5, <5>1, <5>2, <5>3
      <4> QED
        BY <3>4, <4>4, <4>5, <4>6 DEF MenuInv, CopiesBounded
    <3>7. CASE UNCHANGED <<mainArray, appArray, short, overwritten>>
      <4>1. TypeOK'
        BY <3>1, <3>3, <3>7 DEF MenuInv, TypeOK
      <4>2. UNCHANGED <<arrays, shown, short>>
        BY <3>1, <3>7 DEF arrays
      <4>3. MainAnswered' \in Nat /\ MainAnswered <= MainAnswered' /\ MenuAnswered <= MenuAnswered'
        BY <2>2, <2>3, <3>5
      <4> QED
        BY <2>4, <3>4, <4>1, <4>2, <4>3 DEF MenuInv
    <3> QED
      BY <2>7, <3>6, <3>7 DEF mainSocialData
  <2>8. CASE menuViewDidLoad
    <3>1. /\ ~menuLoaded /\ menuLoaded' /\ menuAsked' = TRUE
          /\ menuArray' = appArray /\ shown' = appArray /\ overwritten' = FALSE
          /\ UNCHANGED <<mainLoaded, adsAsked, mainAsked, mainArray, appArray, tap, short>>
      BY <2>8 DEF menuViewDidLoad, reloadData
    <3>2. MenuAnswered = 0 /\ MenuAnswered' = 0 /\ MainAnswered' = MainAnswered
      BY <3>1 DEF MenuAnswered, MainAnswered
    <3>3. menuLoaded' \in BOOLEAN
      BY <2>8 DEF menuViewDidLoad
    <3>4. TypeOK' /\ QueriesBounded'
      BY <3>1, <3>3 DEF MenuInv, TypeOK, QueriesBounded
    <3>5. ASSUME ~short' PROVE RowsAreBacked'
      BY <2>1, <3>1, <3>2, <3>5 DEF MenuInv, RowsAreBacked
    <3>6. CopiesBounded'
      BY <3>1, <3>2 DEF MenuInv, CopiesBounded
    <3> QED
      BY <3>4, <3>5, <3>6 DEF MenuInv
  <2>9. CASE viewWillAppear
    <3>1. /\ menuArray' = appArray
          /\ UNCHANGED <<mainLoaded, menuLoaded, asks, mainArray, appArray, shown, tap, short,
                         overwritten>>
      BY <2>9 DEF viewWillAppear
    <3>2. MenuAnswered' = MenuAnswered /\ MainAnswered' = MainAnswered
      BY <3>1 DEF MenuAnswered, MainAnswered, asks
    <3>3. TypeOK' /\ QueriesBounded'
      BY <3>1 DEF MenuInv, TypeOK, QueriesBounded, asks
    <3>4. ASSUME ~short' PROVE RowsAreBacked'
      BY <3>1, <3>2, <3>4 DEF MenuInv, RowsAreBacked
    <3>5. CopiesBounded'
      BY <3>1, <3>2 DEF MenuInv, CopiesBounded
    <3> QED
      BY <3>3, <3>4, <3>5 DEF MenuInv
  <2>10. CASE menuSocialData
    <3>1. /\ menuAsked /\ menuAsked' = FALSE
          /\ UNCHANGED <<mainLoaded, menuLoaded, adsAsked, mainAsked, mainArray, tap>>
      BY <2>10 DEF menuSocialData
    <3>2. menuLoaded
      BY <3>1 DEF MenuInv, QueriesBounded
    <3>3. QueriesBounded'
      BY <3>1 DEF MenuInv, QueriesBounded
    <3>4. MenuAnswered = 0 /\ MenuAnswered' = 1 /\ MainAnswered' = MainAnswered
      BY <3>1, <3>2 DEF MenuAnswered, MainAnswered
    <3>5. ASSUME NEW answer \in Answers(MenuOrder),
                 menuArray' = menuArray \o answer.docs,
                 short' = (short \/ answer.less),
                 appArray' = menuArray', shown' = menuArray', overwritten' = FALSE
          PROVE  MenuInv'
      <4> DEFINE docs == answer.docs
      <4>1. /\ docs \in Seq(Links)
            /\ answer.less \in BOOLEAN
            /\ ~answer.less => Len(docs) = Len(MenuOrder)
            /\ \A i, j \in 1..Len(docs) : docs[i] = docs[j] => i = j
        BY AnswerFacts
      <4> HIDE DEF docs
      <4>2. menuArray' \in Seq(Links) /\ Len(menuArray') = Len(menuArray) + Len(docs)
            /\ Len(docs) \in Nat
        BY <2>1, <3>5, <4>1, ConcatProperties DEF docs
      <4>3. short' \in BOOLEAN /\ (~short' => ~short /\ ~answer.less)
        BY <3>5, <4>1 DEF MenuInv, TypeOK
      <4>4. TypeOK'
        BY <3>1, <3>5, <4>2, <4>3 DEF MenuInv, TypeOK
      <4>5. ASSUME ~short' PROVE RowsAreBacked'
        <5>1. RowsAreBacked /\ Len(docs) = Len(MenuOrder)
          BY <4>1, <4>3, <4>5 DEF MenuInv
        <5> QED
          BY <2>1, <3>1, <3>4, <3>5, <4>2, <5>1 DEF RowsAreBacked
      <4>6. ASSUME NEW d \in Links
            PROVE  /\ Count(mainArray', d) <= MainAnswered'
                   /\ Count(menuArray', d) <= MainAnswered' + MenuAnswered'
                   /\ Count(appArray', d) <= MainAnswered' + MenuAnswered'
        <5>1. /\ Count(menuArray, d) \in Nat /\ Count(menuArray', d) \in Nat
              /\ Count(menuArray', d) <= Count(menuArray, d) + 1
          BY <2>1, <3>5, <4>1, AppendedCopies DEF docs
        <5>2. Count(mainArray', d) = Count(mainArray, d)
              /\ Count(appArray', d) = Count(menuArray', d)
          BY <3>1, <3>5
        <5>3. Count(mainArray, d) <= MainAnswered
              /\ Count(menuArray, d) <= MainAnswered + MenuAnswered
          BY DEF MenuInv, CopiesBounded
        <5> QED
          BY <2>2, <2>3, <3>4, <5>1, <5>2, <5>3
      <4> QED
        BY <3>3, <4>4, <4>5, <4>6 DEF MenuInv, CopiesBounded
    <3>6. CASE UNCHANGED <<menuArray, appArray, shown, short, overwritten>>
      <4>1. TypeOK'
        BY <3>1, <3>6 DEF MenuInv, TypeOK
      <4>2. UNCHANGED <<arrays, shown, short>>
        BY <3>1, <3>6 DEF arrays
      <4>3. MainAnswered' \in Nat /\ MainAnswered <= MainAnswered' /\ MenuAnswered <= MenuAnswered'
        BY <2>3, <3>4
      <4> QED
        BY <2>4, <3>3, <4>1, <4>2, <4>3 DEF MenuInv
    <3> QED
      BY <2>10, <3>5, <3>6 DEF menuSocialData, reloadData
  <2>11. CASE cellForRowAt
    <3>1. PICK i \in DOMAIN shown \cap DOMAIN menuArray :
              shown' = [shown EXCEPT ![i] = menuArray[i]]
      BY <2>11 DEF cellForRowAt
    <3>2. UNCHANGED <<mainLoaded, menuLoaded, asks, arrays, tap, short, overwritten>>
      BY <2>11 DEF cellForRowAt
    <3>3. i \in 1..Len(shown) /\ menuArray[i] \in Links
      BY <2>1, <3>1
    <3>4. shown' \in Seq(Links) /\ Len(shown') = Len(shown)
      BY <2>1, <3>1, <3>3, ExceptSeq
    <3>5. MenuAnswered' = MenuAnswered /\ MainAnswered' = MainAnswered
      BY <3>2 DEF MenuAnswered, MainAnswered, asks
    <3>6. TypeOK' /\ QueriesBounded'
      BY <3>2, <3>4 DEF MenuInv, TypeOK, QueriesBounded, asks, arrays
    <3>7. ASSUME ~short' PROVE RowsAreBacked'
      BY <3>2, <3>4, <3>5, <3>7 DEF MenuInv, RowsAreBacked, arrays
    <3>8. CopiesBounded'
      BY <3>2, <3>5 DEF MenuInv, CopiesBounded, arrays
    <3> QED
      BY <3>6, <3>7, <3>8 DEF MenuInv
  <2>12. CASE didSelectRowAt \/ UNCHANGED vars
    <3>1. UNCHANGED <<mainLoaded, menuLoaded, asks, arrays, shown, short, overwritten>>
      BY <2>12 DEF didSelectRowAt, vars
    <3>2. tap' \in Taps
      BY <2>1, <2>12 DEF didSelectRowAt, vars, MenuInv, TypeOK, Taps
    <3>3. MenuAnswered' = MenuAnswered /\ MainAnswered' = MainAnswered
      BY <3>1 DEF MenuAnswered, MainAnswered, asks
    <3>4. TypeOK' /\ QueriesBounded'
      BY <3>1, <3>2 DEF MenuInv, TypeOK, QueriesBounded, asks, arrays
    <3> QED
      BY <2>2, <2>3, <2>4, <3>1, <3>3, <3>4 DEF MenuInv
  <2> QED
    BY <2>5, <2>6, <2>7, <2>8, <2>9, <2>10, <2>11, <2>12 DEF Next
<1>3. MenuInv => TypeOK /\ OnlyShortAnswersLoseRows /\ OneCopyPerQuery
  <2> SUFFICES ASSUME MenuInv PROVE TypeOK /\ OnlyShortAnswersLoseRows /\ OneCopyPerQuery
    OBVIOUS
  <2>1. TypeOK /\ OnlyShortAnswersLoseRows
    BY DEF MenuInv, RowsAreBacked, OnlyShortAnswersLoseRows
  <2> DEFINE menuOpen == IF menuAsked \/ ~menuLoaded THEN 1 ELSE 0
             adsOpen  == IF adsAsked \/ ~mainLoaded THEN 1 ELSE 0
  <2>2. mainAsked \in 0..2 /\ MenuAnswered = 1 - menuOpen
    BY DEF MenuInv, TypeOK, MenuAnswered
  <2>3. MainAnswered <= 2 - mainAsked - adsOpen /\ MainAnswered \in Int
    <3>1. CASE mainLoaded
      BY <2>2, <3>1 DEF MainAnswered
    <3>2. CASE ~mainLoaded
      BY <3>2 DEF MainAnswered, MenuInv, QueriesBounded
    <3> QED
      BY <3>1, <3>2
  <2>4. menuOpen \in {0, 1} /\ adsOpen \in {0, 1}
    OBVIOUS
  <2>5. ASSUME NEW d \in Links PROVE Count(menuArray, d) <= 3 - mainAsked - menuOpen - adsOpen
    <3>1. Count(menuArray, d) \in Nat /\ Count(menuArray, d) <= MainAnswered + MenuAnswered
      BY <1>0 DEF MenuInv, TypeOK, CopiesBounded
    <3> HIDE DEF menuOpen, adsOpen
    <3> QED
      BY <2>2, <2>3, <2>4, <3>1
  <2> QED
    BY <2>1, <2>5 DEF OneCopyPerQuery
<1> QED
  BY <1>1, <1>2, <1>3, PTL DEF Spec
=============================================================================
