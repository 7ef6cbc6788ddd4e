----------------------------- MODULE SocialMenu -----------------------------
(***************************************************************************)
(* The links of the side menu.  MainViewController and SideMenuController  *)
(* each ask Firestore for the same collection, append the answers to an    *)
(* array of their own, and overwrite the app delegate's array with it; the *)
(* menu copies that array whenever it appears, but tells its table only    *)
(* when its own query is answered.                                         *)
(***************************************************************************)
EXTENDS Naturals, Sequences, FiniteSets

CONSTANTS
    Links,       \* documents of the collection "social"
    MainOrder,   \* the collection as MainViewController's query returns it
    MenuOrder,   \* ordered by "sort", without the documents that have no "sort"
    NoLink       \* nothing tapped yet

ASSUME OrderAssumption == MainOrder \in Seq(Links) /\ MenuOrder \in Seq(Links)
ASSUME DocumentAssumption ==   \* a snapshot holds a document once
    \A order \in {MainOrder, MenuOrder} : \A i, j \in 1..Len(order) :
        order[i] = order[j] => i = j
ASSUME SortAssumption == Len(MenuOrder) <= Len(MainOrder)
ASSUME TapAssumption == NoLink \notin Links

VARIABLES
    mainLoaded, menuLoaded,   \* the controllers' viewDidLoad has run
    adsAsked,      \* the query for the ads is unanswered
    mainAsked,     \* unanswered queries of MainViewController
    menuAsked,     \* the query of SideMenuController is unanswered
    mainArray,     \* MainViewController.socialArray
    menuArray,     \* SideMenuController.socialArray
    appArray,      \* AppDelegate.socialArray
    shown,         \* the table: for each of its rows the link its cell shows
    tap,           \* the last tap: what its row showed, what it opened
    short,         \* history: an answer missed documents (offline cache, edits)
    overwritten    \* history: MainViewController wrote appArray since the last reload

asks   == <<adsAsked, mainAsked, menuAsked>>
arrays == <<mainArray, menuArray, appArray>>
vars   == <<mainLoaded, menuLoaded, asks, arrays, shown, tap, short, overwritten>>

Taps == [shown : Links \cup {NoLink}, opened : Links \cup {NoLink}, late : BOOLEAN]

Init ==
    /\ mainLoaded = FALSE /\ menuLoaded = FALSE
    /\ adsAsked = FALSE /\ mainAsked = 0 /\ menuAsked = FALSE
    /\ mainArray = <<>> /\ menuArray = <<>> /\ appArray = <<>>
    /\ shown = <<>>
    /\ tap = [shown |-> NoLink, opened |-> NoLink, late |-> FALSE]
    /\ short = FALSE
    /\ overwritten = FALSE

\* tableView.reloadData() after menuArray has become a: every row is redrawn.
reloadData(a) == shown' = a /\ overwritten' = FALSE

\* A snapshot of the collection in the query's order: the documents at some of
\* its places, all of them or less.
Answers(order) ==
    LET Places == UNION {[1..n -> 1..Len(order)] : n \in 0..Len(order)}
        Picks  == {p \in Places : \A i, j \in DOMAIN p : i < j => p[i] < p[j]}
    IN  {[docs |-> [k \in DOMAIN p |-> order[p[k]]], less |-> DOMAIN p # 1..Len(order)] : p \in Picks}

----------------------------------------------------------------------------
(* MainViewController.                                                     *)

mainViewDidLoad ==
    /\ ~mainLoaded
    /\ mainLoaded' = TRUE
    /\ adsAsked' = TRUE
    /\ mainAsked' = mainAsked + 1
    /\ UNCHANGED <<menuLoaded, menuAsked, arrays, shown, tap, short, overwritten>>

\* Mutant: an answer asks for the ads again.
adsData_asksAgain ==
    /\ adsAsked
    /\ mainAsked' = mainAsked + 1
    /\ UNCHANGED <<mainLoaded, menuLoaded, adsAsked, menuAsked, arrays, shown, tap, short,
                   overwritten>>

\* The ads are answered: ask for the links again, unless it was an error.
adsData ==
    /\ adsAsked
    /\ adsAsked' = FALSE
    /\ mainAsked' \in {mainAsked, mainAsked + 1}
    /\ UNCHANGED <<mainLoaded, menuLoaded, menuAsked, arrays, shown, tap, short, overwritten>>

\* Mutant: the array starts anew with every answer.
mainSocialData_replaces ==
    /\ mainAsked > 0
    /\ mainAsked' = mainAsked - 1
    /\ \E answer \in Answers(MainOrder) :
          /\ mainArray' = answer.docs
          /\ short' = (short \/ answer.less)
    /\ appArray' = mainArray'
    /\ overwritten' = TRUE
    /\ UNCHANGED <<mainLoaded, menuLoaded, adsAsked, menuAsked, menuArray, shown, tap>>

\* The links are answered: append them and publish the array.
mainSocialData ==
    /\ mainAsked > 0
    /\ mainAsked' = mainAsked - 1
    /\ \/ /\ \E answer \in Answers(MainOrder) :
                /\ mainArray' = mainArray \o answer.docs
                /\ short' = (short \/ answer.less)
          /\ appArray' = mainArray'
          /\ overwritten' = TRUE
       \/ UNCHANGED <<mainArray, appArray, short, overwritten>>
    /\ UNCHANGED <<mainLoaded, menuLoaded, adsAsked, menuAsked, menuArray, shown, tap>>

----------------------------------------------------------------------------
(* SideMenuController.                                                     *)

menuViewDidLoad ==
    /\ ~menuLoaded
    /\ menuLoaded' = TRUE
    /\ menuArray' = appArray
    /\ menuAsked' = TRUE
    /\ reloadData(menuArray')
    /\ UNCHANGED <<mainLoaded, adsAsked, mainAsked, mainArray, appArray, tap, short>>

\* Mutant: the copy is appended.
viewWillAppear_appends ==
    /\ menuLoaded
    /\ Len(menuArray) < 4 * Len(MainOrder)
    /\ menuArray' = menuArray \o appArray
    /\ UNCHANGED <<mainLoaded, menuLoaded, asks, mainArray, appArray, shown, tap, short,
                   overwritten>>

\* Copies the array; the table is not told.
viewWillAppear ==
    /\ menuLoaded
    /\ menuArray' = appArray
    /\ UNCHANGED <<mainLoaded, menuLoaded, asks, mainArray, appArray, shown, tap, short,
                   overwritten>>

\* Mutant: the answer is not published.
menuSocialData_keeps ==
    /\ menuAsked
    /\ menuAsked' = FALSE
    /\ \E answer \in Answers(MenuOrder) :
          /\ menuArray' = menuArray \o answer.docs
          /\ short' = (short \/ answer.less)
    /\ reloadData(menuArray')
    /\ UNCHANGED <<mainLoaded, menuLoaded, adsAsked, mainAsked, mainArray, appArray, tap>>

\* The links are answered: append, publish and redraw the table.
menuSocialData ==
    /\ menuAsked
    /\ menuAsked' = FALSE
    /\ \/ /\ \E answer \in Answers(MenuOrder) :
                /\ menuArray' = menuArray \o answer.docs
                /\ short' = (short \/ answer.less)
          /\ appArray' = menuArray'
          /\ reloadData(menuArray')
       \/ UNCHANGED <<menuArray, appArray, shown, short, overwritten>>
    /\ UNCHANGED <<mainLoaded, menuLoaded, adsAsked, mainAsked, mainArray, tap>>

\* Scrolling draws row i again.  An index out of range ends the program.
cellForRowAt ==
    /\ \E i \in DOMAIN shown \cap DOMAIN menuArray :
          shown' = [shown EXCEPT ![i] = menuArray[i]]
    /\ UNCHANGED <<mainLoaded, menuLoaded, asks, arrays, tap, short, overwritten>>

\* A tap on row i hides the menu, opens a page, a call or a mail for the link.
didSelectRowAt ==
    /\ \E i \in DOMAIN shown \cap DOMAIN menuArray :
          tap' = [shown |-> shown[i], opened |-> menuArray[i], late |-> overwritten]
    /\ UNCHANGED <<mainLoaded, menuLoaded, asks, arrays, shown, short, overwritten>>

Next ==
    \/ mainViewDidLoad \/ adsData \/ mainSocialData
    \/ menuViewDidLoad \/ viewWillAppear \/ menuSocialData
    \/ cellForRowAt \/ didSelectRowAt

Spec == Init /\ [][Next]_vars

----------------------------------------------------------------------------
\* The type of every variable.
TypeOK ==
    /\ mainLoaded \in BOOLEAN /\ menuLoaded \in BOOLEAN
    /\ adsAsked \in BOOLEAN /\ mainAsked \in 0..2 /\ menuAsked \in BOOLEAN
    /\ mainArray \in Seq(Links) /\ menuArray \in Seq(Links) /\ appArray \in Seq(Links)
    /\ shown \in Seq(Links)
    /\ tap \in Taps
    /\ short \in BOOLEAN /\ overwritten \in BOOLEAN

\* The table never has a row without data, so that drawing or tapping one
\* cannot read out of range, although viewWillAppear replaces the array behind
\* the table: as long as no answer misses documents the arrays only grow past
\* the rows, in whatever order the queries are answered or fail.
OnlyShortAnswersLoseRows == short \/ Len(shown) <= Len(menuArray)

\* A tap opens the link its row shows, unless MainViewController's answer has
\* replaced the shared array since the table was last reloaded.
TapOpensLinkShown == tap.opened = tap.shown \/ tap.late

Count(a, d) == Cardinality({i \in DOMAIN a : a[i] = d})

\* Links do appear several times in the menu, but at most once for each of the
\* three queries that is not outstanding, whoever publishes last.
OneCopyPerQuery ==
    \A d \in Links : Count(menuArray, d) <= 3 - mainAsked -
        (IF menuAsked \/ ~menuLoaded THEN 1 ELSE 0) - (IF adsAsked \/ ~mainLoaded THEN 1 ELSE 0)
=============================================================================
