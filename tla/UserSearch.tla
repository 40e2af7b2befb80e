----------------------------- MODULE UserSearch -----------------------------
(***************************************************************************)
(* The search for members in NewGroupVC on one phone, its rows and their   *)
(* check marks (UserCell), and getEmail(forSearchQuery:) under it.  Every  *)
(* change of the text attaches one more listener to /users, with a query   *)
(* and an array of its own; none is ever removed, the array is never       *)
(* emptied, and every change of /users calls all of them, oldest first.    *)
(* The choice is kept apart from the rows, the table keeps a selection of  *)
(* its own, and the cells a check mark that every setSelected toggles.     *)
(***************************************************************************)
EXTENDS Naturals, Sequences, FiniteSets, SequencesExt

CONSTANTS MaxEmail,     \* bound: emails are numbers, in the order of /users
          Me,           \* Auth.auth().currentUser?.email
          Queries,      \* texts of addPeopleTextField other than the empty one
          Matching,     \* query -> the emails that contain it
          Empty,        \* no text
          MaxListeners, \* bound: listeners attached
          MaxQueued     \* bound: closures queued when the user types or data come

Emails == 1..MaxEmail

ASSUME SearchAssumption ==
    /\ MaxEmail \in Nat /\ Me \in Emails
    /\ Matching \in [Queries -> SUBSET Emails] /\ Empty \notin Queries
    /\ MaxListeners \in Nat /\ MaxQueued \in Nat

VARIABLES
    users,        \* the emails under /users at the server
    known,        \* the emails Firebase has
    arrived,      \* Firebase has had data of /users
    text,         \* addPeopleTextField.text
    work,         \* Firebase's queue: queries to attach a listener for
    listeners,    \* the listeners in order: query, and the array each has made
    main,         \* the main queue: calls of listeners, assignments of results
    emailArray,   \* NewGroupVC.emailArray
    rows,         \* the table's rows: selected, check mark shown
    choosenOnes,  \* NewGroupVC.choosenOnes, as a set: a choice is never repeated
    doneHidden,   \* doneButton.isHidden
    regrown,      \* history: data came for a listener that had had data
    calm,         \* history: no data are or were under way since the text was emptied
    odd           \* history: rows tapped twice, or chosen through another row

server    == <<users, known, arrived>>
firebase  == <<work, listeners>>
selection == <<choosenOnes, doneHidden>>
table     == <<emailArray, rows, odd>>
vars      == <<server, text, firebase, main, table, selection, regrown, calm>>

Results == Seq(Emails \ {Me})
Events  == [listener : 1..MaxListeners, snap : SUBSET Emails]
Rows    == [selected : BOOLEAN, mark : BOOLEAN]

TypeOK ==
    /\ users \subseteq Emails /\ known \subseteq users
    /\ text \in Queries \union {Empty} /\ work \in Seq(Queries)
    /\ listeners \in Seq([query : Queries, made : Results])
    /\ main \in Seq(Events \union [results : Results])
    /\ emailArray \in Results /\ rows \in Seq(Rows) /\ Len(rows) = Len(emailArray)
    /\ choosenOnes \subseteq Emails \ {Me} /\ odd \subseteq DOMAIN rows
    /\ {arrived, doneHidden, regrown, calm} \subseteq BOOLEAN

\* viewDidLoad.  Firebase may have /users already: an earlier form's listeners
\* are still attached.
Init ==
    /\ users \in SUBSET Emails /\ arrived \in BOOLEAN /\ known = IF arrived THEN users ELSE {}
    /\ text = Empty /\ work = <<>> /\ listeners = <<>> /\ main = <<>>
    /\ emailArray = <<>> /\ rows = <<>>
    /\ choosenOnes = {} /\ doneHidden = TRUE
    /\ regrown = FALSE /\ calm = TRUE /\ odd = {}

-----------------------------------------------------------------------------
(* Rows and cells. *)

\* Fault: a reused cell is not told of the choice.
DisplayPlain(email) == [selected |-> FALSE, mark |-> FALSE]

\* cellForRowAt: the mark tells the choice.  Displaying the cell calls
\* setSelected once, after which every further call toggles the mark.
Display(email) == [selected |-> FALSE, mark |-> email \in choosenOnes]

SetSelected(row) == [selected |-> ~row.selected, mark |-> ~row.mark]

\* reloadData: all rows are made anew, none is selected.
Show(results) ==
    /\ emailArray' = results
    /\ rows' = [r \in DOMAIN results |-> Display(results[r])]
    /\ odd' = {}

\* A cell is scrolled out and in: the row stays selected.
Redisplay(r) ==
    /\ rows' = [rows EXCEPT ![r].mark = emailArray[r] \in choosenOnes]
    /\ odd' = odd \ {r}
    /\ UNCHANGED <<server, text, firebase, main, emailArray, selection, regrown, calm>>

\* didSelectRowAt.
Choose(email) ==
    /\ choosenOnes' = IF email \in choosenOnes THEN choosenOnes \ {email}
                                               ELSE choosenOnes \union {email}
    /\ doneHidden' = (choosenOnes' = {})

\* A tap on a row that is not selected selects it, and any other row of the
\* same email keeps its mark.
Select(r) ==
    /\ ~rows[r].selected
    /\ rows' = [rows EXCEPT ![r] = SetSelected(@)]
    /\ Choose(emailArray[r])
    /\ odd' = odd \union {s \in DOMAIN rows \ {r} : emailArray[s] = emailArray[r]}
    /\ UNCHANGED <<server, text, firebase, main, emailArray, regrown, calm>>

\* A tap on a selected row takes the selection away, of which NewGroupVC is
\* not told: it has no didDeselectRowAt.
Deselect(r) ==
    /\ rows[r].selected
    /\ rows' = [rows EXCEPT ![r] = SetSelected(@)]
    /\ odd' = odd \union {r}
    /\ UNCHANGED <<server, text, firebase, main, emailArray, selection, regrown, calm>>

-----------------------------------------------------------------------------
(* The text field. *)

Quiet == work = <<>> /\ main = <<>>

Slack == Len(work) + Len(main) <= MaxQueued

\* newInputChange with some text.
Type(q) ==
    /\ Slack /\ Len(listeners) + Len(work) < MaxListeners
    /\ text # q /\ text' = q
    /\ work' = Append(work, q)
    /\ UNCHANGED <<server, listeners, main, table, selection, regrown, calm>>

\* newInputChange with the text gone.
Clear ==
    /\ text # Empty /\ text' = Empty
    /\ Show(<<>>)
    /\ calm' = (Quiet /\ arrived)
    /\ UNCHANGED <<server, firebase, main, selection, regrown>>

-----------------------------------------------------------------------------
(* Firebase. *)

\* createDBUser, on some phone.
SignUp ==
    /\ \E e \in Emails \ users : users' = users \union {e}
    /\ UNCHANGED <<known, arrived, text, firebase, main, table, selection, regrown, calm>>

\* Fault: one array for all listeners.
AttachShared ==
    /\ work # <<>> /\ work' = Tail(work)
    /\ listeners' = Append(listeners, [query |-> Head(work),
          made |-> IF listeners = <<>> THEN <<>> ELSE Last(listeners).made])
    /\ main' = IF arrived THEN Append(main, [listener |-> Len(listeners'), snap |-> known])
               ELSE main
    /\ UNCHANGED <<server, text, table, selection, regrown, calm>>

\* The listener joins the others; when /users is there it is called at once.
Attach ==
    /\ work # <<>> /\ work' = Tail(work)
    /\ listeners' = Append(listeners, [query |-> Head(work), made |-> <<>>])
    /\ main' = IF arrived THEN Append(main, [listener |-> Len(listeners'), snap |-> known])
               ELSE main
    /\ UNCHANGED <<server, text, table, selection, regrown, calm>>

\* Fault: the newest listener is called first.
CallsNewestFirst(S) ==
    [i \in DOMAIN listeners |-> [listener |-> Len(listeners) + 1 - i, snap |-> S]]

\* All listeners are called, in the order they were attached.
Calls(S) == [i \in DOMAIN listeners |-> [listener |-> i, snap |-> S]]

\* Data of /users.
\* With none attached, here or by an earlier form, nothing is asked for.
Receive ==
    /\ Slack /\ (arrived \/ listeners # <<>>)
    /\ \E S \in SUBSET users :
          /\ known \subseteq S /\ (arrived => S # known)
          /\ known' = S /\ arrived' = TRUE
          /\ main' = main \o Calls(S)
    /\ regrown' = (regrown \/ (arrived /\ listeners # <<>>))
    /\ calm' = FALSE
    /\ UNCHANGED <<users, text, firebase, table, selection>>

-----------------------------------------------------------------------------
(* The main queue. *)

NextMain(kind) == main # <<>> /\ kind \in DOMAIN Head(main)

Found(S, q) == (S \intersect Matching[q]) \ {Me}

\* The children of a node come in the order of their keys: before the i-th
\* there are i - 1.
InOrder(S) == [i \in 1..Cardinality(S) |-> CHOOSE e \in S : Cardinality({d \in S : d <= e}) = i]

\* What a listener's array becomes.
Made(item) ==
    LET L == listeners[item.listener]
    IN L.made \o InOrder(Found(item.snap, L.query))

\* Fault: the completion is left out when nobody is found.
CalledIfAny ==
    /\ NextMain("listener")
    /\ LET made == Made(Head(main))
       IN /\ listeners' = [listeners EXCEPT ![Head(main).listener].made = made]
          /\ main' = IF made = <<>> THEN Tail(main) ELSE Append(Tail(main), [results |-> made])
    /\ UNCHANGED <<server, text, work, table, selection, regrown, calm>>

\* The closure of getEmail adds what it finds to its array, and NewGroupVC's
\* completion queues the result.
Called ==
    /\ NextMain("listener")
    /\ LET made == Made(Head(main))
       IN /\ listeners' = [listeners EXCEPT ![Head(main).listener].made = made]
          /\ main' = Append(Tail(main), [results |-> made])
    /\ UNCHANGED <<server, text, work, table, selection, regrown, calm>>

Assign ==
    /\ NextMain("results")
    /\ Show(Head(main).results)
    /\ main' = Tail(main)
    /\ UNCHANGED <<server, text, firebase, selection, regrown, calm>>

-----------------------------------------------------------------------------
User   == Clear \/ (\E q \in Queries : Type(q))
                \/ (\E r \in DOMAIN rows : Select(r) \/ Deselect(r) \/ Redisplay(r))
System == Attach \/ Called \/ Assign
Next   == User \/ SignUp \/ Receive \/ System

Spec == Init /\ [][Next]_vars

-----------------------------------------------------------------------------
\* With nothing under way the rows are the users found by the text typed, in
\* spite of the listeners of earlier texts, which are called as well.
ResultsSettle ==
    Quiet /\ text # Empty /\ arrived => ToSet(emailArray) = Found(known, text)

\* Once emptied, the list stays empty unless /users changes or was being read:
\* then the listener of a text no longer there fills it again.
ClearStaysClear == text = Empty /\ calm => emailArray = <<>>

\* What the rows are once the search has settled (newInputChange).
SearchSettles == ResultsSettle /\ ClearStaysClear

\* A user is listed twice only after /users has changed under a listener,
\* which adds all it finds to what it had found (getEmail's emailArray).
RepeatsNeedChange == regrown \/ IsInjective(emailArray)

\* The check mark of a row tells whether its user is chosen, except after a
\* tap that deselected it or a tap on another row of the same user; and Done
\* is there just when somebody is chosen.
MarksTellChoice ==
    /\ \A r \in DOMAIN rows \ odd : rows[r].mark = (emailArray[r] \in choosenOnes)
    /\ doneHidden = (choosenOnes = {})

\* A text left alone is answered once /users is there.
SearchAnswered ==
    \A q \in Queries :
        text = q /\ arrived
            ~> text # q \/ ToSet(emailArray) = Found(known, q)
=============================================================================
