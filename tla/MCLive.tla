------------------------------- MODULE MCLive -------------------------------
(* The client of the Realtime Database, and small instances of the screens   *)
(* with the fairness of the queues that serve them. They share no variable:  *)
(* `part` says which one a behaviour is of, the others stay in their initial *)
(* states.                                                                   *)
EXTENDS Database, TLC
CONSTANTS c1, c2, a, b, d, e,                                \* of Database
          Devices, Slots, NoUser, NoAccount, NoPassword,     \* of Session
          Users, NoGroup, Keys,                              \* of Groups
          all, some, Empty,                                  \* of UserSearch
          Uids, Cells, Blank                                 \* of Feed
VARIABLES part,
          accounts, records, screen, currentUser, fields, calls, puts, appearing, cut, late,
          board, shown, groupsUser, place, loaded, listeners, groupsArray, owner, chat, chatOn,
          messages, draft, sendEnabled, asks, work, main, replaced, foreign, loggedOut,
          users, known, arrived, text, searchWork, searchListeners, searchMain, emailArray,
          searchRows, choosenOnes, doneHidden, regrown, calm, odd,
          feed, feedRecords, feedPlace, feedWork, reads, cached, feedSeen, feedMain,
          messagesArray, top, rowOf, shows, names, mine, unnamed
sessionVars == <<accounts, records, screen, currentUser, fields, calls, puts, appearing, cut, late>>
groupVars == <<board, shown, groupsUser, place, loaded, listeners, groupsArray, owner, chat, chatOn,
               messages, draft, sendEnabled, asks, work, main, replaced, foreign, loggedOut>>
searchVars == <<users, known, arrived, text, searchWork, searchListeners, searchMain, emailArray,
                searchRows, choosenOnes, doneHidden, regrown, calm, odd>>
feedVars == <<feed, feedRecords, feedPlace, feedWork, reads, cached, feedSeen, feedMain,
              messagesArray, top, rowOf, shows, names, mine, unnamed>>
all_vars == <<part, databaseVars, sessionVars, groupVars, searchVars, feedVars>>

\* Nodes that refer to each other in a chain, and one that refers to none.
MCNeeds == (a :> {} @@ b :> {a} @@ d :> {a, b} @@ e :> {})
MCMatching == (all :> 1..2) @@ (some :> {2})

SignIn == INSTANCE Session WITH Emails <- {"email"}, Passwords <- {"password"}
Groups == INSTANCE Groups WITH MaxListeners <- 2, MaxQueued <- 0, MaxAsks <- 0,
                               currentUser <- groupsUser
Search == INSTANCE UserSearch WITH
    MaxEmail <- 2, Me <- 2, Queries <- {all, some}, Matching <- MCMatching,
    MaxListeners <- 3, MaxQueued <- 1,
    work <- searchWork, listeners <- searchListeners, main <- searchMain, rows <- searchRows
Feed == INSTANCE Feed WITH
    Me <- "me", Users <- Uids, MaxPosts <- 2, MaxReads <- 2, MaxNames <- 2, records <- feedRecords,
    place <- feedPlace, work <- feedWork, seen <- feedSeen, main <- feedMain

LiveInit ==
    /\ part \in {"database", "sign_in", "groups", "search", "feed"}
    /\ DatabaseInit /\ SignIn!Init /\ Groups!Init /\ Search!Init /\ Feed!Init
    /\ part # "search" => users = {} /\ ~arrived
    /\ part # "feed" => feedRecords = {}
LiveNext ==
    /\ UNCHANGED part
    /\ \/ part = "database" /\ DatabaseNext /\ UNCHANGED <<sessionVars, groupVars, searchVars, feedVars>>
       \/ part = "sign_in" /\ SignIn!Next /\ UNCHANGED <<databaseVars, groupVars, searchVars, feedVars>>
       \/ part = "groups" /\ Groups!Next /\ UNCHANGED <<databaseVars, sessionVars, searchVars, feedVars>>
       \/ part = "search" /\ Search!Next /\ UNCHANGED <<databaseVars, sessionVars, groupVars, feedVars>>
       \/ part = "feed" /\ Feed!Next /\ UNCHANGED <<databaseVars, sessionVars, groupVars, searchVars>>

\* What runs by itself: closures on the main queue, UIKit's transitions, the
\* client's queue of work and its answers. For the screens it is enough that
\* the phone does not stop while one of them can run; a call of Auth needs its
\* own closure. Nothing is promised of the user or the network.
GroupsRun == \E ph \in Devices : Groups!WorkStep(ph) \/ Groups!MainStep(ph)
FeedRuns == part = "feed" /\ Feed!System
LiveSpec ==
    /\ LiveInit /\ [][LiveNext]_all_vars
    /\ SignIn!Fairness
    /\ WF_groupVars(GroupsRun) /\ WF_searchVars(Search!System) /\ WF_feedVars(FeedRuns)

(* Once a sign-in was answered for the screen that asked, the tab bar comes  *)
(* up, whichever of the closure, the close button and viewDidAppear runs     *)
(* first (LoginEmailVC.loginPressed, LoginVC.viewDidAppear).                 *)
SignInReachesTabs == SignIn!SignInReachesTabs

(* After Send the button works again, unless the chat was left               *)
(* (GroupFeedVC.sendPressed).                                                *)
SendComesBack == Groups!SendComesBack

(* A text left alone is answered once /users is there                        *)
(* (NewGroupVC.newInputChange, DataService.getEmail).                    *)
SearchAnswered == Search!SearchAnswered

(* A post made on this phone comes up in its feed, without another act of    *)
(* the user (PostVC.sendPost, FeedVC.viewDidAppear).                         *)
PostComesBack == Feed!PostComesBack
=============================================================================
