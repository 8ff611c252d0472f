---------------------------- MODULE Verification ----------------------------
(***************************************************************************)
(* How a user gets from the main page to a pick sheet: VerifyModeActivity   *)
(* with its LoginViewModel and PickViewModel, the LoginDialog, the face     *)
(* activity with FaceManager and FaceService, and PickListActivity.         *)
(*                                                                         *)
(* Everything runs on the main thread but for the bodies of the requests:   *)
(* a request's body runs on an IO thread and its answer comes back to the   *)
(* main thread.  A LiveData keeps the last value posted and delivers it to  *)
(* an activity that is in front, also to one that was created anew.         *)
(*                                                                         *)
(* A user's pick sheets are told apart by their user only; Single is the    *)
(* set of users who have exactly one.                                       *)
(***************************************************************************)
EXTENDS Integers, FiniteSets

CONSTANTS
    Users,        \* users the servers know
    Single,       \* those with one pick sheet
    MaxSearches,  \* bound: faces sent to the face service
    MaxAccepts,   \* bound: acceptances of a user
    MaxVisits     \* bound: times the verify page is opened

ASSUME VerifyAssumption ==
    /\ Single \subseteq Users
    /\ MaxSearches \in Nat /\ MaxAccepts \in Nat /\ MaxVisits \in Nat

None == "none"     \* no user, no value
Unknown == "null"  \* what LoginViewModel.onError posts
ASSUME NoUserAssumption == {None, Unknown} \intersect Users = {}

VARIABLES
    screen,        \* the page in front: "main", "verify", "face", "pick" or "goods"
    loading,       \* the progress dialog of the page in front
    dialog,        \* the LoginDialog is open
    logins,        \* users whose login is being asked for
    mIsCompletion, \* the face activity has had its face
    searches,      \* faces at the face service
    registered,    \* the LoginViewModel is in faceVerifyCallBacks
    faceUserData,  \* value, and whether it is still to be delivered
    user,          \* Storage's USER
    fetches,       \* getPickList calls that have yet to read the user
    asked,         \* users whose pick list is being asked for, each with a count
    storedPicks,   \* Storage's PICK_LIST: whose list it is
    pickList,      \* pickListLiveData, still to be delivered
    failed,        \* launchLiveData has a failure to deliver
    peeking,       \* PickListActivity has yet to be given the list it asked for
    picks,         \* whose list it shows
    shown,         \* whose sheet the goods page shows
    counts,        \* searches, acceptances and visits so far
    overlap        \* ghost: a user was accepted while a list was being fetched

answers == <<faceUserData, pickList, failed>>
face    == <<mIsCompletion, searches, registered>>
storage == <<user, storedPicks>>
pages   == <<screen, peeking, picks, shown>>
vars == <<pages, loading, dialog, logins, face, answers, storage, fetches, asked, counts, overlap>>

FaceUsers == [value : Users \union {None, Unknown}, fresh : BOOLEAN]
Counts == [searches : 0 .. MaxSearches, accepts : 0 .. MaxAccepts, visits : 0 .. MaxVisits]

TypeOK ==
    /\ screen \in {"main", "verify", "face", "pick", "goods"}
    /\ loading \in BOOLEAN /\ dialog \in BOOLEAN /\ logins \subseteq Users
    /\ mIsCompletion \in BOOLEAN /\ searches \in Nat /\ registered \in BOOLEAN
    /\ faceUserData \in FaceUsers
    /\ user \in Users \union {None} /\ storedPicks \in Users \union {None}
    /\ fetches \in Nat /\ asked \in [Users -> Nat]
    /\ pickList \in Users \union {None} /\ failed \in BOOLEAN
    /\ peeking \in BOOLEAN /\ picks \in Users \union {None} /\ shown \in Users \union {None}
    /\ counts \in Counts
    /\ overlap \in BOOLEAN

NoFaceUser == [value |-> None, fresh |-> FALSE]

Init ==
    /\ screen = "main" /\ loading = FALSE /\ dialog = FALSE /\ logins = {}
    /\ mIsCompletion = FALSE /\ searches = 0 /\ registered = FALSE
    /\ faceUserData = NoFaceUser /\ user = None /\ storedPicks = None
    /\ fetches = 0 /\ asked = [u \in Users |-> 0]
    /\ pickList = None /\ failed = FALSE
    /\ peeking = FALSE /\ picks = None /\ shown = None
    /\ counts = [searches |-> 0, accepts |-> 0, visits |-> 0] /\ overlap = FALSE

Fetching == fetches > 0 \/ pickList # None \/ \E u \in Users : asked[u] > 0

\* a page that was finished is destroyed, its ViewModels cleared, when the next is up
Destroyed ==
    /\ registered' = FALSE /\ faceUserData' = NoFaceUser /\ pickList' = None /\ failed' = FALSE
    /\ fetches' = 0 /\ asked' = [u \in Users |-> 0]

-----------------------------------------------------------------------------
(* The verify page *)

\* MainActivity's button
OpenVerify ==
    /\ screen = "main" /\ counts.visits < MaxVisits
    /\ screen' = "verify" /\ counts' = [counts EXCEPT !.visits = @ + 1]
    /\ overlap' = FALSE
    /\ UNCHANGED <<loading, dialog, logins, face, answers, storage, fetches, asked, peeking, picks,
                   shown>>

\* the user closes the progress dialog, as any AlertDialog
DismissLoading ==
    /\ loading /\ screen = "verify" /\ loading' = FALSE
    /\ UNCHANGED <<pages, dialog, logins, face, answers, storage, fetches, asked, counts, overlap>>

OnLoginSuccess(u) ==
    /\ counts.accepts < MaxAccepts
    /\ loading' = TRUE /\ user' = u /\ fetches' = fetches + 1
    /\ overlap' = (overlap \/ Fetching)
    /\ counts' = [counts EXCEPT !.accepts = @ + 1]

OpenDialog ==
    /\ screen = "verify" /\ ~dialog /\ ~loading /\ dialog' = TRUE
    /\ UNCHANGED <<pages, loading, logins, face, answers, storage, fetches, asked, counts, overlap>>

\* LoginDialog.doLogin
Login(u) ==
    /\ screen = "verify" /\ dialog /\ ~loading /\ u \notin logins
    /\ loading' = TRUE /\ logins' = logins \union {u}
    /\ UNCHANGED <<pages, dialog, face, answers, storage, fetches, asked, counts, overlap>>

\* the dialog is dismissed, its LoginViewModel cleared
CloseDialog ==
    /\ screen = "verify" /\ dialog /\ ~loading
    /\ dialog' = FALSE /\ logins' = {}
    /\ UNCHANGED <<pages, loading, face, answers, storage, fetches, asked, counts, overlap>>

LoginAccepted(u) ==
    /\ screen = "verify" /\ u \in logins
    /\ OnLoginSuccess(u) /\ dialog' = FALSE /\ logins' = {}
    /\ UNCHANGED <<pages, face, answers, storedPicks, asked>>

\* refused, or no answer
LoginFailed(u) ==
    /\ screen = "verify" /\ u \in logins
    /\ logins' = logins \ {u} /\ loading' = FALSE
    /\ UNCHANGED <<pages, dialog, face, answers, storage, fetches, asked, counts, overlap>>

\* store_verify_cancel, or back
LeaveVerify ==
    /\ screen = "verify" /\ ~dialog /\ ~loading
    /\ screen' = "main" /\ Destroyed
    /\ UNCHANGED <<loading, dialog, logins, mIsCompletion, searches, storage, peeking, picks, shown,
                   counts, overlap>>

\* the activity is created anew, as when a keyboard is plugged in (not with the
\* dialog open: it cannot be made anew)
RecreateVerify ==
    /\ screen = "verify" /\ ~dialog
    /\ loading' = FALSE /\ faceUserData' = [faceUserData EXCEPT !.fresh = (faceUserData.value # None)]
    /\ UNCHANGED <<pages, dialog, logins, face, pickList, failed, storage, fetches, asked, counts,
                   overlap>>

-----------------------------------------------------------------------------
(* The face activity *)

\* doFaceVerify: both the LoginViewModel and the activity are registered
FaceVerify ==
    /\ screen = "verify" /\ ~dialog /\ ~loading
    /\ screen' = "face" /\ registered' = TRUE /\ mIsCompletion' = FALSE
    /\ UNCHANGED <<loading, dialog, logins, searches, answers, storage, fetches, asked, peeking,
                   picks, shown, counts, overlap>>

\* onLivenessCompletion: the best image goes to FaceManager.verify
OnLivenessCompletion ==
    /\ screen = "face" /\ ~mIsCompletion /\ counts.searches < MaxSearches
    /\ mIsCompletion' = TRUE /\ searches' = searches + 1
    /\ counts' = [counts EXCEPT !.searches = @ + 1]
    /\ UNCHANGED <<pages, loading, dialog, logins, registered, answers, storage, fetches, asked,
                   overlap>>

\* onPause, and back in front
PauseFace ==
    /\ screen = "face" /\ mIsCompletion /\ mIsCompletion' = FALSE
    /\ UNCHANGED <<pages, loading, dialog, logins, searches, registered, answers, storage, fetches,
                   asked, counts, overlap>>

LeaveFace ==
    /\ screen = "face" /\ screen' = "verify" /\ mIsCompletion' = FALSE
    /\ UNCHANGED <<loading, dialog, logins, searches, registered, answers, storage, fetches, asked,
                   peeking, picks, shown, counts, overlap>>

\* every callback that is registered is called: the face activity finishes, the
\* LoginViewModel posts what it is given
FaceAnswered ==
    /\ searches > 0 /\ searches' = searches - 1
    /\ \E value \in Users \union {Unknown} :
         faceUserData' = IF registered THEN [value |-> value, fresh |-> TRUE] ELSE faceUserData
    /\ screen' = IF screen = "face" THEN "verify" ELSE screen
    /\ mIsCompletion' = FALSE
    /\ UNCHANGED <<loading, dialog, logins, registered, pickList, failed, storage, fetches, asked,
                   peeking, picks, shown, counts, overlap>>

\* request's error callback is the default one, which does nothing
FaceUnanswered ==
    /\ searches > 0 /\ searches' = searches - 1
    /\ UNCHANGED <<pages, loading, dialog, logins, mIsCompletion, registered, answers, storage,
                   fetches, asked, counts, overlap>>

\* faceUserData's observer
OnFaceUser ==
    /\ screen = "verify" /\ faceUserData.fresh
    /\ faceUserData' = [faceUserData EXCEPT !.fresh = FALSE]
    /\ \/ faceUserData.value = Unknown /\ UNCHANGED <<loading, user, fetches, overlap, counts>>
       \/ faceUserData.value \in Users /\ OnLoginSuccess(faceUserData.value)
    /\ UNCHANGED <<pages, dialog, logins, face, pickList, failed, storedPicks, asked>>

-----------------------------------------------------------------------------
(* PickViewModel *)

\* getPickList reads the user on the IO thread
ReadUser ==
    /\ fetches > 0 /\ fetches' = fetches - 1
    /\ asked' = [asked EXCEPT ![user] = @ + 1]
    /\ UNCHANGED <<pages, loading, dialog, logins, face, answers, storage, counts, overlap>>

\* variant: a list in the cache is not replaced
PickListAnsweredCached(u) ==
    /\ asked[u] > 0 /\ asked' = [asked EXCEPT ![u] = @ - 1]
    /\ storedPicks' = (IF storedPicks = None THEN u ELSE storedPicks) /\ pickList' = u
    /\ UNCHANGED <<pages, loading, dialog, logins, face, faceUserData, failed, user, fetches, counts,
                   overlap>>

\* the answer is stored, and posted
PickListAnswered(u) ==
    /\ asked[u] > 0 /\ asked' = [asked EXCEPT ![u] = @ - 1]
    /\ storedPicks' = u /\ pickList' = u
    /\ UNCHANGED <<pages, loading, dialog, logins, face, faceUserData, failed, user, fetches, counts,
                   overlap>>

PickListFailed(u) ==
    /\ asked[u] > 0 /\ asked' = [asked EXCEPT ![u] = @ - 1]
    /\ failed' = TRUE
    /\ UNCHANGED <<pages, loading, dialog, logins, face, faceUserData, pickList, storage, fetches,
                   counts, overlap>>

\* variant: the progress dialog stays
OnLaunchFailedKept ==
    /\ screen = "verify" /\ failed /\ failed' = FALSE
    /\ UNCHANGED <<pages, loading, dialog, logins, face, faceUserData, pickList, storage, fetches,
                   asked, counts, overlap>>

OnLaunchFailed ==
    /\ screen = "verify" /\ failed /\ failed' = FALSE /\ loading' = FALSE
    /\ UNCHANGED <<pages, dialog, logins, face, faceUserData, pickList, storage, fetches, asked,
                   counts, overlap>>

\* one pick sheet: to the goods page; else to the page of pick sheets
OnPickList ==
    /\ screen = "verify" /\ pickList # None
    /\ pickList' = None /\ loading' = FALSE /\ dialog' = FALSE /\ logins' = {}
    /\ IF pickList \in Single
       THEN screen' = "goods" /\ shown' = pickList /\ UNCHANGED peeking
       ELSE screen' = "pick" /\ peeking' = TRUE /\ UNCHANGED shown
    /\ UNCHANGED <<picks, face, faceUserData, failed, storage, fetches, asked, counts, overlap>>

\* the verify page, which was finished, is gone
VerifyDestroyed ==
    /\ screen \in {"pick", "goods"} /\ Destroyed
    /\ UNCHANGED <<pages, loading, dialog, logins, mIsCompletion, searches, storage, counts, overlap>>

\* peekPickList: the list is taken from the cache, and the cache wiped
PeekPickList ==
    /\ screen = "pick" /\ peeking /\ peeking' = FALSE
    /\ picks' = storedPicks /\ storedPicks' = None
    /\ UNCHANGED <<screen, shown, loading, dialog, logins, face, answers, user, fetches, asked,
                   counts, overlap>>

\* created anew, the page shows its list, and asks the wiped cache for it again
RecreatePick ==
    /\ screen = "pick" /\ ~peeking /\ peeking' = TRUE
    /\ UNCHANGED <<screen, picks, shown, loading, dialog, logins, face, answers, storage, fetches,
                   asked, counts, overlap>>

OpenSheet ==
    /\ screen = "pick" /\ picks \in Users
    /\ screen' = "goods" /\ shown' = picks
    /\ UNCHANGED <<peeking, picks, loading, dialog, logins, face, answers, storage, fetches, asked, counts,
                   overlap>>

LeavePick ==
    /\ screen = "pick" /\ screen' = "main" /\ peeking' = FALSE /\ picks' = None /\ Destroyed
    /\ UNCHANGED <<shown, loading, dialog, logins, mIsCompletion, searches, storage, counts, overlap>>

\* back from the goods page, or goHome, which leaves the pages between
LeaveGoods ==
    /\ screen = "goods" /\ shown' = None
    /\ \/ screen' = "pick" /\ picks # None /\ UNCHANGED <<peeking, picks>>
       \/ screen' = "main" /\ peeking' = FALSE /\ picks' = None
    /\ Destroyed
    /\ UNCHANGED <<loading, dialog, logins, mIsCompletion, searches, storage, counts, overlap>>

-----------------------------------------------------------------------------

Next ==
    \/ OpenVerify \/ DismissLoading \/ OpenDialog \/ CloseDialog \/ LeaveVerify \/ RecreateVerify
    \/ FaceVerify \/ OnLivenessCompletion \/ PauseFace \/ LeaveFace \/ FaceAnswered \/ FaceUnanswered
    \/ OnFaceUser \/ ReadUser \/ OnLaunchFailed \/ OnPickList \/ VerifyDestroyed
    \/ PeekPickList \/ RecreatePick \/ OpenSheet \/ LeavePick \/ LeaveGoods
    \/ \E u \in Users :
         Login(u) \/ LoginAccepted(u) \/ LoginFailed(u) \/ PickListAnswered(u) \/ PickListFailed(u)

\* a request of the application is answered or fails, and the page in front is given what
\* is posted; the user need not do anything, and the face service need not answer
Spec ==
    /\ Init /\ [][Next]_vars
    /\ WF_vars(ReadUser) /\ WF_vars(OnPickList) /\ WF_vars(OnLaunchFailed)
    /\ \A u \in Users :
         /\ WF_vars(LoginAccepted(u) \/ LoginFailed(u))
         /\ WF_vars(PickListAnswered(u) \/ PickListFailed(u))

-----------------------------------------------------------------------------
(* Properties *)

\* The pick sheets and the sheet shown are those of the user in the storage, in whose
\* name goods are booked: getPickList reads the user when it runs, and PickListActivity
\* reads the cache when it starts.  A user accepted while a list is fetched breaks this.
OnlyOverlapMixesUsers == ~overlap /\ screen \in {"pick", "goods"} => {picks, shown} \subseteq {user, None}

\* The progress dialog of the verify page ends, as every request that showed it, or the
\* fetch that follows a login, hides it or ends the page.
LoadingEnds == loading ~> ~loading
=============================================================================
