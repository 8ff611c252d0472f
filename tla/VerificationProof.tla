-------------------------- MODULE VerificationProof --------------------------
(***************************************************************************)
(* What TLAPS proves of Verification for any users and any number of        *)
(* searches, logins and visits: its type invariant, and that pages and      *)
(* storage speak of the same user unless one was accepted while a list was  *)
(* being fetched.                                                           *)
(*                                                                         *)
(* The invariant follows a list from the request to the page: FetchInv      *)
(* says whose lists are asked for and posted, PageInv whose are stored and  *)
(* shown.                                                                   *)
(***************************************************************************)
EXTENDS Verification, TLAPS

-----------------------------------------------------------------------------
(* The inductive invariant *)

\* Nothing is fetched in front of the main page, and whatever is fetched for a
\* visit without overlap is the user's.
FetchInv ==
    /\ screen = "main" => fetches = 0 /\ pickList = None /\ \A u \in Users : asked[u] = 0
    /\ ~overlap /\ screen # "main" =>
         pickList \in {user, None} /\ \A u \in Users : asked[u] > 0 => u = user
    /\ ~overlap /\ screen \in {"verify", "face"} /\ pickList # None => storedPicks = user

PageInv ==
    /\ screen # "goods" => shown = None
    /\ screen \in {"main", "verify", "face"} => picks = None
    /\ ~overlap /\ screen \in {"pick", "goods"} => {picks, shown, storedPicks} \subseteq {user, None}

IInv == TypeOK /\ FetchInv /\ PageInv

-----------------------------------------------------------------------------
(* Every action keeps the invariant *)

LEMMA InitInv == Init => IInv
  <1> SUFFICES ASSUME Init PROVE IInv
    OBVIOUS
  <1>1. faceUserData \in FaceUsers /\ counts \in Counts
    BY VerifyAssumption DEF Init, FaceUsers, Counts, NoFaceUser
  <1>2. TypeOK
    BY <1>1 DEF Init, TypeOK
  <1>3. FetchInv /\ PageInv
    BY DEF Init, FetchInv, PageInv
  <1> QED
    BY <1>2, <1>3 DEF IInv

\* what is counted stays within its bounds
LEMMA CountsTyped ==
    ASSUME counts \in Counts
    PROVE  /\ counts.searches < MaxSearches => [counts EXCEPT !.searches = @ + 1] \in Counts
           /\ counts.accepts < MaxAccepts => [counts EXCEPT !.accepts = @ + 1] \in Counts
           /\ counts.visits < MaxVisits => [counts EXCEPT !.visits = @ + 1] \in Counts
  BY VerifyAssumption DEF Counts

LEMMA FaceUsersTyped ==
    /\ NoFaceUser \in FaceUsers
    /\ \A v \in Users \union {Unknown} : [value |-> v, fresh |-> TRUE] \in FaceUsers
    /\ \A f \in FaceUsers, b \in BOOLEAN : [f EXCEPT !.fresh = b] \in FaceUsers
  BY DEF FaceUsers, NoFaceUser

LEMMA NextInv == ASSUME IInv, Next PROVE IInv'
  <1> USE NoUserAssumption, CountsTyped, FaceUsersTyped DEF IInv, pages, face, answers, storage
  <1>1. CASE OpenVerify
    <2>1. TypeOK'
      BY <1>1, ZenonT(40) DEF OpenVerify, TypeOK
    <2>2. FetchInv'
      BY <1>1 DEF OpenVerify, TypeOK, FetchInv
    <2>3. PageInv'
      BY <1>1 DEF OpenVerify, TypeOK, FetchInv, PageInv
    <2> QED
      BY <2>1, <2>2, <2>3
  <1>2. CASE DismissLoading
    <2>1. TypeOK'
      BY <1>2, ZenonT(40) DEF DismissLoading, TypeOK
    <2>2. FetchInv'
      BY <1>2 DEF DismissLoading, TypeOK, FetchInv
    <2>3. PageInv'
      BY <1>2 DEF DismissLoading, TypeOK, FetchInv, PageInv
    <2> QED
      BY <2>1, <2>2, <2>3
  <1>3. CASE OpenDialog
    <2>1. TypeOK'
      BY <1>3 DEF OpenDialog, TypeOK
    <2>2. FetchInv'
      BY <1>3 DEF OpenDialog, TypeOK, FetchInv
    <2>3. PageInv'
      BY <1>3 DEF OpenDialog, TypeOK, FetchInv, PageInv
    <2> QED
      BY <2>1, <2>2, <2>3
  <1>4. CASE CloseDialog
    <2>1. TypeOK'
      BY <1>4 DEF CloseDialog, TypeOK
    <2>2. FetchInv'
      BY <1>4 DEF CloseDialog, TypeOK, FetchInv
    <2>3. PageInv'
      BY <1>4 DEF CloseDialog, TypeOK, FetchInv, PageInv
    <2> QED
      BY <2>1, <2>2, <2>3
  <1>5. CASE LeaveVerify
    <2>1. TypeOK'
      BY <1>5 DEF LeaveVerify, Destroyed, TypeOK
    <2>2. FetchInv'
      BY <1>5 DEF LeaveVerify, Destroyed, TypeOK, FetchInv
    <2>3. PageInv'
      BY <1>5 DEF LeaveVerify, Destroyed, TypeOK, FetchInv, PageInv
    <2> QED
      BY <2>1, <2>2, <2>3
  <1>6. CASE RecreateVerify
    <2>1. TypeOK'
      BY <1>6 DEF RecreateVerify, TypeOK
    <2>2. FetchInv'
      BY <1>6 DEF RecreateVerify, TypeOK, FetchInv
    <2>3. PageInv'
      BY <1>6 DEF RecreateVerify, TypeOK, FetchInv, PageInv
    <2> QED
      BY <2>1, <2>2, <2>3
  <1>7. CASE FaceVerify
    <2>1. TypeOK'
      BY <1>7 DEF FaceVerify, TypeOK
    <2>2. FetchInv'
      BY <1>7 DEF FaceVerify, TypeOK, FetchInv
    <2>3. PageInv'
      BY <1>7 DEF FaceVerify, TypeOK, FetchInv, PageInv
    <2> QED
      BY <2>1, <2>2, <2>3
  <1>8. CASE OnLivenessCompletion
    <2>1. TypeOK'
      BY <1>8 DEF OnLivenessCompletion, TypeOK
    <2>2. FetchInv'
      BY <1>8 DEF OnLivenessCompletion, TypeOK, FetchInv
    <2>3. PageInv'
      BY <1>8 DEF OnLivenessCompletion, TypeOK, FetchInv, PageInv
    <2> QED
      BY <2>1, <2>2, <2>3
  <1>9. CASE PauseFace
    <2>1. TypeOK'
      BY <1>9, ZenonT(40) DEF PauseFace, TypeOK
    <2>2. FetchInv'
      BY <1>9 DEF PauseFace, TypeOK, FetchInv
    <2>3. PageInv'
      BY <1>9 DEF PauseFace, TypeOK, FetchInv, PageInv
    <2> QED
      BY <2>1, <2>2, <2>3
  <1>10. CASE LeaveFace
    <2>1. TypeOK'
      BY <1>10, ZenonT(40) DEF LeaveFace, TypeOK
    <2>2. FetchInv'
      BY <1>10 DEF LeaveFace, TypeOK, FetchInv
    <2>3. PageInv'
      BY <1>10 DEF LeaveFace, TypeOK, FetchInv, PageInv
    <2> QED
      BY <2>1, <2>2, <2>3
  <1>11. CASE FaceAnswered
    <2>1. TypeOK'
      <3>1. faceUserData' \in FaceUsers
        BY <1>11 DEF FaceAnswered, TypeOK
      <3>2. screen' \in {"main", "verify", "face", "pick", "goods"} /\ searches' \in Nat
        BY <1>11 DEF FaceAnswered, TypeOK
      <3> QED
        BY <1>11, <3>1, <3>2, ZenonT(40) DEF FaceAnswered, TypeOK
    <2>2. FetchInv'
      BY <1>11 DEF FaceAnswered, TypeOK, FetchInv
    <2>3. PageInv'
      BY <1>11 DEF FaceAnswered, TypeOK, FetchInv, PageInv
    <2> QED
      BY <2>1, <2>2, <2>3
  <1>12. CASE FaceUnanswered
    <2>1. TypeOK'
      BY <1>12 DEF FaceUnanswered, TypeOK
    <2>2. FetchInv'
      BY <1>12 DEF FaceUnanswered, TypeOK, FetchInv
    <2>3. PageInv'
      BY <1>12 DEF FaceUnanswered, TypeOK, FetchInv, PageInv
    <2> QED
      BY <2>1, <2>2, <2>3
  <1>13. CASE OnFaceUser
    <2>1. TypeOK'
      <3>1. faceUserData' \in FaceUsers /\ counts' \in Counts
        BY <1>13 DEF OnFaceUser, OnLoginSuccess, TypeOK
      <3>2. /\ loading' \in BOOLEAN /\ user' \in Users \union {None} /\ fetches' \in Nat
        <4>1. CASE UNCHANGED <<loading, user, fetches>>
          BY <4>1 DEF TypeOK
        <4>2. ASSUME OnLoginSuccess(faceUserData.value), faceUserData.value \in Users
              PROVE  loading' = TRUE /\ user' \in Users /\ fetches' \in Nat
          BY <4>2 DEF OnLoginSuccess, TypeOK
        <4> QED
          BY <1>13, <4>1, <4>2 DEF OnFaceUser
      <3>3. overlap' \in BOOLEAN
        BY <1>13 DEF OnFaceUser, OnLoginSuccess, TypeOK
      <3> QED
        BY <1>13, <3>1, <3>2, <3>3 DEF OnFaceUser, TypeOK
    <2>2. FetchInv'
      <3>1. UNCHANGED <<screen, asked, pickList, storedPicks>> /\ screen = "verify"
        BY <1>13 DEF OnFaceUser
      <3>2. CASE UNCHANGED <<user, overlap>>
        BY <3>1, <3>2 DEF FetchInv
      <3>3. CASE overlap' = (overlap \/ Fetching)
        <4>1. ~overlap' => pickList = None /\ \A u \in Users : ~(asked[u] > 0)
          BY <3>3 DEF Fetching
        <4> QED
          BY <3>1, <4>1 DEF FetchInv
      <3> QED
        BY <1>13, <3>2, <3>3 DEF OnFaceUser, OnLoginSuccess
    <2>3. PageInv'
      BY <1>13 DEF OnFaceUser, OnLoginSuccess, Fetching, TypeOK, FetchInv, PageInv
    <2> QED
      BY <2>1, <2>2, <2>3
  <1>14. CASE ReadUser
    <2>1. TypeOK'
      <3>1. fetches' \in Nat
        BY <1>14 DEF ReadUser, TypeOK
      <3>2. asked' \in [Users -> Nat]
        <4>1. asked \in [Users -> Nat] /\ asked' = [asked EXCEPT ![user] = asked[user] + 1]
          BY <1>14 DEF ReadUser, TypeOK
        <4>2. CASE user \in Users
          BY <4>1, <4>2
        <4>3. CASE user \notin Users
          BY <4>1, <4>3
        <4> QED
          BY <4>2, <4>3
      <3> QED
        BY <1>14, <3>1, <3>2 DEF ReadUser, TypeOK
    <2>2. FetchInv'
      BY <1>14 DEF ReadUser, TypeOK, FetchInv
    <2>3. PageInv'
      BY <1>14 DEF ReadUser, TypeOK, FetchInv, PageInv
    <2> QED
      BY <2>1, <2>2, <2>3
  <1>15. CASE OnLaunchFailed
    <2>1. TypeOK'
      BY <1>15 DEF OnLaunchFailed, TypeOK
    <2>2. FetchInv'
      BY <1>15 DEF OnLaunchFailed, TypeOK, FetchInv
    <2>3. PageInv'
      BY <1>15 DEF OnLaunchFailed, TypeOK, FetchInv, PageInv
    <2> QED
      BY <2>1, <2>2, <2>3
  <1>16. CASE OnPickList
    <2>1. TypeOK'
      BY <1>16 DEF OnPickList, TypeOK
    <2>2. FetchInv'
      BY <1>16 DEF OnPickList, TypeOK, FetchInv
    <2>3. PageInv'
      BY <1>16 DEF OnPickList, TypeOK, FetchInv, PageInv
    <2> QED
      BY <2>1, <2>2, <2>3
  <1>17. CASE VerifyDestroyed
    <2>1. TypeOK'
      BY <1>17 DEF VerifyDestroyed, Destroyed, TypeOK
    <2>2. FetchInv'
      BY <1>17 DEF VerifyDestroyed, Destroyed, TypeOK, FetchInv
    <2>3. PageInv'
      BY <1>17 DEF VerifyDestroyed, Destroyed, TypeOK, FetchInv, PageInv
    <2> QED
      BY <2>1, <2>2, <2>3
  <1>18. CASE PeekPickList
    <2>1. TypeOK'
      BY <1>18 DEF PeekPickList, TypeOK
    <2>2. FetchInv'
      BY <1>18 DEF PeekPickList, TypeOK, FetchInv
    <2>3. PageInv'
      BY <1>18 DEF PeekPickList, TypeOK, FetchInv, PageInv
    <2> QED
      BY <2>1, <2>2, <2>3
  <1>19. CASE RecreatePick
    <2>1. TypeOK'
      BY <1>19 DEF RecreatePick, TypeOK
    <2>2. FetchInv'
      BY <1>19 DEF RecreatePick, TypeOK, FetchInv
    <2>3. PageInv'
      BY <1>19 DEF RecreatePick, TypeOK, FetchInv, PageInv
    <2> QED
      BY <2>1, <2>2, <2>3
  <1>20. CASE OpenSheet
    <2>1. TypeOK'
      BY <1>20 DEF OpenSheet, TypeOK
    <2>2. FetchInv'
      BY <1>20 DEF OpenSheet, TypeOK, FetchInv
    <2>3. PageInv'
      BY <1>20 DEF OpenSheet, TypeOK, FetchInv, PageInv
    <2> QED
      BY <2>1, <2>2, <2>3
  <1>21. CASE LeavePick
    <2>1. TypeOK'
      BY <1>21 DEF LeavePick, Destroyed, TypeOK
    <2>2. FetchInv'
      BY <1>21 DEF LeavePick, Destroyed, TypeOK, FetchInv
    <2>3. PageInv'
      BY <1>21 DEF LeavePick, Destroyed, PageInv
    <2> QED
      BY <2>1, <2>2, <2>3
  <1>22. CASE LeaveGoods
    <2>1. TypeOK'
      BY <1>22 DEF LeaveGoods, Destroyed, TypeOK
    <2>2. FetchInv'
      BY <1>22 DEF LeaveGoods, Destroyed, TypeOK, FetchInv
    <2>3. PageInv'
      BY <1>22 DEF LeaveGoods, Destroyed, TypeOK, FetchInv, PageInv
    <2> QED
      BY <2>1, <2>2, <2>3
  <1>23. ASSUME NEW u \in Users, Login(u) PROVE IInv'
    <2>1. TypeOK'
      BY <1>23 DEF Login, TypeOK
    <2>2. FetchInv'
      BY <1>23 DEF Login, TypeOK, FetchInv
    <2>3. PageInv'
      BY <1>23 DEF Login, TypeOK, FetchInv, PageInv
    <2> QED
      BY <2>1, <2>2, <2>3
  <1>24. ASSUME NEW u \in Users, LoginAccepted(u) PROVE IInv'
    <2>1. TypeOK'
      <3>1. counts' \in Counts
        BY <1>24 DEF LoginAccepted, OnLoginSuccess, TypeOK
      <3>2. /\ fetches' \in Nat /\ overlap' \in BOOLEAN /\ loading' = TRUE /\ user' = u
            /\ dialog' = FALSE /\ logins' = {}
        BY <1>24 DEF LoginAccepted, OnLoginSuccess, TypeOK
      <3> QED
        BY <1>24, <3>1, <3>2 DEF LoginAccepted, TypeOK
    <2>2. FetchInv'
      BY <1>24 DEF LoginAccepted, OnLoginSuccess, Fetching, TypeOK, FetchInv
    <2>3. PageInv'
      BY <1>24 DEF LoginAccepted, OnLoginSuccess, Fetching, TypeOK, FetchInv, PageInv
    <2> QED
      BY <2>1, <2>2, <2>3
  <1>25. ASSUME NEW u \in Users, LoginFailed(u) PROVE IInv'
    <2>1. TypeOK'
      BY <1>25, ZenonT(40) DEF LoginFailed, TypeOK
    <2>2. FetchInv'
      BY <1>25 DEF LoginFailed, TypeOK, FetchInv
    <2>3. PageInv'
      BY <1>25 DEF LoginFailed, TypeOK, FetchInv, PageInv
    <2> QED
      BY <2>1, <2>2, <2>3
  <1>26. ASSUME NEW u \in Users, PickListAnswered(u) PROVE IInv'
    <2>1. TypeOK'
      BY <1>26 DEF PickListAnswered, TypeOK
    <2>2. FetchInv'
      BY <1>26 DEF PickListAnswered, TypeOK, FetchInv
    <2>3. PageInv'
      BY <1>26 DEF PickListAnswered, TypeOK, FetchInv, PageInv
    <2> QED
      BY <2>1, <2>2, <2>3
  <1>27. ASSUME NEW u \in Users, PickListFailed(u) PROVE IInv'
    <2>1. TypeOK'
      BY <1>27 DEF PickListFailed, TypeOK
    <2>2. FetchInv'
      BY <1>27 DEF PickListFailed, TypeOK, FetchInv
    <2>3. PageInv'
      BY <1>27 DEF PickListFailed, TypeOK, FetchInv, PageInv
    <2> QED
      BY <2>1, <2>2, <2>3
  <1> QED
    BY <1>1, <1>2, <1>3, <1>4, <1>5, <1>6, <1>7, <1>8, <1>9, <1>10, <1>11, <1>12, <1>13, <1>14, <1>15, <1>16, <1>17, <1>18, <1>19, <1>20, <1>21, <1>22, <1>23, <1>24, <1>25, <1>26, <1>27 DEF Next

LEMMA Inductive == Spec => []IInv
  <1>1. IInv /\ UNCHANGED vars => IInv'
    BY DEF vars, pages, answers, face, storage, IInv, TypeOK, FetchInv, PageInv
  <1> QED
    BY <1>1, InitInv, NextInv, PTL DEF Spec

-----------------------------------------------------------------------------
(* The theorems *)

\* The type invariant.
THEOREM TypeCorrect == Spec => []TypeOK
  <1>1. IInv => TypeOK
    BY DEF IInv
  <1> QED
    BY <1>1, Inductive, PTL

\* The pick sheets, and the sheet shown, are those of the user in the storage, for
\* any users, faces, logins and visits, unless a user was accepted while a list was
\* being fetched: getPickList's late reading of the user, PickListActivity's reading
\* of the cache and pages made anew are no other way to mix them.
THEOREM SheetsAreTheUsers == Spec => []OnlyOverlapMixesUsers
  <1>1. IInv => OnlyOverlapMixesUsers
    BY DEF IInv, PageInv, OnlyOverlapMixesUsers
  <1> QED
    BY <1>1, Inductive, PTL

=============================================================================
