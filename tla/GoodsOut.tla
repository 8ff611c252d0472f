------------------------------ MODULE GoodsOut ------------------------------
(***************************************************************************)
(* The goods page: GoodsListActivity, its GoodsListAdapter and              *)
(* GoodsViewModel.  Goods of the pick sheet are scanned into the adapter's  *)
(* list, and the list is sent to the server as taken out of the store.      *)
(*                                                                         *)
(* BaseViewModel.launch runs a request on an IO thread and its onSuccess on *)
(* the main thread, which posts a value to a LiveData: the observer runs    *)
(* later on, and a value posted before then replaces the one before it.     *)
(* Requests overlap, as the user can close the progress dialog, and as one  *)
(* answer closes it for all of them.                                       *)
(***************************************************************************)
EXTENDS Integers, Sequences, FiniteSets, SequencesExt

CONSTANTS
    Goods,         \* goods whose code can be scanned
    Rows,          \* those on the pick sheet
    MaxInFlight    \* bound: requests and messages under way when the user acts

ASSUME GoodsAssumption == Rows \subseteq Goods /\ MaxInFlight \in Nat

VARIABLES
    goodsList,    \* GoodsViewModel's goods
    data,         \* the adapter's list
    waiting,      \* goodsLoading: the progress dialog is shown
    confirm,      \* the dialog that asks: what, and for a deletion the position, and the goods there
    page,         \* "list" or "success"
    listing,      \* getGoodsList requests under way
    scanning,     \* scanGoodsCode requests under way, by goods
    out,          \* the outStore request: how far it is, what it has read of the list, and
                  \* whether the list was changed while it was read; confirmed, a ghost,
                  \* is the list it must have: the one confirmed, none once goods are deleted
    queue,        \* the main thread's messages: onSuccess calls and deliveries
    posted,       \* values posted and not delivered, by LiveData
    kept          \* values delivered that are delivered again to an activity made anew

requests == <<listing, scanning, out>>
liveData == <<posted, kept>>
vars == <<goodsList, data, waiting, confirm, page, requests, queue, liveData>>

Kinds == {"list", "scan", "out", "fail"}
Nothing == [kind |-> "none"]
ListAnswer == [kind |-> "list"]
Failure == [kind |-> "fail"]
ScanAnswer(g, found) == [kind |-> "scan", goods |-> g, found |-> found]
OutAnswer(success) == [kind |-> "out", success |-> success]
Answers ==
    {ListAnswer, Failure} \union {OutAnswer(b) : b \in BOOLEAN}
      \union {ScanAnswer(g, b) : g \in Goods, b \in BOOLEAN}

Return(a) == [deliver |-> FALSE, answer |-> a]          \* onSuccess, or onFailure
Delivery(kind) == [deliver |-> TRUE, kind |-> kind]
Messages == {Return(a) : a \in Answers} \union {Delivery(k) : k \in Kinds}

Listed == ToSet(data)
NoDialog == [what |-> "none"]
OutRequests ==
    [stage : {"none", "start", "build", "sent"}, rows : Seq(Goods), confirmed : Seq(Goods),
     changed : BOOLEAN]
NoOut == [stage |-> "none", rows |-> <<>>, confirmed |-> <<>>, changed |-> FALSE]

TypeOK ==
    /\ goodsList \subseteq Goods /\ data \in Seq(Goods)
    /\ waiting \in BOOLEAN /\ page \in {"list", "success"}
    /\ confirm \in [what : {"none", "out"}]
                     \union [what : {"delete"}, at : Nat \ {0}, goods : Goods]
    /\ listing \in Nat /\ scanning \in [Goods -> Nat]
    /\ out \in OutRequests
    /\ queue \in Seq(Messages)
    /\ posted \in [Kinds -> Answers \union {Nothing}]
    /\ kept \in [some : BOOLEAN, goods : {<<>>} \union {<<g>> : g \in Goods}, success : BOOLEAN]

NothingPosted == [k \in Kinds |-> Nothing]
NothingKept == [some |-> FALSE, goods |-> <<>>, success |-> FALSE]

\* initData has asked for the goods of the sheet
Init ==
    /\ goodsList = {} /\ data = <<>> /\ waiting = TRUE /\ confirm = NoDialog /\ page = "list"
    /\ listing = 1 /\ scanning = [g \in Goods |-> 0] /\ out = NoOut /\ queue = <<>>
    /\ posted = NothingPosted /\ kept = NothingKept

-----------------------------------------------------------------------------
(* The user *)

InFlight == listing + SumFunction(scanning) + Len(queue) + (IF out = NoOut THEN 0 ELSE 1)
InFront == ~waiting /\ confirm = NoDialog /\ page = "list"

DismissWaiting ==
    /\ waiting /\ waiting' = FALSE
    /\ UNCHANGED <<goodsList, data, confirm, page, requests, queue, liveData>>

\* onScanResult, of the scanner or of the code dialog
OnScanResult(g) ==
    /\ InFront /\ InFlight < MaxInFlight
    /\ waiting' = TRUE /\ scanning' = [scanning EXCEPT ![g] = @ + 1]
    /\ UNCHANGED <<goodsList, data, confirm, page, listing, out, queue, liveData>>

DoDelGoods(p) ==
    /\ InFront /\ p \in DOMAIN data
    /\ confirm' = [what |-> "delete", at |-> p, goods |-> data[p]]
    /\ UNCHANGED <<goodsList, data, waiting, page, requests, queue, liveData>>

DoOutStore ==
    /\ InFront /\ data # <<>>
    /\ confirm' = [what |-> "out"]
    /\ UNCHANGED <<goodsList, data, waiting, page, requests, queue, liveData>>

Cancel ==
    /\ confirm # NoDialog /\ confirm' = NoDialog
    /\ UNCHANGED <<goodsList, data, waiting, page, requests, queue, liveData>>

\* a structural change of the list, as an iterator on it sees it
Changed(removal) ==
    out' = [out EXCEPT !.changed = @ \/ out.stage = "build",
                       !.confirmed = IF removal THEN <<>> ELSE @]

ConfirmDelete ==
    /\ confirm.what = "delete" /\ confirm' = NoDialog
    /\ confirm.at \in DOMAIN data
    /\ data' = RemoveAt(data, confirm.at) /\ Changed(TRUE)
    /\ UNCHANGED <<goodsList, waiting, page, listing, scanning, queue, liveData>>

\* the request is given the adapter's list, not a copy (bound: one at a time)
ConfirmOut ==
    /\ confirm.what = "out" /\ confirm' = NoDialog
    /\ out = NoOut /\ InFlight < MaxInFlight /\ out' = [NoOut EXCEPT !.stage = "start", !.confirmed = data]
    /\ waiting' = TRUE
    /\ UNCHANGED <<goodsList, data, page, listing, scanning, queue, liveData>>

-----------------------------------------------------------------------------
(* The requests, on IO threads *)

Answer(a) == queue' = Append(queue, Return(a))

ListAnswered ==
    /\ listing > 0 /\ listing' = listing - 1
    /\ Answer(ListAnswer) \/ Answer(Failure)
    /\ UNCHANGED <<goodsList, data, waiting, confirm, page, scanning, out, liveData>>

\* the goods are looked up in the ViewModel's list when the server has answered
ScanAnswered(g) ==
    /\ scanning[g] > 0 /\ scanning' = [scanning EXCEPT ![g] = @ - 1]
    /\ Answer(ScanAnswer(g, g \in goodsList)) \/ Answer(Failure)
    /\ UNCHANGED <<goodsList, data, waiting, confirm, page, listing, out, liveData>>

\* variant: the last element is not waited for
HasNextButLast == Len(out.rows) + 1 < Len(data)
HasNext == Len(out.rows) # Len(data)

\* the iterator fails if the list was changed since the iteration began
OutStore ==
    /\ \/ /\ out.stage = "start" /\ out' = [out EXCEPT !.stage = "build"] /\ UNCHANGED queue
       \/ /\ out.stage = "build" /\ HasNext /\ ~out.changed
          /\ out' = [out EXCEPT !.rows = Append(@, data[Len(@) + 1])] /\ UNCHANGED queue
       \/ /\ out.stage = "build" /\ HasNext /\ out.changed
          /\ out' = NoOut /\ Answer(Failure)
       \/ /\ out.stage = "build" /\ ~HasNext
          /\ out' = [out EXCEPT !.stage = "sent"] /\ UNCHANGED queue
       \/ /\ out.stage = "sent" /\ out' = NoOut
          /\ Answer(Failure) \/ \E success \in BOOLEAN : Answer(OutAnswer(success))
    /\ UNCHANGED <<goodsList, data, waiting, confirm, page, listing, scanning, liveData>>

-----------------------------------------------------------------------------
(* The main thread *)

\* onSuccess and onFailure: postValue, which posts a delivery if none is posted
OnReturn ==
    /\ queue # <<>> /\ ~Head(queue).deliver
    /\ LET a == Head(queue).answer
       IN /\ posted' = [posted EXCEPT ![a.kind] = a]
          /\ queue' = IF posted[a.kind] = Nothing
                      THEN Append(Tail(queue), Delivery(a.kind)) ELSE Tail(queue)
          /\ goodsList' = IF a = ListAnswer THEN Rows ELSE goodsList
    /\ UNCHANGED <<data, waiting, confirm, page, requests, kept>>

\* variant: the goods are put on top of the list
AddOrReplaceFirst(g) ==
    IF g \in Listed THEN UNCHANGED <<data, out>> ELSE data' = <<g>> \o data /\ Changed(FALSE)
\* variant: the goods are not looked for
AddOrReplaceAdd(g) == data' = Append(data, g) /\ Changed(FALSE)
\* the goods take the place of the same goods: its entry is all that differs
AddOrReplace(g) ==
    IF g \in Listed THEN UNCHANGED <<data, out>> ELSE data' = Append(data, g) /\ Changed(FALSE)

Keep(a) ==
    kept' = [some |-> TRUE,
             goods |-> IF a.kind # "scan" THEN kept.goods ELSE IF a.found THEN <<a.goods>> ELSE <<>>,
             success |-> IF a.kind # "out" THEN kept.success ELSE a.success]

\* variant: launchLiveData's observer does not hide the progress dialog
DeliverFailureKept ==
    /\ queue # <<>> /\ Head(queue).deliver /\ queue' = Tail(queue)
    /\ LET a == posted[Head(queue).kind]
       IN /\ posted' = [posted EXCEPT ![a.kind] = Nothing] /\ Keep(a)
          /\ IF a.kind = "scan" /\ a.found THEN AddOrReplace(a.goods) ELSE UNCHANGED <<data, out>>
          /\ page' = IF a = OutAnswer(TRUE) THEN "success" ELSE page
          /\ waiting' = (a = Failure /\ waiting)
    /\ UNCHANGED <<goodsList, confirm, listing, scanning>>

\* the observers
Deliver ==
    /\ queue # <<>> /\ Head(queue).deliver /\ queue' = Tail(queue)
    /\ LET a == posted[Head(queue).kind]
       IN /\ posted' = [posted EXCEPT ![a.kind] = Nothing] /\ Keep(a)
          /\ IF a.kind = "scan" /\ a.found THEN AddOrReplace(a.goods) ELSE UNCHANGED <<data, out>>
          /\ page' = IF a = OutAnswer(TRUE) THEN "success" ELSE page
    /\ waiting' = FALSE
    /\ UNCHANGED <<goodsList, confirm, listing, scanning>>

\* The activity is created anew: its list is empty, its dialogs are gone or do
\* nothing, and the values kept are delivered to it.  Not while the old list is read.
RecreateGoods ==
    /\ InFlight < MaxInFlight /\ out.stage \in {"none", "sent"}
    /\ data' = kept.goods
    /\ page' = IF kept.success THEN "success" ELSE "list"
    /\ confirm' = NoDialog /\ listing' = listing + 1
    /\ waiting' = ~kept.some
    /\ UNCHANGED <<goodsList, scanning, out, queue, liveData>>

-----------------------------------------------------------------------------

User ==
    \/ DismissWaiting \/ DoOutStore \/ Cancel \/ ConfirmDelete \/ ConfirmOut
    \/ \E g \in Goods : OnScanResult(g)
    \/ \E p \in DOMAIN data : DoDelGoods(p)
IO == ListAnswered \/ OutStore \/ \E g \in Goods : ScanAnswered(g)
Main == OnReturn \/ Deliver

Next == User \/ IO \/ Main \/ RecreateGoods

\* every request is answered or times out; the main thread handles its messages
Spec ==
    /\ Init /\ [][Next]_vars
    /\ WF_vars(OnReturn) /\ WF_vars(Deliver)
    /\ WF_vars(ListAnswered) /\ WF_vars(OutStore)
    /\ \A g \in Goods : WF_vars(ScanAnswered(g))

-----------------------------------------------------------------------------
(* Properties *)

\* The list has goods of the sheet only, and each of them once, whatever answers come
\* in which order, and after the page was created anew.
ListIsOfSheet == Listed \subseteq Rows /\ Cardinality(Listed) = Len(data)

\* The position a deletion was asked for is still that of the goods chosen when it is
\* confirmed: the answers that doDelGoods's dialog lets in between do not move it.
DeleteHitsChosen ==
    confirm.what = "delete" => confirm.at \in DOMAIN data /\ data[confirm.at] = confirm.goods

\* A request to take out has every goods that was listed when it was confirmed, unless
\* some were deleted since: one whose list grows while outStore reads it is not sent.
SentHasConfirmed == out.stage = "sent" => IsPrefix(out.confirmed, out.rows)

\* The page's progress dialog ends: every observer hides it.
WaitingEnds == waiting ~> ~waiting
=============================================================================
