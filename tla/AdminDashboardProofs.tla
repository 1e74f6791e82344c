------------------------ MODULE AdminDashboardProofs ------------------------
(***************************************************************************)
(* Theorems about the approval panel, for any number of approvals and of   *)
(* refreshes and calls under way.                                          *)
(***************************************************************************)
EXTENDS AdminDashboard, TLAPS

Calls == [at : {"none", "sent", "answered"}, approval : Approvals \cup {"none"},
          action : ButtonNames \cup {"none"}, ok : BOOLEAN, drawn : BOOLEAN, wiped : BOOLEAN]

\* Type correctness, and a call that is under way is about an approval.
TypeInv ==
    /\ listed \in [Approvals -> Listings]
    /\ adminToken \in BOOLEAN
    /\ approverToken \in BOOLEAN
    /\ approvals \in [Approvals -> Listings]
    /\ uiState \in [Approvals -> UiStates]
    /\ buttons \in [Approvals -> SUBSET ButtonNames]
    /\ revived \in [Approvals -> BOOLEAN]
    /\ refreshing \in [Refreshes -> [at : {"none", "asked", "answered"},
                                     list : [Approvals -> Listings]]]
    /\ clicked \in [Clicks -> Calls]
    /\ \A c \in Clicks : clicked[c].at # "none" => clicked[c].approval \in Approvals

\* A call keeps its approval marked, with no button to press, until the mark is
\* wiped; the item it was made from stays on display only under the admin token.
CallsAreMarked ==
    \A c \in Clicks : clicked[c].at # "none" =>
        /\ ~clicked[c].wiped => /\ uiState[clicked[c].approval] = "processing"
                                /\ buttons[clicked[c].approval] = {}
        /\ clicked[c].drawn => adminToken

PanelInv == TypeInv /\ CallsAreMarked /\ OneCallPerApproval /\ ButtonsAreBacked

----------------------------------------------------------------------------
(* What the operators of the panel return.                                 *)

\* The buttons of an item that is drawn are offered and authorized, which they
\* only are under the admin token; a marked item has none, nor has one that is
\* no longer listed.
LEMMA EnabledIsBacked ==
    ASSUME NEW listing \in Listings, NEW status \in UiStates,
           NEW admin \in BOOLEAN, NEW approver \in BOOLEAN
    PROVE  /\ Enabled(listing, status, admin, approver) \subseteq ButtonNames
           /\ Enabled(listing, status, admin, approver)
                  \subseteq Offered(listing) \cap Authorized(admin, approver)
           /\ status = "processing" => Enabled(listing, status, admin, approver) = {}
           /\ Enabled(listing, status, admin, approver) # {} => admin
           /\ listing = "gone" => Enabled(listing, status, admin, approver) = {}
  BY DEF Enabled, Authorized, Offered, Listings, ButtonNames

LEMMA PresentType ==
    ASSUME NEW listing \in Listings
    PROVE  Present(listing) \subseteq ButtonNames
  BY DEF Present, Listings, ButtonNames

\* Drawing all items keeps the buttons backed and gives marked items none.
LEMMA RenderBacked ==
    ASSUME TypeInv, RenderApprovals,
           approvals' \in [Approvals -> Listings],
           uiState' \in [Approvals -> UiStates],
           adminToken' \in BOOLEAN, approverToken' \in BOOLEAN
    PROVE  /\ buttons' \in [Approvals -> SUBSET ButtonNames]
           /\ revived' \in [Approvals -> BOOLEAN]
           /\ ButtonsAreBacked'
           /\ \A a \in Approvals : uiState'[a] = "processing" => buttons'[a] = {}
<1>1. ASSUME NEW a \in Approvals
      PROVE  buttons'[a] = Enabled(approvals'[a], uiState'[a], adminToken', approverToken')
  BY <1>1 DEF RenderApprovals
<1>2. ASSUME NEW a \in Approvals
      PROVE  /\ buttons'[a] \in SUBSET ButtonNames
             /\ buttons'[a] # {} => adminToken'
             /\ buttons'[a] \subseteq
                    Offered(approvals'[a]) \cap Authorized(adminToken', approverToken')
             /\ uiState'[a] = "processing" => buttons'[a] = {}
  BY <1>1, <1>2, EnabledIsBacked
<1>3. /\ buttons' \in [Approvals -> SUBSET ButtonNames]
      /\ revived' \in [Approvals -> BOOLEAN]
      /\ \A a \in Approvals : ~revived'[a]
  BY <1>2 DEF RenderApprovals
<1> QED  BY <1>2, <1>3 DEF ButtonsAreBacked

\* refresh that answers at once leaves nothing to press, a refresh that waits
\* changes nothing that is drawn.
LEMMA StartRefreshType ==
    ASSUME TypeInv, StartRefresh, adminToken' \in BOOLEAN, approverToken' \in BOOLEAN
    PROVE  /\ approvals' \in [Approvals -> Listings]
           /\ refreshing' \in [Refreshes -> [at : {"none", "asked", "answered"},
                                             list : [Approvals -> Listings]]]
           /\ adminToken' => UNCHANGED <<approvals, buttons, revived>>
           /\ ~adminToken' => /\ uiState' \in [Approvals -> UiStates]
                              /\ buttons' \in [Approvals -> SUBSET ButtonNames]
                              /\ revived' \in [Approvals -> BOOLEAN]
                              /\ ButtonsAreBacked'
<1>1. CASE adminToken'
  <2>1. PICK s \in Refreshes : AskIn(s)
    BY <1>1 DEF StartRefresh
  <2>2. [NoRefresh EXCEPT !.at = "asked"] \in [at : {"none", "asked", "answered"},
                                               list : [Approvals -> Listings]]
    BY DEF NoRefresh, Listings
  <2>3. refreshing' \in [Refreshes -> [at : {"none", "asked", "answered"},
                                       list : [Approvals -> Listings]]]
    BY <2>1, <2>2 DEF AskIn, TypeInv
  <2> QED  BY <1>1, <2>3 DEF StartRefresh, TypeInv
<1>2. CASE ~adminToken'
  <2>1. /\ approvals' \in [Approvals -> Listings]
        /\ uiState' \in [Approvals -> UiStates]
    BY <1>2 DEF StartRefresh, Blank, Listings, UiStates
  <2>2. RenderApprovals /\ refreshing' = refreshing
    BY <1>2 DEF StartRefresh, Blank
  <2> QED  BY <1>2, <2>1, <2>2, RenderBacked DEF TypeInv
<1> QED  BY <1>1, <1>2

----------------------------------------------------------------------------
(* The panel forgets calls.                                                *)

\* After Redrawn(TRUE) every call is wiped and none has its item on display.
LEMMA RedrawnType ==
    ASSUME TypeInv, NEW wipe \in BOOLEAN
    PROVE  /\ Redrawn(wipe) \in [Clicks -> Calls]
           /\ \A c \in Clicks : /\ Redrawn(wipe)[c].at = clicked[c].at
                                /\ Redrawn(wipe)[c].approval = clicked[c].approval
                                /\ ~Redrawn(wipe)[c].drawn
                                /\ wipe => Redrawn(wipe)[c].wiped
                                /\ ~wipe => Redrawn(wipe)[c].wiped = clicked[c].wiped
<1>1. ASSUME NEW c \in Clicks
      PROVE  /\ Redrawn(wipe)[c] \in Calls
             /\ Redrawn(wipe)[c].at = clicked[c].at
             /\ Redrawn(wipe)[c].approval = clicked[c].approval
             /\ ~Redrawn(wipe)[c].drawn
             /\ wipe => Redrawn(wipe)[c].wiped
             /\ ~wipe => Redrawn(wipe)[c].wiped = clicked[c].wiped
  <2>1. clicked[c] \in Calls
    BY <1>1 DEF TypeInv
  <2> QED  BY <1>1, <2>1 DEF Redrawn, Calls
<1>2. Redrawn(wipe) \in [Clicks -> Calls]
  BY <1>1 DEF Redrawn
<1> QED  BY <1>1, <1>2

\* After the answer of a call, that call is over and all others about its
\* approval are wiped.
LEMMA AnsweredType ==
    ASSUME TypeInv, NEW c \in Clicks
    PROVE  /\ Answered(c) \in [Clicks -> Calls]
           /\ Answered(c)[c].at = "none"
           /\ \A d \in Clicks \ {c} :
                  /\ Answered(c)[d].at = clicked[d].at
                  /\ Answered(c)[d].approval = clicked[d].approval
                  /\ Answered(c)[d].drawn = clicked[d].drawn
                  /\ \/ Answered(c)[d].wiped
                     \/ /\ Answered(c)[d].wiped = clicked[d].wiped
                        /\ clicked[d].approval # clicked[c].approval
<1>1. ASSUME NEW d \in Clicks \ {c}
      PROVE  /\ Answered(c)[d] \in Calls
             /\ Answered(c)[d].at = clicked[d].at
             /\ Answered(c)[d].approval = clicked[d].approval
             /\ Answered(c)[d].drawn = clicked[d].drawn
             /\ \/ Answered(c)[d].wiped
                \/ /\ Answered(c)[d].wiped = clicked[d].wiped
                   /\ clicked[d].approval # clicked[c].approval
  <2>1. clicked[d] \in Calls
    BY <1>1 DEF TypeInv
  <2> QED  BY <1>1, <2>1 DEF Answered, Calls
<1>2. Answered(c)[c] = NoClick /\ NoClick \in Calls /\ NoClick.at = "none"
  BY DEF Answered, NoClick, Calls
<1>3. Answered(c) \in [Clicks -> Calls]
  BY <1>1, <1>2 DEF Answered
<1> QED  BY <1>1, <1>2, <1>3

\* Where a mark is wiped from all calls, or none is touched and the panel keeps
\* what it shows about marked approvals, the calls stay told apart.
LEMMA RedrawnStep ==
    ASSUME PanelInv, NEW wipe \in BOOLEAN, clicked' = Redrawn(wipe),
           adminToken' \in BOOLEAN, approverToken' \in BOOLEAN,
           listed' = listed,
           approvals' \in [Approvals -> Listings],
           uiState' \in [Approvals -> UiStates],
           refreshing' \in [Refreshes -> [at : {"none", "asked", "answered"},
                                          list : [Approvals -> Listings]]],
           RenderApprovals,
           wipe \/ uiState' = uiState
    PROVE  PanelInv'
<1>1. TypeInv /\ CallsAreMarked /\ OneCallPerApproval
  BY DEF PanelInv
<1>2. /\ buttons' \in [Approvals -> SUBSET ButtonNames]
      /\ revived' \in [Approvals -> BOOLEAN]
      /\ ButtonsAreBacked'
      /\ \A a \in Approvals : uiState'[a] = "processing" => buttons'[a] = {}
  BY <1>1, RenderBacked
<1>3. TypeInv'
  BY <1>1, <1>2, RedrawnType DEF TypeInv
<1>4. CallsAreMarked'
  <2> SUFFICES ASSUME NEW c \in Clicks, clicked'[c].at # "none"
               PROVE  /\ ~clicked'[c].wiped => /\ uiState'[clicked'[c].approval] = "processing"
                                                /\ buttons'[clicked'[c].approval] = {}
                      /\ clicked'[c].drawn => adminToken'
    BY DEF CallsAreMarked
  <2>1. /\ clicked[c].at # "none"
        /\ clicked'[c].approval = clicked[c].approval
        /\ ~clicked'[c].drawn
        /\ wipe => clicked'[c].wiped
        /\ ~wipe => clicked'[c].wiped = clicked[c].wiped
    BY <1>1, RedrawnType
  <2>2. clicked[c].approval \in Approvals
    BY <1>1, <2>1 DEF TypeInv
  <2> QED  BY <1>1, <1>2, <2>1, <2>2 DEF CallsAreMarked
<1>5. OneCallPerApproval'
  BY <1>1, RedrawnType DEF OneCallPerApproval
<1> QED  BY <1>2, <1>3, <1>4, <1>5 DEF PanelInv

\* Steps that change neither the panel nor its calls.
LEMMA QuietStep ==
    ASSUME PanelInv, TypeInv', UNCHANGED <<adminToken, approverToken, drawing>>,
           \A c \in Clicks : /\ clicked'[c].at # "none" => clicked[c].at # "none"
                             /\ clicked'[c].approval = clicked[c].approval
                             /\ clicked'[c].drawn = clicked[c].drawn
                             /\ clicked'[c].wiped = clicked[c].wiped
    PROVE  PanelInv'
  BY DEF PanelInv, CallsAreMarked, OneCallPerApproval, ButtonsAreBacked, drawing, TypeInv

----------------------------------------------------------------------------
(* The handlers.                                                           *)

LEMMA SubmitStep ==
    ASSUME PanelInv, NEW text \in BOOLEAN, SubmitToken(text)
    PROVE  PanelInv'
<1>1. /\ TypeInv /\ CallsAreMarked /\ OneCallPerApproval /\ ButtonsAreBacked
      /\ adminToken' = text
      /\ StartRefresh
      /\ listed' = listed /\ approverToken' = approverToken
      /\ adminToken' \in BOOLEAN /\ approverToken' \in BOOLEAN
  BY DEF PanelInv, SubmitToken, TypeInv
<1>2. /\ approvals' \in [Approvals -> Listings]
      /\ refreshing' \in [Refreshes -> [at : {"none", "asked", "answered"},
                                        list : [Approvals -> Listings]]]
  BY <1>1, StartRefreshType
<1>3. CASE text
  <2>1. UNCHANGED <<approvals, buttons, revived, uiState, clicked>>
    BY <1>1, <1>3, StartRefreshType DEF SubmitToken
  <2>2. TypeInv'
    BY <1>1, <1>2, <2>1 DEF TypeInv
  <2>3. CallsAreMarked' /\ OneCallPerApproval'
    BY <1>1, <1>3, <2>1 DEF CallsAreMarked, OneCallPerApproval
  <2>4. ButtonsAreBacked'
    BY <1>1, <1>3, <2>1 DEF ButtonsAreBacked, Authorized
  <2> QED  BY <2>2, <2>3, <2>4 DEF PanelInv
<1>4. CASE ~text
  <2>1. /\ clicked' = Redrawn(TRUE)
        /\ RenderApprovals
    BY <1>1, <1>4 DEF SubmitToken, StartRefresh, Blank
  <2>2. uiState' \in [Approvals -> UiStates]
    BY <1>1, <1>4, StartRefreshType
  <2> QED  BY <1>1, <1>2, <2>1, <2>2, RedrawnStep
<1> QED  BY <1>3, <1>4

LEMMA RefreshStep ==
    ASSUME PanelInv, NEW s \in Refreshes,
           ServeRefresh(s) \/ DrawRefresh(s) \/ FailRefresh(s)
    PROVE  PanelInv'
<1> USE DEF PanelInv
<1>1. NoRefresh \in [at : {"none", "asked", "answered"}, list : [Approvals -> Listings]]
  BY DEF NoRefresh, Listings
<1>2. CASE ServeRefresh(s)
  <2>1. TypeInv'
    BY <1>2 DEF ServeRefresh, TypeInv, drawing
  <2> QED  BY <1>2, <2>1, QuietStep DEF ServeRefresh
<1>3. CASE DrawRefresh(s)
  <2>1. /\ refreshing' \in [Refreshes -> [at : {"none", "asked", "answered"},
                                          list : [Approvals -> Listings]]]
        /\ approvals' \in [Approvals -> Listings]
        /\ uiState' = uiState /\ uiState' \in [Approvals -> UiStates]
        /\ adminToken' \in BOOLEAN /\ approverToken' \in BOOLEAN
        /\ listed' = listed
        /\ RenderApprovals
        /\ clicked' = Redrawn(FALSE)
    BY <1>1, <1>3 DEF DrawRefresh, TypeInv
  <2> QED  BY <2>1, RedrawnStep
<1>4. CASE FailRefresh(s)
  <2>1. /\ refreshing' \in [Refreshes -> [at : {"none", "asked", "answered"},
                                          list : [Approvals -> Listings]]]
        /\ adminToken' \in BOOLEAN /\ approverToken' \in BOOLEAN
        /\ listed' = listed
        /\ clicked' = Redrawn(TRUE)
    BY <1>1, <1>4 DEF FailRefresh, TypeInv
  <2>2. /\ approvals' \in [Approvals -> Listings]
        /\ uiState' \in [Approvals -> UiStates]
        /\ RenderApprovals
    BY <1>4 DEF FailRefresh, Blank, Listings, UiStates
  <2> QED  BY <2>1, <2>2, RedrawnStep
<1> QED  BY <1>2, <1>3, <1>4

LEMMA TokenInputStep ==
    ASSUME PanelInv, NEW text \in BOOLEAN, SetApproverToken(text)
    PROVE  PanelInv'
<1>1. /\ adminToken' \in BOOLEAN /\ approverToken' \in BOOLEAN
      /\ listed' = listed
      /\ approvals' \in [Approvals -> Listings]
      /\ uiState' = uiState /\ uiState' \in [Approvals -> UiStates]
      /\ refreshing' \in [Refreshes -> [at : {"none", "asked", "answered"},
                                        list : [Approvals -> Listings]]]
      /\ RenderApprovals
      /\ clicked' = Redrawn(FALSE)
  BY DEF SetApproverToken, PanelInv, TypeInv
<1> QED  BY <1>1, RedrawnStep

\* A button that can be pressed is on an item without a call that still marks
\* it: that is why a second call never starts beside one that does.
LEMMA ClickStep ==
    ASSUME PanelInv, NEW a \in Approvals, NEW action \in ButtonNames,
           ClickRefused(a, action) \/ \E c \in Clicks : Click(c, a, action)
    PROVE  PanelInv'
<1>1. TypeInv /\ CallsAreMarked /\ OneCallPerApproval /\ ButtonsAreBacked
  BY DEF PanelInv
<1>2. ASSUME NEW d \in Clicks, clicked[d].at # "none", clicked[d].approval = a
      PROVE  clicked[d].wiped
  BY <1>1, <1>2 DEF CallsAreMarked, ClickRefused, Click
<1>3. CASE ClickRefused(a, action)
  <2>1. TypeInv'
    BY <1>1, <1>3 DEF ClickRefused, TypeInv, UiStates
  <2>2. CallsAreMarked'
    BY <1>1, <1>2, <1>3 DEF CallsAreMarked, ClickRefused, TypeInv
  <2>3. OneCallPerApproval' /\ ButtonsAreBacked'
    BY <1>1, <1>3 DEF OneCallPerApproval, ButtonsAreBacked, ClickRefused, TypeInv
  <2> QED  BY <2>1, <2>2, <2>3 DEF PanelInv
<1>4. CASE \E c \in Clicks : Click(c, a, action)
  <2>1. PICK c \in Clicks : Click(c, a, action)
    BY <1>4
  <2> DEFINE call == [at |-> "sent", approval |-> a, action |-> action,
                      ok |-> FALSE, drawn |-> TRUE, wiped |-> FALSE]
  <2>2. clicked' = [clicked EXCEPT ![c] = call]
    BY <2>1 DEF Click
  <2>3. /\ clicked'[c] = call
        /\ \A d \in Clicks \ {c} : clicked'[d] = clicked[d]
    BY <1>1, <2>2 DEF TypeInv
  <2>4. TypeInv'
    BY <1>1, <2>1 DEF Click, TypeInv, Calls, UiStates
  <2>5. CallsAreMarked'
    BY <1>1, <1>2, <2>1, <2>3 DEF CallsAreMarked, Click, TypeInv
  <2>6. OneCallPerApproval'
    BY <1>1, <1>2, <2>3 DEF OneCallPerApproval
  <2>7. ButtonsAreBacked'
    BY <1>1, <2>1 DEF ButtonsAreBacked, Click, TypeInv
  <2> QED  BY <2>4, <2>5, <2>6, <2>7 DEF PanelInv
<1> QED  BY <1>3, <1>4

LEMMA ResultsType ==
    ASSUME NEW listing \in Listings, NEW action, NEW result \in Results(listing, action)
    PROVE  result[1] \in Listings /\ result[2] \in BOOLEAN
<1>1. \/ result = <<"gone", TRUE>>
      \/ result = <<"open", TRUE>>
      \/ result = <<"open", FALSE>>
      \/ result = <<"refused", FALSE>>
      \/ result = <<"invalid", FALSE>>
      \/ result = <<listing, FALSE>>
  BY Zenon DEF Results
<1>2. /\ <<"gone", TRUE>>[1] = "gone" /\ <<"gone", TRUE>>[2] = TRUE
      /\ <<"open", TRUE>>[1] = "open" /\ <<"open", TRUE>>[2] = TRUE
      /\ <<"open", FALSE>>[1] = "open" /\ <<"open", FALSE>>[2] = FALSE
      /\ <<"refused", FALSE>>[1] = "refused" /\ <<"refused", FALSE>>[2] = FALSE
      /\ <<"invalid", FALSE>>[1] = "invalid" /\ <<"invalid", FALSE>>[2] = FALSE
      /\ <<listing, FALSE>>[1] = listing /\ <<listing, FALSE>>[2] = FALSE
  OBVIOUS
<1> QED  BY <1>1, <1>2, Zenon DEF Listings

LEMMA ServeClickStep ==
    ASSUME PanelInv, NEW c \in Clicks, ServeClick(c)
    PROVE  PanelInv'
<1>1. TypeInv /\ clicked[c].approval \in Approvals
  BY DEF PanelInv, ServeClick, TypeInv
<1>2. PICK result \in Results(listed[clicked[c].approval], clicked[c].action),
           arrives \in BOOLEAN :
           /\ listed' = [listed EXCEPT ![clicked[c].approval] = result[1]]
           /\ clicked' = [clicked EXCEPT ![c].at = "answered", ![c].ok = result[2] /\ arrives]
  BY DEF ServeClick
<1>3. result[1] \in Listings /\ result[2] \in BOOLEAN
  BY <1>1, <1>2, ResultsType DEF TypeInv
<1> DEFINE ok == result[2] /\ arrives
<1>4. listed' \in [Approvals -> Listings] /\ clicked' \in [Clicks -> Calls]
  <2>1. ok \in BOOLEAN
    BY <1>3
  <2>2. clicked' = [clicked EXCEPT ![c] = [clicked[c] EXCEPT !.at = "answered", !.ok = ok]]
    BY <1>2
  <2> HIDE DEF ok
  <2>3. [clicked[c] EXCEPT !.at = "answered", !.ok = ok] \in Calls
    BY <1>1, <2>1 DEF TypeInv, Calls
  <2> QED  BY <1>1, <1>2, <1>3, <2>2, <2>3 DEF TypeInv
<1>5. TypeInv'
  BY <1>1, <1>2, <1>4 DEF TypeInv, ServeClick, drawing
<1>6. \A d \in Clicks : /\ clicked'[d].at # "none" => clicked[d].at # "none"
                        /\ clicked'[d].approval = clicked[d].approval
                        /\ clicked'[d].drawn = clicked[d].drawn
                        /\ clicked'[d].wiped = clicked[d].wiped
  BY <1>1, <1>2 DEF TypeInv, Calls, ServeClick
<1> QED  BY <1>5, <1>6, QuietStep DEF ServeClick

LEMMA AnswerOkStep ==
    ASSUME PanelInv, NEW c \in Clicks, AnswerOk(c)
    PROVE  PanelInv'
<1>1. /\ TypeInv /\ CallsAreMarked /\ OneCallPerApproval /\ ButtonsAreBacked
      /\ UNCHANGED <<listed, adminToken, approverToken>>
      /\ StartRefresh
      /\ adminToken' \in BOOLEAN /\ approverToken' \in BOOLEAN
      /\ clicked[c].approval \in Approvals
  BY DEF PanelInv, AnswerOk, TypeInv
<1>2. /\ approvals' \in [Approvals -> Listings]
      /\ refreshing' \in [Refreshes -> [at : {"none", "asked", "answered"},
                                        list : [Approvals -> Listings]]]
  BY <1>1, StartRefreshType
<1>3. CASE adminToken
  <2>1. /\ UNCHANGED <<approvals, buttons, revived>>
        /\ uiState' = [uiState EXCEPT ![clicked[c].approval] = "success"]
        /\ clicked' = Answered(c)
    BY <1>1, <1>3, StartRefreshType DEF AnswerOk
  <2>2. TypeInv'
    <3>1. clicked' \in [Clicks -> Calls]
      BY <1>1, <2>1, AnsweredType
    <3>2. ASSUME NEW d \in Clicks, clicked'[d].at # "none"
          PROVE  clicked'[d].approval \in Approvals
      <4>1. /\ d # c
            /\ clicked[d].at # "none"
            /\ clicked'[d].approval = clicked[d].approval
        BY <1>1, <2>1, <3>2, AnsweredType
      <4> QED  BY <1>1, <4>1 DEF TypeInv
    <3> QED  BY <1>1, <1>2, <2>1, <3>1, <3>2 DEF TypeInv, UiStates
  <2>3. CallsAreMarked'
    <3> SUFFICES ASSUME NEW d \in Clicks, clicked'[d].at # "none"
                 PROVE  /\ ~clicked'[d].wiped => /\ uiState'[clicked'[d].approval] = "processing"
                                                  /\ buttons'[clicked'[d].approval] = {}
                        /\ clicked'[d].drawn => adminToken'
      BY DEF CallsAreMarked
    <3>1. /\ d # c
          /\ clicked[d].at # "none"
          /\ clicked'[d].approval = clicked[d].approval
          /\ clicked'[d].drawn = clicked[d].drawn
          /\ \/ clicked'[d].wiped
             \/ /\ clicked'[d].wiped = clicked[d].wiped
                /\ clicked[d].approval # clicked[c].approval
      BY <1>1, <2>1, AnsweredType
    <3>2. clicked[d].approval \in Approvals
      BY <1>1, <3>1 DEF TypeInv
    <3> QED  BY <1>1, <1>2, <2>1, <3>1, <3>2 DEF CallsAreMarked, TypeInv
  <2>4. OneCallPerApproval'
    BY <1>1, <2>1, AnsweredType DEF OneCallPerApproval
  <2>5. ButtonsAreBacked'
    BY <1>1, <2>1 DEF ButtonsAreBacked, TypeInv
  <2> QED  BY <2>2, <2>3, <2>4, <2>5 DEF PanelInv
<1>4. CASE ~adminToken
  <2>1. /\ uiState' \in [Approvals -> UiStates]
        /\ buttons' \in [Approvals -> SUBSET ButtonNames]
        /\ revived' \in [Approvals -> BOOLEAN]
        /\ ButtonsAreBacked'
    BY <1>1, <1>4, StartRefreshType
  <2>2. /\ clicked' = [Redrawn(TRUE) EXCEPT ![c] = NoClick]
        /\ NoClick.at = "none"
    BY <1>4 DEF AnswerOk, NoClick
  <2>3. TypeInv'
    BY <1>1, <1>2, <2>1, <2>2, RedrawnType DEF TypeInv, Calls, NoClick
  <2>4. \A d \in Clicks : clicked'[d].at # "none" => clicked'[d].wiped /\ ~clicked'[d].drawn
    BY <1>1, <2>2, RedrawnType
  <2> QED  BY <2>1, <2>3, <2>4 DEF PanelInv, CallsAreMarked, OneCallPerApproval
<1> QED  BY <1>3, <1>4

LEMMA AnswerErrorStep ==
    ASSUME PanelInv, NEW c \in Clicks, AnswerError(c)
    PROVE  PanelInv'
<1>1. /\ TypeInv /\ CallsAreMarked /\ OneCallPerApproval /\ ButtonsAreBacked
      /\ UNCHANGED <<listed, adminToken, approverToken, approvals, refreshing>>
      /\ uiState' = [uiState EXCEPT ![clicked[c].approval] = "error"]
      /\ clicked' = Answered(c)
      /\ clicked[c].approval \in Approvals
      /\ clicked[c].drawn => adminToken
  BY DEF PanelInv, AnswerError, TypeInv, CallsAreMarked
<1>2. /\ buttons' \in [Approvals -> SUBSET ButtonNames]
      /\ revived' \in [Approvals -> BOOLEAN]
      /\ \A a \in Approvals \ {clicked[c].approval} :
             buttons'[a] = buttons[a] /\ revived'[a] = revived[a]
      /\ \/ /\ buttons'[clicked[c].approval] = buttons[clicked[c].approval]
            /\ revived'[clicked[c].approval] = revived[clicked[c].approval]
         \/ /\ buttons'[clicked[c].approval] = Present(approvals[clicked[c].approval])
            /\ revived'[clicked[c].approval]
            /\ adminToken
  BY <1>1, PresentType DEF AnswerError, TypeInv
<1>3. TypeInv'
  <2>1. clicked' \in [Clicks -> Calls]
    BY <1>1, AnsweredType
  <2>2. \A d \in Clicks : clicked'[d].at # "none" => clicked'[d].approval \in Approvals
    <3>1. clicked'[c].at = "none"
      BY <1>1, AnsweredType
    <3>2. \A d \in Clicks \ {c} : /\ clicked'[d].at = clicked[d].at
                                  /\ clicked'[d].approval = clicked[d].approval
      BY <1>1, AnsweredType
    <3>3. \A d \in Clicks : clicked[d].at # "none" => clicked[d].approval \in Approvals
      BY <1>1 DEF TypeInv
    <3> QED  BY <3>1, <3>2, <3>3
  <2>3. uiState' \in [Approvals -> UiStates]
    BY <1>1 DEF TypeInv, UiStates
  <2> QED  BY <1>1, <1>2, <2>1, <2>2, <2>3 DEF TypeInv
<1>4. CallsAreMarked'
  <2> SUFFICES ASSUME NEW d \in Clicks, clicked'[d].at # "none"
               PROVE  /\ ~clicked'[d].wiped => /\ uiState'[clicked'[d].approval] = "processing"
                                                /\ buttons'[clicked'[d].approval] = {}
                      /\ clicked'[d].drawn => adminToken'
    BY DEF CallsAreMarked
  <2>1. /\ d # c
        /\ clicked[d].at # "none"
        /\ clicked'[d].approval = clicked[d].approval
        /\ clicked'[d].drawn = clicked[d].drawn
        /\ \/ clicked'[d].wiped
           \/ /\ clicked'[d].wiped = clicked[d].wiped
              /\ clicked[d].approval # clicked[c].approval
    BY <1>1, AnsweredType
  <2>2. clicked[d].approval \in Approvals
    BY <1>1, <2>1 DEF TypeInv
  <2> QED  BY <1>1, <1>2, <2>1, <2>2 DEF CallsAreMarked, TypeInv
<1>5. OneCallPerApproval'
  BY <1>1, AnsweredType DEF OneCallPerApproval
<1>6. ButtonsAreBacked'
  <2>1. /\ uiState'[clicked[c].approval] = "error"
        /\ \A a \in Approvals \ {clicked[c].approval} : uiState'[a] = uiState[a]
    BY <1>1 DEF TypeInv
  <2> QED  BY <1>1, <1>2, <2>1 DEF ButtonsAreBacked
<1> QED  BY <1>3, <1>4, <1>5, <1>6 DEF PanelInv

----------------------------------------------------------------------------

LEMMA PanelInvInit == Init => PanelInv
<1> SUFFICES ASSUME Init PROVE PanelInv
  OBVIOUS
<1>1. TypeInv
  BY DEF Init, TypeInv, Calls, Listings, UiStates, ButtonNames, NoRefresh, NoClick
<1>2. \A c \in Clicks : clicked[c].at = "none"
  BY DEF Init, NoClick
<1> QED
  BY <1>1, <1>2 DEF Init, PanelInv, CallsAreMarked, OneCallPerApproval, ButtonsAreBacked

LEMMA PanelInvStep == PanelInv /\ [Next]_vars => PanelInv'
<1> SUFFICES ASSUME PanelInv, [Next]_vars PROVE PanelInv'
  OBVIOUS
<1>1. CASE UNCHANGED vars
  <2>1. TypeInv'
    BY <1>1 DEF PanelInv, TypeInv, vars, drawing
  <2> QED  BY <1>1, <2>1, QuietStep DEF vars
<1>2. CASE \E text \in BOOLEAN : SubmitToken(text) \/ SetApproverToken(text)
  BY <1>2, SubmitStep, TokenInputStep
<1>3. CASE ClearAdminToken \/ Refresh
  BY <1>3, SubmitStep DEF ClearAdminToken, Refresh, PanelInv, TypeInv
<1>4. CASE \E a \in Approvals, action \in ButtonNames :
               ClickRefused(a, action) \/ \E c \in Clicks : Click(c, a, action)
  BY <1>4, ClickStep
<1>5. CASE \E a \in Approvals : ServerMoves(a)
  <2>1. TypeInv'
    BY <1>5 DEF ServerMoves, PanelInv, TypeInv, drawing
  <2> QED  BY <1>5, <2>1, QuietStep DEF ServerMoves
<1>6. CASE Answers
  BY <1>6, RefreshStep, ServeClickStep, AnswerOkStep, AnswerErrorStep DEF Answers
<1> QED  BY <1>1, <1>2, <1>3, <1>4, <1>5, <1>6 DEF Next

\* However many refreshes and calls are under way and however they are answered,
\* an approval is not acted upon twice at a time unless one of the calls has lost
\* its mark (handleApprovalActionClick).
THEOREM OneCallCorrect == Spec => []OneCallPerApproval
<1>1. PanelInv => OneCallPerApproval
  BY DEF PanelInv
<1> QED  BY <1>1, PanelInvInit, PanelInvStep, PTL DEF Spec

\* No button can be pressed without the admin token or on an item that is marked;
\* all others are backed by the list on display and by the tokens, but for those
\* of an item that the call made from it has enabled by failing, until that item
\* is clicked or drawn again (renderApprovals, handleApprovalActionClick).
THEOREM ButtonsBackedCorrect == Spec => []ButtonsAreBacked
<1>1. PanelInv => ButtonsAreBacked
  BY DEF PanelInv
<1> QED  BY <1>1, PanelInvInit, PanelInvStep, PTL DEF Spec
=============================================================================
