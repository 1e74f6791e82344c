--------------------------- MODULE AdminDashboard ---------------------------
(***************************************************************************)
(* The approval panel of the admin dashboard,                              *)
(* apps/gateway_api/static/admin.js: one browser thread that runs a        *)
(* handler up to its next await, so a step is what happens between two     *)
(* awaits.  Answers of the server arrive in any order, or not at all.      *)
(*                                                                         *)
(* The server is another party: the list it serves changes by the          *)
(* dashboard's own calls and by other operators.  Left out: the other      *)
(* panels, which refresh fills along with the approvals, messages, drafts  *)
(* of comments, and all but the first six approvals of the list.           *)
(***************************************************************************)
EXTENDS FiniteSets

CONSTANTS
    Approvals,
    Refreshes,  \* slots for calls of refresh that are under way (bound)
    Clicks      \* slots for calls of handleApprovalActionClick (bound)

VARIABLES
    listed,     \* approval -> how the server lists it now
    adminToken, approverToken,      \* whether each is set
    approvals,  \* state.approvals: approval -> how it was listed
    uiState,    \* state.approvalUiState: approval -> status
    buttons,    \* approval -> the buttons of its item that are enabled
    revived,    \* approval -> a call that failed enabled them, on this very item (history)
    refreshing, \* slot -> a call of refresh
    clicked     \* slot -> a call of handleApprovalActionClick

drawing == <<approvals, uiState, buttons, revived>>

vars == <<listed, adminToken, approverToken, drawing, refreshing, clicked>>

----------------------------------------------------------------------------

\* What _approval_payload says of an approval: it can be executed, its retry was
\* refused, its context is invalid, or it is not in the list.
Listings == {"open", "refused", "invalid", "gone"}

ButtonNames == {"approve", "reject", "reset-error"}

UiStates == {"idle", "processing", "success", "error"}

NoRefresh == [at |-> "none", list |-> [a \in Approvals |-> "gone"]]

\* wiped: the mark "processing" of the call was cleared, or replaced by the
\* result of another call (history).
\* drawn: the item with the button is still in the document.
NoClick == [at |-> "none", approval |-> "none", action |-> "none", ok |-> FALSE,
            drawn |-> FALSE, wiped |-> FALSE]

Init ==
    /\ listed \in [Approvals -> {"open", "refused", "invalid"}]
    /\ adminToken = FALSE
    /\ approverToken = FALSE
    /\ approvals = [a \in Approvals |-> "gone"]
    /\ uiState = [a \in Approvals |-> "idle"]
    /\ buttons = [a \in Approvals |-> {}]
    /\ revived = [a \in Approvals |-> FALSE]
    /\ refreshing = [s \in Refreshes |-> NoRefresh]
    /\ clicked = [c \in Clicks |-> NoClick]

----------------------------------------------------------------------------
(* Drawing.                                                                *)

\* Which buttons renderApprovals puts into an item.
Present(listing) ==
    CASE listing \in {"open", "invalid"} -> {"approve", "reject"}
      [] listing = "refused"             -> ButtonNames
      [] listing = "gone"                -> {}

\* Which of them the server's answer allows.
Offered(listing) ==
    CASE listing = "open"    -> {"approve", "reject"}
      [] listing = "refused" -> {"reject", "reset-error"}
      [] listing = "invalid" -> {"reject"}
      [] listing = "gone"    -> {}

\* Which buttons the tokens allow: a reset is not a decision of an approver.
Authorized(admin, approver) ==
    {b \in ButtonNames : admin /\ (approver \/ b = "reset-error")}

\* Mutant: an item that is being processed is drawn like any other.
EnabledWhenBusy(listing, status, admin, approver) ==
    Offered(listing) \cap Authorized(admin, approver)

Enabled(listing, status, admin, approver) ==
    IF status = "processing" THEN {}
                             ELSE Offered(listing) \cap Authorized(admin, approver)

\* renderApprovals: all items are new.
RenderApprovals ==
    /\ buttons' = [a \in Approvals |->
                      Enabled(approvals'[a], uiState'[a], adminToken', approverToken')]
    /\ revived' = [a \in Approvals |-> FALSE]

\* The handlers that wait lose their items, and with wipe the marks they left.
Redrawn(wipe) ==
    [c \in Clicks |-> IF wipe THEN [clicked[c] EXCEPT !.drawn = FALSE, !.wiped = TRUE]
                              ELSE [clicked[c] EXCEPT !.drawn = FALSE]]

\* The call of slot c has answered: its status replaces the mark of any other.
Answered(c) ==
    [d \in Clicks |->
        CASE d = c -> NoClick
          [] d # c /\ clicked[d].approval = clicked[c].approval ->
                 [clicked[d] EXCEPT !.wiped = TRUE]
          [] OTHER -> clicked[d]]

\* refresh without a token, or with an answer that is an error.
Blank ==
    /\ approvals' = [a \in Approvals |-> "gone"]
    /\ uiState' = [a \in Approvals |-> "idle"]
    /\ RenderApprovals

AskIn(s) == refreshing' = [refreshing EXCEPT ![s] = [NoRefresh EXCEPT !.at = "asked"]]

\* Calling refresh: up to its await, or all of it.
StartRefresh ==
    \/ /\ adminToken'
       /\ \E s \in Refreshes : refreshing[s].at = "none" /\ AskIn(s)
       /\ UNCHANGED <<approvals, buttons, revived>>
    \/ /\ ~adminToken'
       /\ Blank
       /\ UNCHANGED refreshing

----------------------------------------------------------------------------
(* Tokens and refreshes.                                                   *)

\* handleAuthSubmit with some text or with none.
SubmitToken(text) ==
    /\ adminToken' = text
    /\ StartRefresh
    /\ IF text THEN UNCHANGED <<uiState, clicked>> ELSE clicked' = Redrawn(TRUE)
    /\ UNCHANGED <<listed, approverToken>>

\* clearAdminToken clears first what refresh then clears.
ClearAdminToken == SubmitToken(FALSE)

\* handleApproverTokenInput and clearApproverToken.
SetApproverToken(text) ==
    /\ approverToken' = text
    /\ UNCHANGED <<listed, adminToken, approvals, uiState, refreshing>>
    /\ RenderApprovals
    /\ clicked' = Redrawn(FALSE)

\* The refresh button, the event filters and a submitted prompt call refresh with
\* the token that is set.
Refresh == SubmitToken(adminToken)

\* The server answers GET /v1/approvals/pending.
ServeRefresh(s) ==
    /\ refreshing[s].at = "asked"
    /\ refreshing' = [refreshing EXCEPT ![s] = [at |-> "answered", list |-> listed]]
    /\ UNCHANGED <<listed, adminToken, approverToken, drawing, clicked>>

\* All five answers are there.
DrawRefresh(s) ==
    /\ refreshing[s].at = "answered"
    /\ refreshing' = [refreshing EXCEPT ![s] = NoRefresh]
    /\ approvals' = refreshing[s].list
    /\ UNCHANGED <<listed, adminToken, approverToken, uiState>>
    /\ RenderApprovals
    /\ clicked' = Redrawn(FALSE)

\* One of the five fetches fails.
FailRefresh(s) ==
    /\ refreshing[s].at # "none"
    /\ refreshing' = [refreshing EXCEPT ![s] = NoRefresh]
    /\ UNCHANGED <<listed, adminToken, approverToken>>
    /\ Blank
    /\ clicked' = Redrawn(TRUE)

----------------------------------------------------------------------------
(* handleApprovalActionClick.                                              *)

Click(c, a, action) ==
    /\ clicked[c].at = "none"
    /\ action \in buttons[a]
    /\ adminToken
    /\ action # "reset-error" => approverToken
    /\ buttons' = [buttons EXCEPT ![a] = {}]
    /\ revived' = [revived EXCEPT ![a] = FALSE]
    /\ uiState' = [uiState EXCEPT ![a] = "processing"]
    /\ clicked' = [clicked EXCEPT ![c] = [at |-> "sent", approval |-> a, action |-> action,
                                          ok |-> FALSE, drawn |-> TRUE, wiped |-> FALSE]]
    /\ UNCHANGED <<listed, adminToken, approverToken, approvals, refreshing>>

\* Nothing is sent without the tokens, nor a reset without a reason.
ClickRefused(a, action) ==
    /\ action \in buttons[a]
    /\ ~adminToken \/ ~approverToken \/ action = "reset-error"
    /\ uiState' = [uiState EXCEPT ![a] = "error"]
    /\ UNCHANGED <<listed, adminToken, approverToken, approvals, buttons, revived,
                   refreshing, clicked>>

\* What the server makes of a call on an approval it lists in some way.
Results(listing, action) ==
    CASE action = "approve" /\ listing = "open" ->
             {<<"gone", TRUE>>, <<"open", FALSE>>, <<"refused", FALSE>>, <<"invalid", FALSE>>}
      [] action = "reject" /\ listing # "gone" -> {<<"gone", TRUE>>}
      [] action = "reset-error" /\ listing = "refused" -> 
             {<<"open", TRUE>>, <<"refused", FALSE>>}
      [] OTHER -> {<<listing, FALSE>>}

\* The answer may be lost after the server has acted.
ServeClick(c) ==
    /\ clicked[c].at = "sent"
    /\ \E result \in Results(listed[clicked[c].approval], clicked[c].action),
          arrives \in BOOLEAN :
          /\ listed' = [listed EXCEPT ![clicked[c].approval] = result[1]]
          /\ clicked' = [clicked EXCEPT ![c].at = "answered",
                                        ![c].ok = result[2] /\ arrives]
    /\ UNCHANGED <<adminToken, approverToken, drawing, refreshing>>

\* The status of the item is set, then refresh is called; what follows the await
\* only sets the message of the panel.
AnswerOk(c) ==
    /\ clicked[c].at = "answered" /\ clicked[c].ok
    /\ UNCHANGED <<listed, adminToken, approverToken>>
    /\ StartRefresh
    /\ IF adminToken
         THEN /\ uiState' = [uiState EXCEPT ![clicked[c].approval] = "success"]
              /\ clicked' = Answered(c)
         ELSE clicked' = [Redrawn(TRUE) EXCEPT ![c] = NoClick]

\* Mutant: the buttons are looked up again in the document.
AnswerErrorAnyItem(c) ==
    /\ clicked[c].at = "answered" /\ ~clicked[c].ok
    /\ uiState' = [uiState EXCEPT ![clicked[c].approval] = "error"]
    /\ buttons' = [buttons EXCEPT ![clicked[c].approval] =
                       Present(approvals[clicked[c].approval])]
    /\ revived' = IF clicked[c].drawn THEN [revived EXCEPT ![clicked[c].approval] = TRUE]
                                      ELSE revived
    /\ clicked' = Answered(c)
    /\ UNCHANGED <<listed, adminToken, approverToken, approvals, refreshing>>

\* The buttons of the item that was clicked are all enabled again; nobody sees
\* that if the item has been drawn anew.
AnswerError(c) ==
    /\ clicked[c].at = "answered" /\ ~clicked[c].ok
    /\ uiState' = [uiState EXCEPT ![clicked[c].approval] = "error"]
    /\ buttons' = IF clicked[c].drawn
                    THEN [buttons EXCEPT ![clicked[c].approval] =
                              Present(approvals[clicked[c].approval])]
                    ELSE buttons
    /\ revived' = IF clicked[c].drawn THEN [revived EXCEPT ![clicked[c].approval] = TRUE]
                                      ELSE revived
    /\ clicked' = Answered(c)
    /\ UNCHANGED <<listed, adminToken, approverToken, approvals, refreshing>>

----------------------------------------------------------------------------

\* Other operators, and requests that come to be held.
ServerMoves(a) ==
    /\ listed' \in {[listed EXCEPT ![a] = listing] : listing \in Listings}
    /\ UNCHANGED <<adminToken, approverToken, drawing, refreshing, clicked>>

Answers ==
    \/ \E s \in Refreshes : ServeRefresh(s) \/ DrawRefresh(s) \/ FailRefresh(s)
    \/ \E c \in Clicks : ServeClick(c) \/ AnswerOk(c) \/ AnswerError(c)

Next ==
    \/ \E text \in BOOLEAN : SubmitToken(text) \/ SetApproverToken(text)
    \/ ClearAdminToken
    \/ Refresh
    \/ \E a \in Approvals, action \in ButtonNames :
           ClickRefused(a, action) \/ \E c \in Clicks : Click(c, a, action)
    \/ \E a \in Approvals : ServerMoves(a)
    \/ Answers

Spec == Init /\ [][Next]_vars

----------------------------------------------------------------------------
(* Properties.                                                             *)

\* However often the panel is drawn anew, one approval is not acted upon twice at
\* a time: of two calls under way for it, one lost its mark to a refresh that
\* failed, to a token that was cleared or to the answer of a third.
OneCallPerApproval ==
    \A c, d \in Clicks :
        (/\ c # d
         /\ clicked[c].at # "none"
         /\ clicked[d].at # "none"
         /\ clicked[c].approval = clicked[d].approval) => clicked[c].wiped \/ clicked[d].wiped

\* No button can be pressed once the admin token is cleared, though answers to
\* earlier calls are still drawn, nor on an item that is marked as processed.  The
\* buttons of an item are offered by the list on display and allowed by the
\* tokens, though calls answer after the item they came from was replaced.  One
\* exception: a call that fails while its own item is on display enables all that
\* item has, offered or not, until the item is clicked or drawn again.
ButtonsAreBacked ==
    \A a \in Approvals :
        /\ buttons[a] # {} => adminToken
        /\ uiState[a] = "processing" => buttons[a] = {}
        /\ ~revived[a] =>
               buttons[a] \subseteq Offered(approvals[a]) \cap Authorized(adminToken, approverToken)
        /\ revived[a] => buttons[a] \subseteq Present(approvals[a])
=============================================================================
