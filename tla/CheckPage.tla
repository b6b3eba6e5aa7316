------------------------------ MODULE CheckPage ------------------------------
(***************************************************************************)
(* One browser tab with the page of one check: the copy of the check it    *)
(* shows, its dialogs and buttons, and the requests it has under way, which *)
(* the server serves and the browser answers in any order.  Everybody else *)
(* who writes the document (runs, other tabs) is Elsewhere.                *)
(*                                                                         *)
(* A tab may leave the page and visit it again.  Callbacks of an earlier   *)
(* visit still run: they hold the scope of that visit, but find dialogs    *)
(* and buttons by their id, in whatever the tab shows by then.             *)
(***************************************************************************)
EXTENDS Integers

CONSTANTS
    Fields,     \* the check's fields that have a checkbox on the page
    Settings,   \* what the dialog edits: name, target, thresholds, ...
    Conns,      \* requests a browser has under way at a time
    MaxVisits,  \* bound: visits to the page
    MaxActs,    \* bound: clicks of the user and writes of others
    MaxFails,   \* bound: requests that fail
    NoDoc,      \* the check is deleted, or not loaded yet
    Idle        \* no request

ASSUME ConstantsAssumption ==
    /\ Fields \subseteq {"enabled", "live", "allowNoData"}
    /\ MaxVisits \in Nat \ {0} /\ MaxActs \in Nat /\ MaxFails \in Nat
    /\ NoDoc \notin [flags : [Fields -> BOOLEAN], settings : Settings,
                     state : {"OK", "ERROR"},
                     sub : {"unborn", "on", "off", "deleted"}]

VARIABLES
    doc,       \* the stored check
    here,      \* the tab shows the page
    visit,     \* number of the last visit
    shown,     \* $scope.check
    dialog,    \* which dialog is open
    draft,     \* the dialog's copy
    disabled,  \* buttons with the class "disabled"
    conn,      \* requests under way
    acts,      \* number of clicks and writes so far
    fails,     \* number of failed requests so far
    saved,     \* history: settings that somebody saved
    broken     \* history: visits during which saving from a dialog failed

vars == <<doc, here, visit, shown, dialog, draft, disabled, conn, acts, fails,
          saved, broken>>
tab == <<here, visit, shown, dialog, draft, disabled>>
history == <<saved, broken>>

Sub == {"on", "off"}

CheckDoc ==
    [flags : [Fields -> BOOLEAN], settings : Settings,
     state : {"OK", "ERROR"}, sub : Sub \cup {"unborn", "deleted"}]

\* What requests about a subscription, and its dialog, carry.
SubDoc == [sub : Sub]

\* PUT requests that carry the whole check, and the other ones.
SavesCheck == Fields \cup {"reset", "update"}
SavesSub == {"createSub", "updateSub", "swapSub"}
Kinds == SavesCheck \cup SavesSub \cup {"get", "delete", "deleteSub", "testSub"}

\* body is what is sent or, for a "get", what was read.
Request ==
    [kind : Kinds, body : CheckDoc \cup SubDoc \cup {NoDoc}, visit : 1 .. MaxVisits,
     status : {"sent", "done", "failed"}]

ASSUME IdleAssumption == Idle \notin Request

Buttons == {"update", "createSub", "updateSub", "delete"}

TypeOK ==
    /\ doc \in CheckDoc \cup {NoDoc}
    /\ here \in BOOLEAN
    /\ visit \in 1 .. MaxVisits
    /\ shown \in CheckDoc \cup {NoDoc}
    /\ dialog \in {"none", "check", "newSub", "sub"}
    /\ draft \in CheckDoc \cup SubDoc \cup {NoDoc}
    /\ disabled \in SUBSET Buttons
    /\ conn \in [Conns -> Request \cup {Idle}]
    /\ acts \in 0 .. MaxActs
    /\ fails \in 0 .. MaxFails
    /\ saved \in SUBSET Settings
    /\ broken \in SUBSET (1 .. MaxVisits)

New(kind, body) ==
    [kind |-> kind, body |-> body, visit |-> visit, status |-> "sent"]

\* A request needs a free connection; the browser keeps it waiting for one.
Send(kind, body) ==
    \E c \in Conns : /\ conn[c] = Idle
                     /\ conn' = [conn EXCEPT ![c] = New(kind, body)]

\* Opening the page loads the check.
Init ==
    /\ \E s \in Settings, sub \in {"unborn", "on"} :
          doc = [flags |-> [f \in Fields |-> f = "enabled"], settings |-> s,
                 state |-> "OK", sub |-> sub]
    /\ here = TRUE
    /\ visit = 1
    /\ shown = NoDoc
    /\ dialog = "none"
    /\ draft = NoDoc
    /\ disabled = {}
    /\ conn = [c \in Conns |-> Idle]
    /\ acts = 0
    /\ fails = 0
    /\ saved = {doc.settings}
    /\ broken = {}

------------------------------------------------------------------------------
(* The page. *)

\* loadCheck, at the start and then every thirty seconds.
LoadCheck ==
    /\ here
    /\ Send("get", NoDoc)
    /\ UNCHANGED <<doc, tab, acts, fails, history>>

Click ==
    /\ here /\ shown # NoDoc
    /\ acts < MaxActs
    /\ acts' = acts + 1

\* The buttons change the page's copy at once and send it whole.
SwapField(f) ==
    LET copy == [shown EXCEPT !.flags[f] = ~shown.flags[f]]
    IN  /\ Click /\ dialog = "none"
        /\ shown' = copy
        /\ Send(f, copy)
        /\ UNCHANGED <<doc, here, visit, dialog, draft, disabled, fails, history>>

ResetCheckState ==
    /\ Click /\ dialog = "none"
    /\ shown.state = "ERROR"
    /\ shown' = [shown EXCEPT !.state = "OK"]
    /\ Send("reset", shown')
    /\ UNCHANGED <<doc, here, visit, dialog, draft, disabled, fails, history>>

SwapSubscriptionEnabled ==
    LET s == IF shown.sub = "on" THEN "off" ELSE "on"
    IN  /\ Click /\ dialog = "none"
        /\ shown.sub \in Sub
        /\ shown' = [shown EXCEPT !.sub = s]
        /\ Send("swapSub", [sub |-> s])
        /\ UNCHANGED <<doc, here, visit, dialog, draft, disabled, fails, history>>

\* The buttons Delete and Test of a subscription.
DeleteOrTestSubscription ==
    /\ Click /\ dialog = "none"
    /\ shown.sub \in Sub
    /\ \E kind \in {"deleteSub", "testSub"} : Send(kind, NoDoc)
    /\ UNCHANGED <<doc, tab, fails, history>>

DeleteCheck ==
    /\ Click /\ dialog = "none"
    /\ disabled' = disabled \cup {"delete"}
    /\ Send("delete", NoDoc)
    /\ UNCHANGED <<doc, here, visit, shown, dialog, draft, fails, history>>

\* MUTANT: the dialog is handed the page's copy itself.
EditCheck_Aliases ==
    /\ here /\ shown # NoDoc /\ acts < MaxActs /\ dialog = "none"
    /\ acts' = acts + 1
    /\ \E s \in Settings :
          /\ shown' = [shown EXCEPT !.settings = s]
          /\ draft' = shown'
    /\ dialog' = "check"
    /\ UNCHANGED <<doc, here, visit, disabled, conn, fails, history>>

\* The dialog opens on a copy of what the page shows, and the user types.
EditCheck ==
    /\ Click /\ dialog = "none"
    /\ dialog' = "check"
    /\ \E s \in Settings : draft' = [shown EXCEPT !.settings = s]
    /\ UNCHANGED <<doc, here, visit, shown, disabled, conn, fails, history>>

EditSubscription ==
    /\ Click /\ dialog = "none"
    /\ \/ shown.sub = "unborn" /\ dialog' = "newSub"
       \/ shown.sub \in Sub    /\ dialog' = "sub"
    /\ draft' \in SubDoc
    /\ UNCHANGED <<doc, here, visit, shown, disabled, conn, fails, history>>

\* Cancel closes the dialog and sets its copy back to the defaults.
Reset ==
    /\ here /\ dialog # "none"
    /\ dialog' = "none"
    /\ draft' = NoDoc
    /\ UNCHANGED <<doc, here, visit, shown, disabled, conn, acts, fails, history>>

\* create and update of the dialogs.  The button gets the class "disabled", which
\* keeps the mouse off but not the keyboard, and the handlers do not look at it:
\* while the answer is awaited the dialog is open and can be sent again.
SaveDialog(d, kind) ==
    /\ Click /\ dialog = d
    /\ disabled' = disabled \cup {kind}
    /\ Send(kind, draft)
    /\ saved' = IF kind = "update" THEN saved \cup {draft.settings} ELSE saved
    /\ UNCHANGED <<doc, here, visit, shown, dialog, draft, fails, broken>>

\* The location changes: timers are cleared, the scope is destroyed.
Leave ==
    /\ here /\ visit < MaxVisits
    /\ here' = FALSE
    /\ UNCHANGED <<doc, visit, shown, dialog, draft, disabled, conn, acts, fails,
                   history>>

Visit ==
    /\ ~here /\ visit < MaxVisits
    /\ here' = TRUE
    /\ visit' = visit + 1
    /\ shown' = NoDoc /\ dialog' = "none" /\ draft' = NoDoc /\ disabled' = {}
    /\ UNCHANGED <<doc, conn, acts, fails, history>>

------------------------------------------------------------------------------
(* The server. *)

\* MUTANT: what is not there is added.
StoreSub_Upsert(s) ==
    doc' = IF doc = NoDoc THEN doc ELSE [doc EXCEPT !.sub = s]

\* updateSubscription sets the element that has the subscription's id, if any.
StoreSub(s) ==
    doc' = IF doc # NoDoc /\ doc.sub \in Sub
           THEN [doc EXCEPT !.sub = s]
           ELSE doc

\* MUTANT: an upsert, which brings a deleted check back.
SaveCheck_Upsert(copy) ==
    doc' = [copy EXCEPT !.sub = IF doc = NoDoc THEN NoDoc ELSE doc.sub]

\* saveCheck writes all but the subscriptions.
SaveCheck(copy) ==
    doc' = IF doc = NoDoc THEN NoDoc ELSE [copy EXCEPT !.sub = doc.sub]

\* What a request does to the document, and whether it may report success.
\* A check deleted between updateCheck's two calls is reported as saved.
Effect(r, ok) ==
    \/ r.kind = "get" /\ ok = (doc # NoDoc) /\ UNCHANGED doc
    \/ r.kind \in SavesCheck /\ (doc # NoDoc => ok) /\ SaveCheck(r.body)
    \/ r.kind \in {"updateSub", "swapSub"} /\ ok /\ StoreSub(r.body.sub)
    \/ /\ r.kind = "createSub" /\ ok
       /\ doc' = IF doc # NoDoc /\ doc.sub = "unborn"
                 THEN [doc EXCEPT !.sub = r.body.sub]
                 ELSE doc
    \/ /\ r.kind = "deleteSub" /\ ok
       /\ doc' = IF doc # NoDoc /\ doc.sub \in Sub
                 THEN [doc EXCEPT !.sub = "deleted"]
                 ELSE doc
    \/ /\ r.kind = "testSub" /\ UNCHANGED doc
       /\ ok => doc # NoDoc /\ doc.sub \in Sub
    \/ r.kind = "delete" /\ ok /\ doc' = NoDoc

Answer(r, ok) ==
    [kind |-> r.kind, body |-> IF r.kind = "get" THEN doc ELSE r.body,
     visit |-> r.visit, status |-> IF ok THEN "done" ELSE "failed"]

Serve(c) ==
    /\ conn[c] # Idle /\ conn[c].status = "sent"
    /\ \E ok \in BOOLEAN :
          /\ Effect(conn[c], ok)
          /\ conn' = [conn EXCEPT ![c] = Answer(conn[c], ok)]
    /\ UNCHANGED <<tab, acts, fails, history>>

\* A request does not get through, or its answer does not.
Lose(c) ==
    /\ conn[c] # Idle /\ conn[c].status \in {"sent", "done"}
    /\ fails < MaxFails
    /\ fails' = fails + 1
    /\ conn' = [conn EXCEPT ![c].status = "failed"]
    /\ UNCHANGED <<doc, tab, acts, history>>

\* Runs write the state; other tabs save other settings, toggle or delete.
Elsewhere ==
    /\ acts < MaxActs
    /\ acts' = acts + 1
    /\ doc # NoDoc
    /\ \/ \E s \in {"OK", "ERROR"} : doc' = [doc EXCEPT !.state = s]
       \/ \E s \in Settings : doc' = [doc EXCEPT !.settings = s]
       \/ \E f \in Fields : doc' = [doc EXCEPT !.flags[f] = ~doc.flags[f]]
       \/ doc.sub \in Sub /\ doc' = [doc EXCEPT !.sub = "deleted"]
       \/ doc' = NoDoc
    /\ saved' = IF doc' = NoDoc THEN saved ELSE saved \cup {doc'.settings}
    /\ UNCHANGED <<tab, conn, fails, broken>>

------------------------------------------------------------------------------
(* The callbacks. *)

\* What is said on $rootScope once a request has succeeded, and what the page
\* listens to.  The two names for a swapped subscription differ.
Broadcasts ==
    [kind \in Fields \cup {"reset", "swapSub"} |->
        CASE kind = "enabled"     -> "check:swapCheckEnabled"
          [] kind = "live"        -> "check:swapCheckLiveEnabled"
          [] kind = "allowNoData" -> "check:swapCheckAllowNoDataEnabled"
          [] kind = "reset"       -> "check:updated"
          [] kind = "swapSub"     -> "subscription:swapCheckEnabled"]

Listens ==
    {"check:updated", "subscription:created", "subscription:updated",
     "check:swapCheckEnabled", "check:swapSubscriptionEnabled",
     "check:swapCheckLiveEnabled", "check:swapCheckAllowNoDataEnabled"}

\* Dialogs say it to the scopes around them, which are those of their visit;
\* the buttons of a subscription call loadCheck of theirs.
Reloads(r) ==
    \/ /\ r.kind \in DOMAIN Broadcasts
       /\ here /\ Broadcasts[r.kind] \in Listens
    \/ r.kind \in {"update", "createSub", "updateSub"} /\ here /\ r.visit = visit
    \/ r.kind \in {"deleteSub", "testSub"}

\* The visit to which the reload belongs.
ReloadFor(r) == IF r.kind \in {"deleteSub", "testSub"} THEN r.visit ELSE visit

NextRequest(r) ==
    IF Reloads(r)
    THEN [kind |-> "get", body |-> NoDoc, visit |-> ReloadFor(r),
          status |-> "sent"]
    ELSE Idle

\* MUTANT: a check that is shown is not replaced.
Show_Once(check) == shown' = IF shown = NoDoc THEN check ELSE shown

Show(check) == shown' = check

\* The dialog that a save closes, whatever the user has done with it since.
Closes(kind) ==
    CASE kind = "update" -> {"check"}
      [] kind \in {"createSub", "updateSub"} -> {"newSub", "sub"}
      [] OTHER -> {}

Succeeds(c) ==
    LET r == conn[c]
    IN  /\ r # Idle /\ r.status = "done"
        /\ IF r.kind = "get" /\ here /\ r.visit = visit
           THEN Show(r.body)
           ELSE UNCHANGED shown
        /\ dialog' = IF dialog \in Closes(r.kind) THEN "none" ELSE dialog
        /\ disabled' = disabled \ {r.kind}
        /\ here' = (here /\ r.kind # "delete")
        /\ conn' = [conn EXCEPT ![c] = NextRequest(r)]
        /\ UNCHANGED <<doc, visit, draft, acts, fails, history>>

\* MUTANT: only success enables a button.
EnabledAgain_Never(kind) == {}

\* The dialogs' update functions leave their button disabled.
EnabledAgain(kind) ==
    IF kind \in {"update", "updateSub"} THEN {} ELSE {kind}

\* All other error callbacks only log.  What the page's copy was changed to
\* stays there until the next load.
Errs(c) ==
    LET r == conn[c]
    IN  /\ r # Idle /\ r.status = "failed"
        /\ disabled' = disabled \ EnabledAgain(r.kind)
        /\ broken' = IF r.kind \in {"update", "updateSub"}
                     THEN broken \cup {r.visit}
                     ELSE broken
        /\ conn' = [conn EXCEPT ![c] = Idle]
        /\ UNCHANGED <<doc, here, visit, shown, dialog, draft, acts, fails, saved>>

------------------------------------------------------------------------------

UserStep ==
    \/ \E f \in Fields : SwapField(f)
    \/ ResetCheckState
    \/ SwapSubscriptionEnabled
    \/ DeleteOrTestSubscription
    \/ DeleteCheck
    \/ EditCheck
    \/ EditSubscription
    \/ Reset
    \/ SaveDialog("check", "update")
    \/ SaveDialog("newSub", "createSub")
    \/ SaveDialog("sub", "updateSub")
    \/ Leave
    \/ Visit

Next ==
    \/ LoadCheck
    \/ UserStep
    \/ Elsewhere
    \/ \E c \in Conns : Serve(c) \/ Lose(c) \/ Succeeds(c) \/ Errs(c)

Spec == Init /\ [][Next]_vars

\* The timer fires, the server answers, callbacks run.  Users owe nothing.
FairSpec ==
    /\ Spec
    /\ WF_vars(LoadCheck)
    /\ \A c \in Conns : WF_vars(Serve(c)) /\ WF_vars(Succeeds(c) \/ Errs(c))

------------------------------------------------------------------------------

\* What is typed into the dialog is stored only if somebody has pressed Save:
\* not by the checkboxes, which send the whole page's copy, and not after Cancel.
OnlySavedSettings == doc # NoDoc => doc.settings \in saved

UnderWay(b) == {c \in Conns : conn[c] # Idle /\ conn[c].kind = b}

\* A button that looks disabled has a request of this visit under way, however
\* many were sent and in whatever order their answers come, or is the Save of a
\* dialog and a save of this visit has failed.
StuckOnlyAfterFailure ==
    \A b \in disabled :
        \/ \E c \in UnderWay(b) : conn[c].visit = visit
        \/ b \in {"update", "updateSub"} /\ visit \in broken

\* A tab that still shows a deleted check cannot bring it back: neither its
\* buttons nor its dialogs, nor a PUT sent before and served after the deletion.
DeletedCheckStays == [][doc = NoDoc => doc' = NoDoc]_vars

\* A tab that still shows a deleted subscription cannot bring it back.
DeletedSubscriptionStays ==
    [][doc # NoDoc /\ doc.sub = "deleted" =>
          doc' = NoDoc \/ doc'.sub = "deleted"]_vars

\* Once nobody writes any more, an open page comes to show what is stored and
\* goes on showing it, whatever answers overtook each other or failed before.
EventuallyShown == <>[](here /\ doc # NoDoc => shown = doc)
==============================================================================
