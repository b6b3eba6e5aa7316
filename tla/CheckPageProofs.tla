---------------------------- MODULE CheckPageProofs ----------------------------
(***************************************************************************)
(* Safety of the page of a check, for any number of requests under way,    *)
(* visits, clicks and failures: what a request carries, what it cannot     *)
(* bring back, and how a button relates to the requests it has sent.       *)
(***************************************************************************)
EXTENDS CheckPage, TLAPS

\* A request carries what its kind calls for, and only settings that are known
\* to have been saved.
GoodRequest(r, known) ==
    /\ r \in Request
    /\ r.kind \in SavesCheck => r.body \in CheckDoc
    /\ r.kind \in SavesSub => r.body \in SubDoc
    /\ r.kind = "get" => r.body \in CheckDoc \cup {NoDoc}
    /\ r.kind \in SavesCheck \cup {"get"} /\ r.body # NoDoc =>
          r.body.settings \in known

ConnInv == \A c \in Conns : conn[c] # Idle => GoodRequest(conn[c], saved)

DialogInv ==
    /\ dialog = "check" => draft \in CheckDoc
    /\ dialog \in {"newSub", "sub"} => draft \in SubDoc

ShownInv ==
    /\ OnlySavedSettings
    /\ shown # NoDoc => shown.settings \in saved

DataInv == TypeOK /\ ConnInv /\ DialogInv /\ ShownInv

------------------------------------------------------------------------------
(* Documents and requests. *)

LEMMA Copies ==
    ASSUME NEW d \in CheckDoc
    PROVE  /\ d # NoDoc /\ d.settings \in Settings
           /\ \A f \in Fields :
                 /\ [d EXCEPT !.flags[f] = ~d.flags[f]] \in CheckDoc
                 /\ [d EXCEPT !.flags[f] = ~d.flags[f]].settings = d.settings
                 /\ [d EXCEPT !.flags[f] = ~d.flags[f]].sub = d.sub
           /\ \A s \in {"OK", "ERROR"} :
                 /\ [d EXCEPT !.state = s] \in CheckDoc
                 /\ [d EXCEPT !.state = s].settings = d.settings
                 /\ [d EXCEPT !.state = s].sub = d.sub
           /\ \A s \in Settings :
                 /\ [d EXCEPT !.settings = s] \in CheckDoc
                 /\ [d EXCEPT !.settings = s].settings = s
                 /\ [d EXCEPT !.settings = s].sub = d.sub
           /\ \A s \in Sub \cup {"unborn", "deleted"} :
                 /\ [d EXCEPT !.sub = s] \in CheckDoc
                 /\ [d EXCEPT !.sub = s].settings = d.settings
                 /\ [d EXCEPT !.sub = s].sub = s
  <1>1. d # NoDoc /\ d.settings \in Settings
    BY ConstantsAssumption DEF CheckDoc, Sub
  <1>2. ASSUME NEW f \in Fields
        PROVE  /\ [d EXCEPT !.flags[f] = ~d.flags[f]] \in CheckDoc
               /\ [d EXCEPT !.flags[f] = ~d.flags[f]].settings = d.settings
               /\ [d EXCEPT !.flags[f] = ~d.flags[f]].sub = d.sub
    BY DEF CheckDoc
  <1>3. ASSUME NEW s \in {"OK", "ERROR"}
        PROVE  /\ [d EXCEPT !.state = s] \in CheckDoc
               /\ [d EXCEPT !.state = s].settings = d.settings
               /\ [d EXCEPT !.state = s].sub = d.sub
    BY DEF CheckDoc
  <1>4. ASSUME NEW s \in Settings
        PROVE  /\ [d EXCEPT !.settings = s] \in CheckDoc
               /\ [d EXCEPT !.settings = s].settings = s
               /\ [d EXCEPT !.settings = s].sub = d.sub
    BY DEF CheckDoc
  <1>5. ASSUME NEW s \in Sub \cup {"unborn", "deleted"}
        PROVE  /\ [d EXCEPT !.sub = s] \in CheckDoc
               /\ [d EXCEPT !.sub = s].settings = d.settings
               /\ [d EXCEPT !.sub = s].sub = s
    BY DEF CheckDoc
  <1> QED  BY <1>1, <1>2, <1>3, <1>4, <1>5

LEMMA Grows ==
    ASSUME NEW known, NEW more, known \subseteq more, NEW r, GoodRequest(r, known)
    PROVE  GoodRequest(r, more)
  BY DEF GoodRequest

\* A request that is sent joins those under way.
LEMMA Sent ==
    ASSUME TypeOK, ConnInv, NEW kind \in Kinds, NEW body, Send(kind, body),
           GoodRequest(New(kind, body), saved'), saved \subseteq saved'
    PROVE  conn' \in [Conns -> Request \cup {Idle}] /\ ConnInv'
  <1> DEFINE r == New(kind, body)
  <1>1. PICK c \in Conns : conn' = [conn EXCEPT ![c] = r]
    BY DEF Send
  <1>2. GoodRequest(r, saved')
    OBVIOUS
  <1> HIDE DEF r
  <1>3. r \in Request
    BY <1>2 DEF GoodRequest
  <1>4. conn' \in [Conns -> Request \cup {Idle}]
    BY <1>1, <1>3 DEF TypeOK
  <1>5. \A d \in Conns : conn'[d] # Idle => GoodRequest(conn'[d], saved')
    BY <1>1, <1>2, Grows DEF TypeOK, ConnInv
  <1> QED  BY <1>4, <1>5 DEF ConnInv

\* One request is replaced by another, or by none.
LEMMA Replaced ==
    ASSUME TypeOK, ConnInv, NEW c \in Conns, NEW r,
           conn' = [conn EXCEPT ![c] = r], saved' = saved,
           r = Idle \/ GoodRequest(r, saved)
    PROVE  conn' \in [Conns -> Request \cup {Idle}] /\ ConnInv'
  <1>1. r \in Request \cup {Idle}
    BY DEF GoodRequest
  <1> QED  BY <1>1 DEF TypeOK, ConnInv
\* What the page sends.
LEMMA News ==
    ASSUME TypeOK, NEW known,
           NEW kind \in Kinds, NEW body \in CheckDoc \cup SubDoc \cup {NoDoc},
           kind \in SavesCheck => body \in CheckDoc /\ body.settings \in known,
           kind \in SavesSub => body \in SubDoc,
           kind = "get" => body = NoDoc
    PROVE  GoodRequest(New(kind, body), known)
  <1>1. New(kind, body) \in Request
    BY DEF New, Request, TypeOK
  <1>2. New(kind, body).kind = kind /\ New(kind, body).body = body
    BY DEF New
  <1>3. "get" \notin SavesCheck
    BY ConstantsAssumption DEF SavesCheck
  <1> HIDE DEF New
  <1> QED  BY <1>1, <1>2, <1>3 DEF GoodRequest

------------------------------------------------------------------------------
(* The page's and the user's steps. *)

LEMMA LoadData == ASSUME DataInv, LoadCheck PROVE DataInv'
  <1> USE DEF DataInv
  <1>1. GoodRequest(New("get", NoDoc), saved')
    BY News, ConstantsAssumption DEF Kinds, SavesCheck, SavesSub
  <1>2. conn' \in [Conns -> Request \cup {Idle}] /\ ConnInv'
    BY <1>1, Sent DEF LoadCheck, history, Kinds
  <1> QED
    BY <1>2 DEF LoadCheck, tab, history, TypeOK, DialogInv, ShownInv,
                OnlySavedSettings

\* The buttons that change the page's copy and send it or a part of it.
LEMMA CopyData ==
    ASSUME DataInv, Click, NEW copy \in CheckDoc, shown' = copy,
           copy.settings = shown.settings, NEW kind \in Kinds,
           NEW body \in CheckDoc \cup SubDoc, Send(kind, body),
           kind \in SavesCheck => body = copy,
           kind \in SavesSub => body \in SubDoc, kind # "get",
           UNCHANGED <<doc, here, visit, dialog, draft, disabled, fails, history>>
    PROVE  DataInv'
  <1> USE DEF DataInv
  <1>1. copy.settings \in saved /\ saved' = saved
    BY DEF Click, ShownInv, history
  <1>2. GoodRequest(New(kind, body), saved')
    BY <1>1, News
  <1>3. conn' \in [Conns -> Request \cup {Idle}] /\ ConnInv'
    BY <1>1, <1>2, Sent
  <1>4. acts' \in 0 .. MaxActs
    BY ConstantsAssumption DEF Click, TypeOK
  <1>5. TypeOK'
    BY <1>3, <1>4 DEF TypeOK, history
  <1> QED
    BY <1>1, <1>3, <1>5 DEF history, DialogInv, ShownInv, OnlySavedSettings

LEMMA SwapFieldData ==
    ASSUME DataInv, NEW f \in Fields, SwapField(f)
    PROVE  DataInv'
  <1> DEFINE copy == [shown EXCEPT !.flags[f] = ~shown.flags[f]]
  <1>1. shown \in CheckDoc
    BY DEF SwapField, Click, DataInv, TypeOK
  <1>2. copy \in CheckDoc /\ copy.settings = shown.settings
    BY <1>1, Copies
  <1>3. /\ Click /\ shown' = copy /\ Send(f, copy)
        /\ UNCHANGED <<doc, here, visit, dialog, draft, disabled, fails, history>>
    BY DEF SwapField
  <1> HIDE DEF copy
  <1>4. f \in Kinds /\ f \in SavesCheck /\ f # "get" /\ f \notin SavesSub
    BY ConstantsAssumption DEF Kinds, SavesCheck, SavesSub
  <1> QED  BY <1>2, <1>3, <1>4, CopyData

LEMMA ResetStateData == ASSUME DataInv, ResetCheckState PROVE DataInv'
  <1> DEFINE copy == [shown EXCEPT !.state = "OK"]
  <1>1. shown \in CheckDoc
    BY DEF ResetCheckState, Click, DataInv, TypeOK
  <1>2. copy \in CheckDoc /\ copy.settings = shown.settings
    BY <1>1, Copies
  <1>3. /\ Click /\ shown' = copy /\ Send("reset", copy)
        /\ UNCHANGED <<doc, here, visit, dialog, draft, disabled, fails, history>>
    BY DEF ResetCheckState, Send
  <1> HIDE DEF copy
  <1>4. "reset" \in Kinds /\ "reset" \notin SavesSub
    BY DEF Kinds, SavesCheck, SavesSub
  <1> QED  BY <1>2, <1>3, <1>4, CopyData

LEMMA SwapSubData == ASSUME DataInv, SwapSubscriptionEnabled PROVE DataInv'
  <1> DEFINE s == IF shown.sub = "on" THEN "off" ELSE "on"
             copy == [shown EXCEPT !.sub = s]
             body == [sub |-> s]
  <1>1. shown \in CheckDoc
    BY DEF SwapSubscriptionEnabled, Click, DataInv, TypeOK
  <1>2. s \in Sub
    BY DEF Sub
  <1>3. copy \in CheckDoc /\ copy.settings = shown.settings /\ body \in SubDoc
    <2>1. body \in SubDoc
      BY <1>2 DEF SubDoc
    <2> HIDE DEF s, body
    <2>2. s \in Sub \cup {"unborn", "deleted"}
      BY <1>2
    <2> QED  BY <1>1, <2>1, <2>2, Copies
  <1>4. /\ Click /\ shown' = copy /\ Send("swapSub", body)
        /\ UNCHANGED <<doc, here, visit, dialog, draft, disabled, fails, history>>
    BY DEF SwapSubscriptionEnabled
  <1> HIDE DEF s, copy, body
  <1>5. "swapSub" \in Kinds /\ "swapSub" \notin SavesCheck
    BY ConstantsAssumption DEF Kinds, SavesCheck, SavesSub
  <1> QED  BY <1>3, <1>4, <1>5, CopyData

\* Buttons that send nothing but their name.
LEMMA PlainData ==
    ASSUME DataInv, Click, NEW kind \in {"deleteSub", "testSub", "delete"},
           Send(kind, NoDoc), disabled' \in {disabled, disabled \cup {"delete"}},
           UNCHANGED <<doc, here, visit, shown, dialog, draft, fails, history>>
    PROVE  DataInv'
  <1> USE DEF DataInv
  <1>1. kind \in Kinds /\ kind \notin SavesCheck /\ kind \notin SavesSub
    BY ConstantsAssumption DEF Kinds, SavesCheck, SavesSub
  <1>2. GoodRequest(New(kind, NoDoc), saved')
    BY <1>1, News
  <1>3. conn' \in [Conns -> Request \cup {Idle}] /\ ConnInv'
    BY <1>1, <1>2, Sent DEF history
  <1>4. acts' \in 0 .. MaxActs /\ disabled' \in SUBSET Buttons
    BY ConstantsAssumption DEF Click, TypeOK, Buttons
  <1> QED
    BY <1>3, <1>4 DEF history, TypeOK, DialogInv, ShownInv, OnlySavedSettings

\* Dialogs open and close without a request.
LEMMA DialogData ==
    ASSUME DataInv, EditCheck \/ EditSubscription \/ Reset
    PROVE  DataInv'
  <1> USE DEF DataInv
  <1>1. CASE EditCheck
    <2>1. shown \in CheckDoc
      BY <1>1 DEF EditCheck, Click, TypeOK
    <2>2. draft' \in CheckDoc
      <3>1. PICK s \in Settings : draft' = [shown EXCEPT !.settings = s]
        BY <1>1 DEF EditCheck
      <3>2. [shown EXCEPT !.settings = s] \in CheckDoc
        BY <2>1, Copies
      <3> QED  BY <3>1, <3>2
    <2>3. acts' \in 0 .. MaxActs
      BY <1>1, ConstantsAssumption DEF EditCheck, Click, TypeOK
    <2> QED
      BY <1>1, <2>2, <2>3 DEF EditCheck, history, TypeOK, ConnInv, DialogInv,
                              ShownInv, OnlySavedSettings
  <1>2. CASE EditSubscription
    <2>1. acts' \in 0 .. MaxActs
      BY <1>2, ConstantsAssumption DEF EditSubscription, Click, TypeOK
    <2> QED
      BY <1>2, <2>1 DEF EditSubscription, history, TypeOK, ConnInv, DialogInv,
                        ShownInv, OnlySavedSettings
  <1>3. CASE Reset
    BY <1>3 DEF Reset, history, TypeOK, ConnInv, DialogInv, ShownInv,
                OnlySavedSettings
  <1> QED  BY <1>1, <1>2, <1>3

LEMMA SaveData ==
    ASSUME DataInv, NEW d, NEW kind, SaveDialog(d, kind),
           <<d, kind>> \in {<<"check", "update">>, <<"newSub", "createSub">>,
                            <<"sub", "updateSub">>}
    PROVE  DataInv'
  <1> USE DEF DataInv
  <1>1. /\ kind \in Kinds \cap Buttons /\ kind # "get"
        /\ kind \in SavesCheck => d = "check" /\ kind = "update"
        /\ kind \in SavesSub => d \in {"newSub", "sub"}
        /\ d = "check" <=> kind = "update"
        /\ d \in {"check", "newSub", "sub"}
    BY ConstantsAssumption DEF Kinds, SavesCheck, SavesSub, Buttons
  <1>2. saved \subseteq saved' /\ (kind = "update" => draft.settings \in saved')
    BY DEF SaveDialog
  <1>3. /\ d = "check" => draft \in CheckDoc
        /\ d \in {"newSub", "sub"} => draft \in SubDoc
    BY DEF SaveDialog, DialogInv
  <1>4. GoodRequest(New(kind, draft), saved')
    BY <1>1, <1>2, <1>3, News
  <1>5. conn' \in [Conns -> Request \cup {Idle}] /\ ConnInv'
    BY <1>1, <1>2, <1>4, Sent DEF SaveDialog
  <1>6. acts' \in 0 .. MaxActs /\ disabled' \in SUBSET Buttons
    BY <1>1, ConstantsAssumption DEF SaveDialog, Click, TypeOK
  <1>7. saved' \in SUBSET Settings
    <2>1. draft \in CheckDoc => draft.settings \in Settings
      BY Copies
    <2>2. saved \in SUBSET Settings
      BY DEF TypeOK
    <2>3. saved' = IF kind = "update" THEN saved \cup {draft.settings} ELSE saved
      BY DEF SaveDialog
    <2> QED  BY <1>1, <1>3, <2>1, <2>2, <2>3
  <1>8. TypeOK'
    BY <1>5, <1>6, <1>7 DEF SaveDialog, TypeOK
  <1>9. DialogInv' /\ ShownInv'
    BY <1>2 DEF SaveDialog, DialogInv, ShownInv, OnlySavedSettings
  <1> QED  BY <1>5, <1>8, <1>9

LEMMA TravelData == ASSUME DataInv, Leave \/ Visit PROVE DataInv'
  <1>1. CASE Leave
    BY <1>1 DEF Leave, history, DataInv, TypeOK, ConnInv, DialogInv, ShownInv,
                OnlySavedSettings
  <1>2. CASE Visit
    <2>1. visit' \in 1 .. MaxVisits
      BY <1>2, ConstantsAssumption DEF Visit, DataInv, TypeOK
    <2> QED
      BY <1>2, <2>1 DEF Visit, history, DataInv, TypeOK, ConnInv, DialogInv,
                        ShownInv, OnlySavedSettings
  <1> QED  BY <1>1, <1>2
------------------------------------------------------------------------------
(* The server's and the others' steps. *)

\* What serving a request makes of the stored check.
LEMMA EffectData ==
    ASSUME DataInv, NEW c \in Conns, conn[c] # Idle, NEW ok \in BOOLEAN,
           Effect(conn[c], ok)
    PROVE  /\ doc' \in CheckDoc \cup {NoDoc}
           /\ doc' # NoDoc => doc'.settings \in saved
           /\ doc # NoDoc /\ doc.sub = "deleted" =>
                 doc' = NoDoc \/ doc'.sub = "deleted"
  <1> DEFINE r == conn[c]
             Goal == /\ doc' \in CheckDoc \cup {NoDoc}
                     /\ doc' # NoDoc => doc'.settings \in saved
                     /\ doc # NoDoc /\ doc.sub = "deleted" =>
                           doc' = NoDoc \/ doc'.sub = "deleted"
  <1>1. GoodRequest(r, saved)
    BY DEF DataInv, ConnInv
  <1>2. doc \in CheckDoc \cup {NoDoc} /\ (doc # NoDoc => doc.settings \in saved)
    BY DEF DataInv, TypeOK, ShownInv, OnlySavedSettings
  <1>3. Effect(r, ok)
    OBVIOUS
  <1> HIDE DEF r
  <1>4. CASE UNCHANGED doc
    BY <1>2, <1>4
  <1>5. CASE doc' = NoDoc
    BY <1>5
  <1>6. CASE r.kind \in SavesCheck /\ SaveCheck(r.body)
    <2>1. CASE doc = NoDoc
      BY <1>5, <1>6, <2>1 DEF SaveCheck
    <2>2. CASE doc # NoDoc
      <3>1. r.body \in CheckDoc /\ r.body # NoDoc /\ r.body.settings \in saved
        BY <1>1, <1>6, Copies DEF GoodRequest
      <3>2. doc.sub \in Sub \cup {"unborn", "deleted"}
        BY <1>2, <2>2 DEF CheckDoc
      <3>3. doc' = [r.body EXCEPT !.sub = doc.sub]
        BY <1>6, <2>2 DEF SaveCheck
      <3>4. ASSUME NEW b \in CheckDoc, NEW s \in Sub \cup {"unborn", "deleted"},
                   doc' = [b EXCEPT !.sub = s]
            PROVE  /\ doc' \in CheckDoc /\ doc'.settings = b.settings
                   /\ doc'.sub = s
        BY <3>4 DEF CheckDoc
      <3>5. /\ doc' \in CheckDoc /\ doc'.settings = r.body.settings
            /\ doc'.sub = doc.sub
        BY <3>1, <3>2, <3>3, <3>4
      <3> QED  BY <3>1, <3>5
    <2> QED  BY <2>1, <2>2
  <1>7. ASSUME NEW s \in Sub \cup {"deleted"}, doc # NoDoc, doc.sub # "deleted",
               doc' = [doc EXCEPT !.sub = s]
        PROVE  Goal
    BY <1>2, <1>7, Copies
  <1>8. CASE r.kind \in {"updateSub", "swapSub"} /\ StoreSub(r.body.sub)
    <2>1. r.body.sub \in Sub
      BY <1>1, <1>8 DEF GoodRequest, SavesSub, SubDoc
    <2>2. "deleted" \notin Sub
      BY DEF Sub
    <2> QED  BY <1>4, <1>7, <1>8, <2>1, <2>2 DEF StoreSub
  <1>9. CASE /\ r.kind = "createSub"
             /\ doc' = IF doc # NoDoc /\ doc.sub = "unborn"
                       THEN [doc EXCEPT !.sub = r.body.sub]
                       ELSE doc
    <2>1. r.body.sub \in Sub
      BY <1>1, <1>9 DEF GoodRequest, SavesSub, SubDoc
    <2> QED  BY <1>4, <1>7, <1>9, <2>1
  <1>10. CASE /\ r.kind = "deleteSub"
              /\ doc' = IF doc # NoDoc /\ doc.sub \in Sub
                        THEN [doc EXCEPT !.sub = "deleted"]
                        ELSE doc
    <2>1. "deleted" \notin Sub
      BY DEF Sub
    <2> QED  BY <1>4, <1>7, <1>10, <2>1
  <1> QED  BY <1>3, <1>4, <1>5, <1>6, <1>8, <1>9, <1>10 DEF Effect

LEMMA ServeData ==
    ASSUME DataInv, NEW c \in Conns, Serve(c)
    PROVE  DataInv'
  <1>1. conn[c] # Idle /\ GoodRequest(conn[c], saved)
    BY DEF Serve, DataInv, ConnInv
  <1>2. PICK ok \in BOOLEAN :
           Effect(conn[c], ok) /\ conn' = [conn EXCEPT ![c] = Answer(conn[c], ok)]
    BY DEF Serve
  <1>3. doc' \in CheckDoc \cup {NoDoc} /\ (doc' # NoDoc => doc'.settings \in saved)
    BY <1>1, <1>2, EffectData
  <1> DEFINE r == conn[c]
             a == Answer(conn[c], ok)
  <1>4. doc \in CheckDoc \cup {NoDoc} /\ (doc # NoDoc => doc.settings \in saved)
    BY DEF DataInv, TypeOK, ShownInv, OnlySavedSettings
  <1>5. /\ a.kind = r.kind /\ a.visit = r.visit
        /\ a.status \in {"done", "failed"}
        /\ a.body = IF r.kind = "get" THEN doc ELSE r.body
        /\ a = [kind |-> a.kind, body |-> a.body, visit |-> a.visit,
                status |-> a.status]
    BY DEF Answer
  <1>6. GoodRequest(r, saved) /\ conn' = [conn EXCEPT ![c] = a]
    BY <1>1, <1>2
  <1> HIDE DEF r, a
  <1>7. /\ r.kind \in Kinds /\ r.visit \in 1 .. MaxVisits
        /\ r.body \in CheckDoc \cup SubDoc \cup {NoDoc}
    BY <1>6 DEF GoodRequest, Request
  <1>8. a \in Request
    BY <1>4, <1>5, <1>7 DEF Request
  <1>9. "get" \notin SavesCheck /\ "get" \notin SavesSub
    BY ConstantsAssumption DEF SavesCheck, SavesSub
  <1>10. GoodRequest(a, saved)
    BY <1>4, <1>5, <1>6, <1>8, <1>9 DEF GoodRequest
  <1>11. saved' = saved
    BY DEF Serve, history
  <1>12. conn' \in [Conns -> Request \cup {Idle}] /\ ConnInv'
    BY <1>6, <1>10, <1>11, Replaced DEF DataInv
  <1> QED
    BY <1>3, <1>12 DEF Serve, tab, history, DataInv, TypeOK, DialogInv, ShownInv,
                       OnlySavedSettings

LEMMA LoseData ==
    ASSUME DataInv, NEW c \in Conns, Lose(c)
    PROVE  DataInv'
  <1> DEFINE r == conn[c]
             a == [r EXCEPT !.status = "failed"]
  <1>1. conn[c] # Idle /\ GoodRequest(r, saved) /\ r \in Request
    BY DEF Lose, DataInv, ConnInv, GoodRequest
  <1>2. conn' = [conn EXCEPT ![c] = a] /\ saved' = saved
    BY DEF Lose, history
  <1>3. a \in Request /\ a.kind = r.kind /\ a.body = r.body
    BY <1>1 DEF Request
  <1>4. fails' \in 0 .. MaxFails
    BY ConstantsAssumption DEF Lose, DataInv, TypeOK
  <1>5. GoodRequest(a, saved)
    <2> HIDE DEF r, a
    <2> QED  BY <1>1, <1>3 DEF GoodRequest
  <1>6. conn' \in [Conns -> Request \cup {Idle}] /\ ConnInv'
    <2> HIDE DEF r, a
    <2> QED  BY <1>2, <1>5, Replaced DEF DataInv
  <1> QED
    BY <1>4, <1>6 DEF Lose, tab, history, DataInv, TypeOK, DialogInv, ShownInv,
                      OnlySavedSettings

LEMMA ElsewhereDoc ==
    ASSUME DataInv, Elsewhere
    PROVE  /\ doc' \in CheckDoc \cup {NoDoc}
           /\ doc.sub = "deleted" => doc' = NoDoc \/ doc'.sub = "deleted"
  <1>1. doc \in CheckDoc
    BY DEF Elsewhere, DataInv, TypeOK
  <1>2. ASSUME NEW s \in {"OK", "ERROR"}, doc' = [doc EXCEPT !.state = s]
        PROVE  doc' \in CheckDoc /\ doc'.sub = doc.sub
    BY <1>1, <1>2, Copies
  <1>3. ASSUME NEW s \in Settings, doc' = [doc EXCEPT !.settings = s]
        PROVE  doc' \in CheckDoc /\ doc'.sub = doc.sub
    BY <1>1, <1>3, Copies
  <1>4. ASSUME NEW f \in Fields, doc' = [doc EXCEPT !.flags[f] = ~doc.flags[f]]
        PROVE  doc' \in CheckDoc /\ doc'.sub = doc.sub
    BY <1>1, <1>4, Copies
  <1>5. ASSUME doc' = [doc EXCEPT !.sub = "deleted"]
        PROVE  doc' \in CheckDoc /\ doc'.sub = "deleted"
    <2>1. "deleted" \in Sub \cup {"unborn", "deleted"}
      OBVIOUS
    <2> QED  BY <1>1, <1>5, <2>1, Copies
  <1> QED  BY <1>2, <1>3, <1>4, <1>5 DEF Elsewhere

LEMMA ElsewhereData == ASSUME DataInv, Elsewhere PROVE DataInv'
  <1>1. doc' \in CheckDoc \cup {NoDoc}
    BY ElsewhereDoc
  <1>2. saved' = IF doc' = NoDoc THEN saved ELSE saved \cup {doc'.settings}
    BY DEF Elsewhere
  <1>3. saved \subseteq saved' /\ saved' \in SUBSET Settings
    <2>1. \A d \in CheckDoc : d.settings \in Settings
      BY Copies
    <2>2. saved \in SUBSET Settings
      BY DEF DataInv, TypeOK
    <2> QED  BY <1>1, <1>2, <2>1, <2>2
  <1>4. acts' \in 0 .. MaxActs
    BY ConstantsAssumption DEF Elsewhere, DataInv, TypeOK
  <1>5. TypeOK'
    BY <1>1, <1>3, <1>4 DEF Elsewhere, tab, DataInv, TypeOK
  <1>6. ConnInv'
    BY <1>3, Grows DEF Elsewhere, DataInv, ConnInv
  <1>7. DialogInv' /\ ShownInv'
    BY <1>2, <1>3 DEF Elsewhere, tab, DataInv, DialogInv, ShownInv,
                      OnlySavedSettings
  <1> QED  BY <1>5, <1>6, <1>7 DEF DataInv

------------------------------------------------------------------------------
(* The callbacks' steps. *)

LEMMA SucceedsData ==
    ASSUME DataInv, NEW c \in Conns, Succeeds(c)
    PROVE  DataInv'
  <1> DEFINE r == conn[c]
             n == NextRequest(r)
  <1>1. r # Idle /\ GoodRequest(r, saved)
    BY DEF Succeeds, DataInv, ConnInv
  <1>2. /\ conn' = [conn EXCEPT ![c] = n] /\ saved' = saved
        /\ UNCHANGED <<doc, visit, draft, acts, fails, history>>
        /\ dialog' = dialog \/ dialog' = "none"
        /\ disabled' \subseteq disabled
        /\ here' \in BOOLEAN
        /\ shown' = shown \/ (r.kind = "get" /\ shown' = r.body)
    <2>1. /\ conn' = [conn EXCEPT ![c] = n] /\ saved' = saved
          /\ UNCHANGED <<doc, visit, draft, acts, fails, history>>
      BY DEF Succeeds, history
    <2>2. dialog' = dialog \/ dialog' = "none"
      BY DEF Succeeds
    <2>3. disabled' \subseteq disabled
      BY DEF Succeeds
    <2>4. here' \in BOOLEAN
      <3>1. here' = (here /\ r.kind # "delete")
        BY DEF Succeeds
      <3> HIDE DEF r
      <3> QED  BY <3>1
    <2>5. shown' = shown \/ (r.kind = "get" /\ shown' = r.body)
      <3>1. CASE r.kind = "get" /\ here /\ r.visit = visit
        BY <3>1 DEF Succeeds, Show
      <3>2. CASE ~(r.kind = "get" /\ here /\ r.visit = visit)
        BY <3>2 DEF Succeeds, Show
      <3> QED  BY <3>1, <3>2
    <2> QED  BY <2>1, <2>2, <2>3, <2>4, <2>5
  <1>3. r.visit \in 1 .. MaxVisits /\ visit \in 1 .. MaxVisits
    BY <1>1 DEF GoodRequest, Request, DataInv, TypeOK
  <1>4. n = Idle \/ GoodRequest(n, saved)
    <2>1. ASSUME NEW v \in 1 .. MaxVisits
          PROVE  GoodRequest([kind |-> "get", body |-> NoDoc, visit |-> v,
                              status |-> "sent"], saved)
      <3> DEFINE g == [kind |-> "get", body |-> NoDoc, visit |-> v, status |-> "sent"]
      <3>1. g \in Request /\ g.kind = "get" /\ g.body = NoDoc
        BY DEF Request, Kinds
      <3>2. "get" \notin SavesCheck /\ "get" \notin SavesSub
        BY ConstantsAssumption DEF SavesCheck, SavesSub
      <3> HIDE DEF g
      <3>3. GoodRequest(g, saved)
        BY <3>1, <3>2 DEF GoodRequest
      <3> QED  BY <3>3 DEF g
    <2>2. ReloadFor(r) \in 1 .. MaxVisits
      BY <1>3 DEF ReloadFor
    <2> QED  BY <2>1, <2>2 DEF NextRequest
  <1> HIDE DEF r, n
  <1>5. conn' \in [Conns -> Request \cup {Idle}] /\ ConnInv'
    BY <1>2, <1>4, Replaced DEF DataInv
  <1>6. /\ shown' \in CheckDoc \cup {NoDoc}
        /\ shown' # NoDoc => shown'.settings \in saved
    BY <1>1, <1>2 DEF GoodRequest, DataInv, TypeOK, ShownInv
  <1>7. TypeOK'
    BY <1>2, <1>5, <1>6 DEF history, DataInv, TypeOK
  <1>8. DialogInv' /\ ShownInv'
    BY <1>2, <1>6 DEF history, DataInv, DialogInv, ShownInv, OnlySavedSettings
  <1> QED  BY <1>5, <1>7, <1>8 DEF DataInv

LEMMA ErrsData ==
    ASSUME DataInv, NEW c \in Conns, Errs(c)
    PROVE  DataInv'
  <1>1. conn[c] # Idle /\ GoodRequest(conn[c], saved)
    BY DEF Errs, DataInv, ConnInv
  <1>2. /\ conn' = [conn EXCEPT ![c] = Idle] /\ saved' = saved
        /\ UNCHANGED <<doc, here, visit, shown, dialog, draft, acts, fails, saved>>
        /\ disabled' \subseteq disabled
        /\ broken' \subseteq broken \cup {conn[c].visit}
    BY DEF Errs
  <1>3. conn[c].visit \in 1 .. MaxVisits
    BY <1>1 DEF GoodRequest, Request
  <1>4. conn' \in [Conns -> Request \cup {Idle}] /\ ConnInv'
    BY <1>2, Replaced DEF DataInv
  <1>5. TypeOK'
    BY <1>2, <1>3, <1>4 DEF DataInv, TypeOK
  <1>6. DialogInv' /\ ShownInv'
    BY <1>2 DEF DataInv, DialogInv, ShownInv, OnlySavedSettings
  <1> QED  BY <1>4, <1>5, <1>6 DEF DataInv

LEMMA DataStep == DataInv /\ [Next]_vars => DataInv'
  <1> SUFFICES ASSUME DataInv, [Next]_vars
               PROVE  DataInv'
    OBVIOUS
  <1>1. CASE UserStep
    <2>1. ASSUME NEW f \in Fields, SwapField(f) PROVE DataInv'
      BY <2>1, SwapFieldData
    <2>2. CASE ResetCheckState
      BY <2>2, ResetStateData
    <2>3. CASE SwapSubscriptionEnabled
      BY <2>3, SwapSubData
    <2>4. CASE DeleteOrTestSubscription
      BY <2>4, PlainData DEF DeleteOrTestSubscription, tab
    <2>5. CASE DeleteCheck
      BY <2>5, PlainData DEF DeleteCheck
    <2>6. CASE EditCheck \/ EditSubscription \/ Reset
      BY <2>6, DialogData
    <2>7. CASE SaveDialog("check", "update")
      BY <2>7, SaveData
    <2>8. CASE SaveDialog("newSub", "createSub")
      BY <2>8, SaveData
    <2>9. CASE SaveDialog("sub", "updateSub")
      BY <2>9, SaveData
    <2>10. CASE Leave \/ Visit
      BY <2>10, TravelData
    <2> QED  BY <1>1, <2>1, <2>2, <2>3, <2>4, <2>5, <2>6, <2>7, <2>8, <2>9, <2>10
             DEF UserStep
  <1>2. CASE LoadCheck
    BY <1>2, LoadData
  <1>3. CASE Elsewhere
    BY <1>3, ElsewhereData
  <1>4. ASSUME NEW c \in Conns, Serve(c) \/ Lose(c) \/ Succeeds(c) \/ Errs(c)
        PROVE  DataInv'
    BY <1>4, ServeData, LoseData, SucceedsData, ErrsData
  <1>5. CASE UNCHANGED vars
    BY <1>5 DEF vars, DataInv, TypeOK, ConnInv, DialogInv, ShownInv,
                OnlySavedSettings
  <1> QED  BY <1>1, <1>2, <1>3, <1>4, <1>5 DEF Next

LEMMA InitData == Init => DataInv
  <1> SUFFICES ASSUME Init
               PROVE  DataInv
    OBVIOUS
  <1>1. PICK s \in Settings, sub \in {"unborn", "on"} :
           doc = [flags |-> [f \in Fields |-> f = "enabled"], settings |-> s,
                  state |-> "OK", sub |-> sub]
    BY DEF Init
  <1>2. doc \in CheckDoc
    BY <1>1 DEF CheckDoc, Sub
  <1>3. doc.settings \in Settings
    BY <1>2, Copies
  <1>4. 1 \in 1 .. MaxVisits /\ 0 \in 0 .. MaxActs /\ 0 \in 0 .. MaxFails
    BY ConstantsAssumption
  <1>5. TypeOK
    BY <1>2, <1>3, <1>4 DEF Init, TypeOK
  <1>6. ConnInv /\ DialogInv /\ ShownInv
    BY DEF Init, ConnInv, DialogInv, ShownInv, OnlySavedSettings
  <1> QED  BY <1>5, <1>6 DEF DataInv

THEOREM DataInvariant == Spec => []DataInv
  BY InitData, DataStep, PTL DEF Spec

\* Whatever requests overlap, and whatever visits their answers outlast, what is
\* stored, shown and sent are checks, subscriptions or nothing, as TypeOK says.
THEOREM PageTypes == Spec => []TypeOK
  <1>1. DataInv => TypeOK
    BY DEF DataInv
  <1> QED  BY <1>1, DataInvariant, PTL

\* Nothing is stored that somebody only typed and did not save: the dialog
\* works on a copy (editCheck), which no checkbox sends.
THEOREM OnlySaved == Spec => []OnlySavedSettings
  <1>1. DataInv => OnlySavedSettings
    BY DEF DataInv, ShownInv
  <1> QED  BY <1>1, DataInvariant, PTL

\* No request of a page that does not know of the deletion, and no PUT that was
\* sent before and is served after it, brings a deleted check back: saveCheck
\* updates and does not insert.
THEOREM DeletedCheck == Spec => DeletedCheckStays
  <1>1. ASSUME [Next]_vars, doc = NoDoc
        PROVE  doc' = NoDoc
    <2>1. ASSUME NEW c \in Conns, Serve(c)
          PROVE  doc' = NoDoc
      <3>1. PICK ok \in BOOLEAN : Effect(conn[c], ok)
        BY <2>1 DEF Serve
      <3> QED  BY <1>1, <3>1 DEF Effect, SaveCheck, StoreSub
    <2>2. CASE Elsewhere
      BY <1>1, <2>2 DEF Elsewhere
    <2>3. CASE UNCHANGED doc
      BY <1>1, <2>3
    <2> QED
      BY <1>1, <2>1, <2>2, <2>3
      DEF Next, UserStep, LoadCheck, SwapField, ResetCheckState,
          SwapSubscriptionEnabled, DeleteOrTestSubscription, DeleteCheck,
          EditCheck, EditSubscription, Reset, SaveDialog, Leave, Visit, Lose,
          Succeeds, Errs, vars
  <1>2. [Next]_vars => [doc = NoDoc => doc' = NoDoc]_vars
    BY <1>1
  <1> QED  BY <1>2, PTL DEF Spec, DeletedCheckStays

\* No request of a page that does not know of the deletion brings a deleted
\* subscription back (saveCheck, updateSubscription).
THEOREM DeletedSubscription == Spec => DeletedSubscriptionStays
  <1>1. ASSUME DataInv, [Next]_vars, doc # NoDoc /\ doc.sub = "deleted"
        PROVE  doc' = NoDoc \/ doc'.sub = "deleted"
    <2>1. ASSUME NEW c \in Conns, Serve(c)
          PROVE  doc' = NoDoc \/ doc'.sub = "deleted"
      <3>1. PICK ok \in BOOLEAN : Effect(conn[c], ok)
        BY <2>1 DEF Serve
      <3> QED  BY <1>1, <2>1, <3>1, EffectData DEF Serve
    <2>2. CASE Elsewhere
      BY <1>1, <2>2, ElsewhereDoc
    <2>3. CASE UNCHANGED doc
      BY <1>1, <2>3
    <2> QED
      BY <1>1, <2>1, <2>2, <2>3
      DEF Next, UserStep, LoadCheck, SwapField, ResetCheckState,
          SwapSubscriptionEnabled, DeleteOrTestSubscription, DeleteCheck,
          EditCheck, EditSubscription, Reset, SaveDialog, Leave, Visit, Lose,
          Succeeds, Errs, vars
  <1>2. DataInv /\ [Next]_vars =>
           [doc # NoDoc /\ doc.sub = "deleted" =>
               doc' = NoDoc \/ doc'.sub = "deleted"]_vars
    BY <1>1
  <1> QED  BY <1>2, DataInvariant, PTL DEF Spec, DeletedSubscriptionStays
------------------------------------------------------------------------------
(* Buttons.  StuckOnlyAfterFailure is inductive: a button gets the class      *)
(* "disabled" only with a request, and a request that ends takes it away,    *)
(* unless it marks its visit as broken.                                      *)

\* Steps that neither start nor end a request of a button.
LEMMA QuietButtons ==
    ASSUME StuckOnlyAfterFailure, UNCHANGED <<visit, disabled, broken>>,
           \A b \in Buttons : UnderWay(b)' = UnderWay(b),
           \A b \in Buttons : \A c \in UnderWay(b) : conn'[c].visit = conn[c].visit,
           disabled \in SUBSET Buttons
    PROVE  StuckOnlyAfterFailure'
  BY DEF StuckOnlyAfterFailure

\* A request of another kind than the buttons' is sent.
LEMMA OtherSent ==
    ASSUME TypeOK, StuckOnlyAfterFailure, UNCHANGED <<visit, disabled, broken>>,
           NEW kind \in Kinds \ Buttons, NEW body, Send(kind, body)
    PROVE  StuckOnlyAfterFailure'
  <1>1. PICK c \in Conns : conn[c] = Idle /\ conn' = [conn EXCEPT ![c] = New(kind, body)]
    BY DEF Send
  <1>2. New(kind, body).kind = kind
    BY DEF New
  <1> HIDE DEF New
  <1>3. \A b \in Buttons : UnderWay(b)' = UnderWay(b)
    BY <1>1, <1>2 DEF UnderWay, TypeOK
  <1>4. \A b \in Buttons : \A d \in UnderWay(b) : conn'[d].visit = conn[d].visit
    BY <1>1 DEF UnderWay, TypeOK
  <1>5. disabled \in SUBSET Buttons
    BY DEF TypeOK
  <1> QED  BY <1>3, <1>4, <1>5, QuietButtons

\* A button sends a request, be it its first or one more.
LEMMA ButtonSent ==
    ASSUME TypeOK, StuckOnlyAfterFailure, UNCHANGED <<visit, broken>>,
           NEW kind \in Buttons, NEW body, Send(kind, body),
           disabled' = disabled \cup {kind}, conn' \in [Conns -> Request \cup {Idle}],
           New(kind, body) \in Request
    PROVE  StuckOnlyAfterFailure'
  <1>1. PICK c \in Conns : conn[c] = Idle /\ conn' = [conn EXCEPT ![c] = New(kind, body)]
    BY DEF Send
  <1>2. /\ New(kind, body).kind = kind /\ New(kind, body).visit = visit
        /\ New(kind, body) # Idle
    BY IdleAssumption DEF New
  <1> HIDE DEF New
  <1>3. /\ conn'[c] = New(kind, body) /\ c \notin UnderWay(kind)
        /\ \A d \in Conns \ {c} : conn'[d] = conn[d]
    BY <1>1 DEF UnderWay, TypeOK
  <1>4. UnderWay(kind)' = UnderWay(kind) \cup {c}
    BY <1>2, <1>3 DEF UnderWay
  <1>5. \A b \in Buttons \ {kind} : UnderWay(b)' = UnderWay(b)
    BY <1>1, <1>2, <1>3 DEF UnderWay
  <1>6. ASSUME NEW b \in disabled'
        PROVE  \/ \E d \in UnderWay(b)' : conn'[d].visit = visit'
               \/ b \in {"update", "updateSub"} /\ visit' \in broken'
    <2>1. CASE b = kind
      BY <1>2, <1>3, <1>4, <2>1
    <2>2. CASE b # kind
      <3>1. b \in Buttons \ {kind} /\ b \in disabled
        BY <1>6, <2>2 DEF TypeOK
      <3>2. c \notin UnderWay(b)
        BY <1>1 DEF UnderWay
      <3>3. \A d \in UnderWay(b) : conn'[d] = conn[d]
        BY <1>3, <3>2 DEF UnderWay
      <3> QED  BY <1>5, <3>1, <3>3 DEF StuckOnlyAfterFailure
    <2> QED  BY <2>1, <2>2
  <1> QED  BY <1>6 DEF StuckOnlyAfterFailure

\* A request ends; its button takes clicks again, or is one of those whose
\* visit is marked.
LEMMA RequestEnds ==
    ASSUME TypeOK, StuckOnlyAfterFailure, NEW c \in Conns, conn[c] # Idle, NEW n,
           conn' = [conn EXCEPT ![c] = n],
           n = Idle \/ n.kind \notin Buttons,
           visit' = visit, broken \subseteq broken',
           \/ disabled' = disabled \ {conn[c].kind}
           \/ /\ disabled' = disabled
              /\ conn[c].kind \in {"update", "updateSub"}
              /\ conn[c].visit \in broken'
    PROVE  StuckOnlyAfterFailure'
  <1>1. conn'[c] = n /\ \A d \in Conns \ {c} : conn'[d] = conn[d]
    BY DEF TypeOK
  <1>2. \A b \in Buttons : UnderWay(b)' = UnderWay(b) \ {c}
    BY <1>1 DEF UnderWay
  <1>3. disabled \in SUBSET Buttons /\ disabled' \subseteq disabled
    BY DEF TypeOK
  <1>4. ASSUME NEW b \in disabled'
        PROVE  \/ \E d \in UnderWay(b)' : conn'[d].visit = visit'
               \/ b \in {"update", "updateSub"} /\ visit' \in broken'
    <2>1. b \in disabled /\ b \in Buttons
      BY <1>3, <1>4
    <2>2. CASE b \in {"update", "updateSub"} /\ visit \in broken
      BY <2>2
    <2>3. ASSUME NEW d \in UnderWay(b), conn[d].visit = visit
          PROVE  \/ \E e \in UnderWay(b)' : conn'[e].visit = visit'
                 \/ b \in {"update", "updateSub"} /\ visit' \in broken'
      <3>1. CASE d # c
        BY <1>1, <1>2, <2>1, <2>3, <3>1 DEF UnderWay
      <3>2. CASE d = c
        <4>1. b = conn[c].kind
          BY <2>3, <3>2 DEF UnderWay
        <4> QED  BY <1>4, <2>3, <3>2, <4>1
      <3> QED  BY <3>1, <3>2
    <2> QED  BY <2>1, <2>2, <2>3 DEF StuckOnlyAfterFailure
  <1> QED  BY <1>4 DEF StuckOnlyAfterFailure


LEMMA ButtonsStep ==
    DataInv /\ StuckOnlyAfterFailure /\ [Next]_vars => StuckOnlyAfterFailure'
  <1> SUFFICES ASSUME DataInv, StuckOnlyAfterFailure, [Next]_vars
               PROVE  StuckOnlyAfterFailure'
    OBVIOUS
  <1>1. TypeOK /\ TypeOK' /\ disabled \in SUBSET Buttons
    BY DataStep DEF DataInv, TypeOK
  <1>2. conn' \in [Conns -> Request \cup {Idle}]
    BY <1>1 DEF TypeOK
  <1>3. ASSUME UNCHANGED <<visit, disabled, broken, conn>>
        PROVE  StuckOnlyAfterFailure'
    <2>1. \A b \in Buttons : UnderWay(b)' = UnderWay(b)
      BY <1>3 DEF UnderWay
    <2> QED  BY <1>1, <1>3, <2>1, QuietButtons
  <1>4. ASSUME NEW kind \in Kinds \ Buttons, NEW body, Send(kind, body),
               UNCHANGED <<visit, disabled, broken>>
        PROVE  StuckOnlyAfterFailure'
    BY <1>1, <1>4, OtherSent
  <1>5. /\ "get" \in Kinds \ Buttons /\ "reset" \in Kinds \ Buttons
        /\ "swapSub" \in Kinds \ Buttons /\ "deleteSub" \in Kinds \ Buttons
        /\ "testSub" \in Kinds \ Buttons /\ Fields \subseteq Kinds \ Buttons
    BY ConstantsAssumption DEF Kinds, SavesCheck, SavesSub, Buttons
  <1>6. CASE LoadCheck
    BY <1>4, <1>5, <1>6 DEF LoadCheck, tab, history
  <1>7. ASSUME NEW f \in Fields, SwapField(f)
        PROVE  StuckOnlyAfterFailure'
    BY <1>4, <1>5, <1>7 DEF SwapField, history
  <1>8. CASE ResetCheckState
    <2>1. Send("reset", shown') /\ UNCHANGED <<visit, disabled, broken>>
      BY <1>8 DEF ResetCheckState, history
    <2>2. PICK c \in Conns :
             conn[c] = Idle /\ conn' = [conn EXCEPT ![c] = New("reset", shown')]
      BY <2>1 DEF Send
    <2>3. New("reset", shown').kind = "reset"
      BY DEF New
    <2> HIDE DEF New
    <2>4. \A b \in Buttons : UnderWay(b)' = UnderWay(b)
      BY <1>1, <1>5, <2>2, <2>3 DEF UnderWay, TypeOK
    <2>5. \A b \in Buttons : \A d \in UnderWay(b) : conn'[d].visit = conn[d].visit
      BY <1>1, <2>2 DEF UnderWay, TypeOK
    <2> QED  BY <1>1, <2>1, <2>4, <2>5, QuietButtons
  <1>9. CASE SwapSubscriptionEnabled
    BY <1>4, <1>5, <1>9 DEF SwapSubscriptionEnabled, history
  <1>10. CASE DeleteOrTestSubscription
    BY <1>4, <1>5, <1>10 DEF DeleteOrTestSubscription, tab, history
  <1>11. CASE DeleteCheck
    <2>1. "delete" \in Buttons /\ "delete" \in Kinds
      BY DEF Buttons, Kinds
    <2>2. New("delete", NoDoc) \in Request
      BY <1>1, <2>1 DEF New, Request, TypeOK
    <2> QED  BY <1>1, <1>2, <1>11, <2>1, <2>2, ButtonSent DEF DeleteCheck, history
  <1>12. CASE EditCheck \/ EditSubscription \/ Reset
    BY <1>3, <1>12 DEF EditCheck, EditSubscription, Reset, history
  <1>13. ASSUME NEW d, NEW kind \in Buttons, SaveDialog(d, kind)
         PROVE  StuckOnlyAfterFailure'
    <2>1. kind \in Kinds
      BY DEF Buttons, Kinds, SavesCheck, SavesSub
    <2>2. New(kind, draft) \in Request
      BY <1>1, <2>1 DEF New, Request, TypeOK
    <2> QED  BY <1>1, <1>2, <1>13, <2>2, ButtonSent DEF SaveDialog
  <1>14. CASE Leave
    BY <1>3, <1>14 DEF Leave, history
  <1>15. CASE Visit
    <2>1. disabled' = {}
      BY <1>15 DEF Visit
    <2> QED  BY <2>1 DEF StuckOnlyAfterFailure
  <1>16. CASE Elsewhere
    BY <1>3, <1>16 DEF Elsewhere, tab
  <1>17. ASSUME NEW c \in Conns, Serve(c) \/ Lose(c)
         PROVE  StuckOnlyAfterFailure'
    <2>1. /\ conn[c] # Idle /\ conn[c] \in Request
          /\ UNCHANGED <<visit, disabled, broken>>
      BY <1>1, <1>17 DEF Serve, Lose, tab, history, TypeOK
    <2>2. /\ conn'[c].kind = conn[c].kind /\ conn'[c].visit = conn[c].visit
          /\ conn'[c] # Idle
          /\ \A d \in Conns \ {c} : conn'[d] = conn[d]
      <3>1. CASE Serve(c)
        <4>1. PICK ok \in BOOLEAN : conn' = [conn EXCEPT ![c] = Answer(conn[c], ok)]
          BY <3>1 DEF Serve
        <4>2. /\ Answer(conn[c], ok).kind = conn[c].kind
              /\ Answer(conn[c], ok).visit = conn[c].visit
          BY DEF Answer
        <4>3. Answer(conn[c], ok) # Idle
          <5>1. doc \in CheckDoc \cup {NoDoc}
            BY <1>1 DEF TypeOK
          <5>2. Answer(conn[c], ok) \in Request
            BY <2>1, <5>1 DEF Answer, Request
          <5> QED  BY <5>2, IdleAssumption
        <4> HIDE DEF Answer
        <4> QED  BY <1>1, <4>1, <4>2, <4>3 DEF TypeOK
      <3>2. CASE Lose(c)
        <4> DEFINE a == [conn[c] EXCEPT !.status = "failed"]
        <4>1. conn' = [conn EXCEPT ![c] = a]
          BY <3>2 DEF Lose
        <4>2. a \in Request /\ a.kind = conn[c].kind /\ a.visit = conn[c].visit
          BY <2>1 DEF Request
        <4> HIDE DEF a
        <4> QED  BY <1>1, <4>1, <4>2, IdleAssumption DEF TypeOK
      <3> QED  BY <1>17, <3>1, <3>2
    <2>3. \A b \in Buttons : UnderWay(b)' = UnderWay(b)
      BY <2>1, <2>2 DEF UnderWay
    <2>4. \A b \in Buttons : \A d \in UnderWay(b) : conn'[d].visit = conn[d].visit
      BY <2>2 DEF UnderWay
    <2> QED  BY <1>1, <2>1, <2>3, <2>4, QuietButtons
  <1>18. ASSUME NEW c \in Conns, Succeeds(c)
         PROVE  StuckOnlyAfterFailure'
    <2> DEFINE n == NextRequest(conn[c])
    <2>1. /\ conn[c] # Idle /\ conn' = [conn EXCEPT ![c] = n]
          /\ visit' = visit /\ broken' = broken
          /\ disabled' = disabled \ {conn[c].kind}
      BY <1>18 DEF Succeeds, history
    <2>2. n = Idle \/ n.kind \notin Buttons
      BY DEF NextRequest, Buttons
    <2> HIDE DEF n
    <2> QED  BY <1>1, <2>1, <2>2, RequestEnds
  <1>19. ASSUME NEW c \in Conns, Errs(c)
         PROVE  StuckOnlyAfterFailure'
    <2>1. /\ conn[c] # Idle /\ conn' = [conn EXCEPT ![c] = Idle]
          /\ visit' = visit /\ broken \subseteq broken'
      BY <1>19 DEF Errs
    <2>2. CASE conn[c].kind \in {"update", "updateSub"}
      <3>1. disabled' = disabled /\ conn[c].visit \in broken'
        BY <1>19, <2>2 DEF Errs, EnabledAgain
      <3> QED  BY <1>1, <2>1, <2>2, <3>1, RequestEnds
    <2>3. CASE conn[c].kind \notin {"update", "updateSub"}
      <3>1. disabled' = disabled \ {conn[c].kind}
        BY <1>19, <2>3 DEF Errs, EnabledAgain
      <3> QED  BY <1>1, <2>1, <3>1, RequestEnds
    <2> QED  BY <2>2, <2>3
  <1>20. CASE UNCHANGED vars
    BY <1>3, <1>20 DEF vars
  <1>21. {"update", "createSub", "updateSub"} \subseteq Buttons
    BY DEF Buttons
  <1> QED
    BY <1>6, <1>7, <1>8, <1>9, <1>10, <1>11, <1>12, <1>13, <1>14, <1>15, <1>16,
       <1>17, <1>18, <1>19, <1>20, <1>21 DEF Next, UserStep

\* A button that looks disabled is waiting for an answer, or belongs to a
\* dialog in which saving has failed (the error branch of update).
THEOREM StuckOnly == Spec => []StuckOnlyAfterFailure
  <1>1. Init => StuckOnlyAfterFailure
    BY DEF Init, StuckOnlyAfterFailure
  <1> QED  BY <1>1, DataInvariant, ButtonsStep, PTL DEF Spec
==============================================================================
