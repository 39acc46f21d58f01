--------------------------- MODULE ProfileProofs ---------------------------
(***************************************************************************)
(* Theorems about Profile and its Language component.                      *)
(***************************************************************************)
EXTENDS Profile, TLAPS

(***************************************************************************)
(* Language.                                                               *)
(***************************************************************************)

LEMMA LanguageStart == LanguageInit => LanguageInv
<1> SUFFICES ASSUME LanguageInit PROVE LanguageInv
  OBVIOUS
<1>1. picker = [button |-> bundle, text |-> bundle] /\ bundle \in Languages
  BY DEF LanguageInit, Languages
<1>2. picker.button # ""
  BY <1>1 DEF Languages
<1>3. Picking /\ ~Mixed
  BY <1>1, <1>2 DEF Picking, NoPicker, Mixed
<1>4. picker \in [button : Languages, text : Languages]
  BY <1>1
<1>5. LanguageTypeOK
  BY <1>4 DEF LanguageInit, LanguageTypeOK, Languages, Roots
<1> QED BY <1>3, <1>5 DEF LanguageInit, LanguageInv, SpeaksChosen

LEMMA LanguageSame == LanguageInv /\ UNCHANGED langVars => LanguageInv' /\ Mixed' = Mixed
<1> SUFFICES ASSUME LanguageInv, UNCHANGED langVars
             PROVE  LanguageInv' /\ Mixed' = Mixed
  OBVIOUS
<1>1. Mixed' = Mixed /\ Picking' = Picking
  BY DEF Mixed, Picking, langVars
<1>2. LanguageTypeOK' /\ SpeaksChosen'
  BY DEF LanguageInv, LanguageTypeOK, SpeaksChosen, langVars, defaults
<1> QED BY <1>1, <1>2 DEF LanguageInv, langVars, defaults

(* What a new window and a launch have in common.                          *)
LEMMA WindowInv ==
  ASSUME LanguageInv, NEW screen \in {"login", "home"}, Window(screen),
         UNCHANGED defaults, bundle' = Stored
  PROVE  LanguageInv' /\ ~Mixed'
  BY DEF LanguageInv, LanguageTypeOK, SpeaksChosen, Languages, Roots, Picking,
         NoPicker, Mixed, Window, defaults, Stored

LEMMA ChooseInv ==
  ASSUME LanguageInv, NEW l \in Languages, Choose(l)
  PROVE  LanguageInv' /\ ~Mixed'
  BY DEF LanguageInv, LanguageTypeOK, SpeaksChosen, Languages, Roots, Picking,
         NoPicker, Mixed, Choose, SetLanguage, defaults

LEMMA OpenPickerInv ==
  ASSUME LanguageInv, OpenPicker
  PROVE  LanguageInv' /\ (Mixed' => ~en /\ ~ar)
  BY DEF LanguageInv, LanguageTypeOK, SpeaksChosen, Languages, Roots, Picking,
         NoPicker, Mixed, OpenPicker, defaults

LEMMA BackInv ==
  ASSUME LanguageInv, BackFromPicker
  PROVE  LanguageInv'
  BY DEF LanguageInv, LanguageTypeOK, SpeaksChosen, Languages, Roots, Picking,
         NoPicker, Mixed, BackFromPicker, defaults

LEMMA ShowTabInv ==
  ASSUME LanguageInv, NEW tab \in {"home", "profile"}, ShowTab(tab)
  PROVE  LanguageInv' /\ (Mixed' => Mixed)
<1>1. Picking' = Picking /\ ~Picking
  BY DEF ShowTab, Picking
<1>2. LanguageTypeOK' /\ SpeaksChosen'
  BY DEF LanguageInv, LanguageTypeOK, SpeaksChosen, Roots, ShowTab, defaults
<1>3. /\ root \in {"home", "profile"} /\ root' = tab
      /\ UNCHANGED <<bundle, titles>>
      /\ texts' = IF tab = "profile" /\ texts = "" THEN bundle ELSE texts
  BY DEF ShowTab
<1>4. tab = "profile" => texts' = titles
  BY <1>1, <1>3 DEF ShowTab, LanguageInv
<1>5. tab = "home" => root = "profile" /\ texts' = texts
  BY <1>3 DEF ShowTab
<1>6. texts \in {"", titles} /\ bundle # ""
  BY DEF LanguageInv, LanguageTypeOK, Languages
<1>7. Mixed' => Mixed
  BY <1>1, <1>3, <1>4, <1>5 DEF Mixed
<1>8. root' = "home" /\ texts' = "" => titles' = bundle'
  BY <1>1, <1>3, <1>5, <1>6 DEF LanguageInv
<1> QED BY <1>1, <1>2, <1>3, <1>4, <1>5, <1>6, <1>7, <1>8 DEF LanguageInv

(* The invariant of Language, and its one way to come to mix languages.    *)
LEMMA LanguageStep ==
  ASSUME LanguageInv, [LanguageNext]_langVars
  PROVE  /\ LanguageInv'
         /\ Mixed' => Mixed \/ BackFromPicker \/ (OpenPicker /\ ~en /\ ~ar)
<1>1. CASE UNCHANGED langVars
  BY <1>1, LanguageSame
<1>2. CASE \E l \in Languages : Choose(l)
  BY <1>2, ChooseInv
<1>3. CASE OpenPicker
  <2>1. LanguageInv' /\ (Mixed' => ~en' /\ ~ar')
    BY <1>3, OpenPickerInv DEF OpenPicker, defaults
  <2> QED BY <1>3, <2>1 DEF OpenPicker, defaults
<1>4. CASE BackFromPicker
  BY <1>4, BackInv
<1>5. ASSUME NEW screen \in {"login", "home"}, NewWindow(screen)
      PROVE  LanguageInv' /\ ~Mixed'
  <2>1. bundle' = Stored
    BY <1>5 DEF NewWindow, Stored, LanguageInv, SpeaksChosen
  <2> QED BY <1>5, <2>1, WindowInv DEF NewWindow, defaults
<1>6. ASSUME NEW screen \in {"login", "home"}, LaunchSpeaking(screen)
      PROVE  LanguageInv' /\ ~Mixed'
  BY <1>6, WindowInv DEF LaunchSpeaking, SetLanguage
<1>7. CASE \E tab \in {"home", "profile"} : ShowTab(tab)
  BY <1>7, ShowTabInv
<1> QED BY <1>1, <1>2, <1>3, <1>4, <1>5, <1>6, <1>7 DEF LanguageNext

(* Language by itself speaks the language chosen last.                     *)
THEOREM LanguageSpeaks == LanguageSpec => []SpeaksChosen
<1>1. LanguageInv => SpeaksChosen
  BY DEF LanguageInv
<1>2. LanguageInv /\ [LanguageNext]_langVars => LanguageInv'
  BY LanguageStep
<1> QED BY LanguageStart, <1>1, <1>2, PTL DEF LanguageSpec

(* Language by itself comes to mix languages in the two ways only.         *)
THEOREM LanguageUnmixed == LanguageSpec => OnlyBackMixes
<1>1. LanguageInv /\ [LanguageNext]_langVars => LanguageInv'
  BY LanguageStep
<1>2. LanguageInv /\ [LanguageNext]_langVars =>
        [Mixed' => Mixed \/ BackFromPicker \/ (OpenPicker /\ ~en /\ ~ar)]_langVars
  BY LanguageStep
<1> QED BY LanguageStart, <1>1, <1>2, PTL DEF LanguageSpec, OnlyBackMixes

(***************************************************************************)
(* Profile takes Language's steps, and no others.                          *)
(***************************************************************************)

LEMMA NextLanguage == [Next]_vars => [LanguageNext]_langVars
<1> SUFFICES ASSUME [Next]_vars PROVE [LanguageNext]_langVars
  OBVIOUS
<1>1. ASSUME NEW screen \in {"login", "home"}, NewWindow(screen) \/ LaunchSpeaking(screen)
      PROVE  LanguageNext
  BY <1>1 DEF LanguageNext
<1>2. CASE Continue
  BY <1>2, <1>1 DEF Continue, Replaced
<1>3. CASE \E l \in Languages : ChooseLanguage(l)
  BY <1>3 DEF ChooseLanguage, LanguageNext
<1>4. CASE \E tab \in {"home", "profile"} : SelectTab(tab)
  BY <1>4 DEF SelectTab, LanguageNext
<1>5. CASE OpenLanguage \/ BackFromLanguage
  BY <1>5 DEF OpenLanguage, BackFromLanguage, LanguageNext
<1>6. CASE Launch
  BY <1>6, <1>1 DEF Launch, LaunchOn
<1>7. ASSUME NEW s \in Slots, SignedIn(s) \/ LoggedOut(s)
      PROVE  LanguageNext
  BY <1>7, <1>1 DEF SignedIn, LoggedOut, Replaced
<1>8. CASE UNCHANGED langVars
  BY <1>8
<1>9. ASSUME NEW s \in Slots,
             \/ ProfileSaved(s) \/ Complained(s) \/ Answered(s) \/ Failed(s)
             \/ UploadWithoutValue(s) \/ Serve(s) \/ Lose(s)
      PROVE  UNCHANGED langVars
  BY <1>9 DEF ProfileSaved, Complained, Answered, Failed, UploadWithoutValue, Serve,
              ServeLogin, ServeSave, ServeStatus, ServeOther, Lose, Answer, Apart
<1>10. CASE \/ \E u \in Users : SendOTP(u)
            \/ \E p \in {"edit", "complain", "notification"} : OpenPage(p)
            \/ OpenHistory \/ Logout \/ Back \/ PollAnswered
  BY <1>10 DEF SendOTP, OpenPage, OpenHistory, Logout, Back, PollAnswered, Apart
<1>11. CASE \/ \E t \in Texts : Type(t)
            \/ SaveProfile \/ TapPicture \/ ChooseSource \/ CancelSheet
            \/ ClosePicker \/ Submit \/ Toggle
  BY <1>11 DEF Type, SaveProfile, TapPicture, ChooseSource, CancelSheet, ClosePicker,
               Submit, Toggle, Apart
<1>12. CASE UNCHANGED vars
  BY <1>12 DEF vars
<1> QED
  BY <1>2, <1>3, <1>4, <1>5, <1>6, <1>7, <1>8, <1>9, <1>10, <1>11, <1>12
  DEF Next, User, Handle

(* The composition behaves, towards the bundle and the screens' texts, as  *)
(* the component by itself.                                                *)
THEOREM ProfileRefinesLanguage == Spec => LanguageSpec
<1>1. Init => LanguageInit
  BY DEF Init
<1> QED BY <1>1, NextLanguage, PTL DEF Spec, LanguageSpec

(* The application speaks the language chosen last.                        *)
THEOREM ChosenIsSpoken == Spec => []SpeaksChosen
  BY ProfileRefinesLanguage, LanguageSpeaks, PTL

(* It comes to mix languages in the two ways only.                         *)
THEOREM MixedByBack == Spec => OnlyBackMixes
  BY ProfileRefinesLanguage, LanguageUnmixed, PTL

(***************************************************************************)
(* Types and windows.                                                      *)
(***************************************************************************)

NetOK == net \in [Slots -> Calls] /\ \A s \in Slots : Carries(net[s])

(* The types of everything else.                                           *)
RestOK ==
  /\ profile \in [Users -> Texts] /\ setting \in [Users -> Status]
  /\ isLogin \in BOOLEAN /\ id \in Users \union {NoUser}
  /\ name \in Texts \union {NoText}
  /\ page \in {"none", "edit", "complain", "notification", "history"}
  /\ field \in Texts \union {NoText}
  /\ form \in [picture : BOOLEAN, got : BOOLEAN, without : BOOLEAN]
  /\ switch \in BOOLEAN
  /\ modal \in {"none", "sheet", "picker", "alert"}
  /\ cover \in {"none", "login", "profile", "page"}
  /\ polling \in BOOLEAN /\ <<torn, raced>> \in BOOLEAN \X BOOLEAN

LEMMA TypeParts == TypeOK <=> LanguageTypeOK /\ RestOK /\ NetOK
  BY DEF TypeOK, RestOK, NetOK

LEMMA IdleOK == Idle \in Calls /\ Carries(Idle)
  BY DEF Idle, Call, Calls, Carries, Kinds

(* One slot changes, to a call that may be there.                          *)
LEMMA NetSet ==
  ASSUME NetOK, NEW s \in Slots, NEW c \in Calls, Carries(c),
         net' = [net EXCEPT ![s] = c]
  PROVE  NetOK' /\ \A t \in Slots : net'[t] = IF t = s THEN c ELSE net[t]
<1>1. net' \in [Slots -> Calls] /\ \A t \in Slots : net'[t] = IF t = s THEN c ELSE net[t]
  BY DEF NetOK
<1>2. \A t \in Slots : Carries(net'[t])
  BY <1>1 DEF NetOK
<1>3. NetOK' <=> net' \in [Slots -> Calls] /\ \A t \in Slots : Carries(net'[t])
  BY DEF NetOK, Carries
<1> QED BY <1>1, <1>2, <1>3

LEMMA NetFreed ==
  ASSUME NetOK, NEW s \in Slots, net' = Freed(s)
  PROVE  NetOK' /\ \A t \in Slots : net'[t] = IF t = s THEN Idle ELSE net[t]
  BY NetSet, IdleOK DEF Freed

(* What a screen that is left does to the calls.                           *)
LEMMA NetLeft ==
  ASSUME NEW n \in [Slots -> Calls], \A t \in Slots : Carries(n[t]), net' = Left(n)
  PROVE  /\ NetOK'
         /\ \A t \in Slots : /\ net'[t].kind = n[t].kind /\ net'[t].user = n[t].user
                            /\ net'[t].val = n[t].val /\ net'[t].ans = n[t].ans
<1>1. ASSUME NEW t \in Slots
      PROVE  /\ net'[t] \in Calls
             /\ net'[t].kind = n[t].kind /\ net'[t].user = n[t].user
             /\ net'[t].val = n[t].val /\ net'[t].ans = n[t].ans
  <2>1. n[t] \in Calls
    OBVIOUS
  <2>2. net'[t] = n[t] \/ net'[t] = [n[t] EXCEPT !.here = FALSE]
    BY DEF Left
  <2> QED BY <2>1, <2>2 DEF Calls
<1>2. net' \in [Slots -> Calls]
  <2>1. net' = [t \in Slots |-> net'[t]]
    BY DEF Left
  <2> QED BY <1>1, <2>1
<1>3. \A t \in Slots : Carries(net'[t])
  BY <1>1 DEF Carries
<1>4. NetOK' <=> net' \in [Slots -> Calls] /\ \A t \in Slots : Carries(net'[t])
  BY DEF NetOK, Carries
<1> QED BY <1>1, <1>2, <1>3, <1>4

(* A call is made in a slot that was idle.                                 *)
LEMMA NetRequest ==
  ASSUME NetOK, NEW screen, NEW kind \in Kinds, NEW user \in Users,
         NEW val \in Texts \union {NoText} \union Status,
         kind = "save" => val \in Texts,
         kind = "toggle" => val \in Status,
         kind = "logout" => val = "disabled",
         Request(screen, kind, user, val)
  PROVE  /\ NetOK' /\ cover' = screen
         /\ \E s \in Slots : /\ net[s].kind = "idle"
                           /\ \A t \in Slots :
                                net'[t] = IF t = s THEN Call(kind, user, val) ELSE net[t]
<1>1. Call(kind, user, val) \in Calls
  BY DEF Call, Calls
<1>2. Carries(Call(kind, user, val))
  BY DEF Call, Carries
<1>3. PICK s \in Slots : /\ net[s].kind = "idle"
                        /\ net' = [net EXCEPT ![s] = Call(kind, user, val)]
  BY DEF Request
<1>4. cover' = screen
  BY DEF Request
<1> DEFINE c == Call(kind, user, val)
<1> HIDE DEF c
<1>5. NetOK' /\ \A t \in Slots : net'[t] = IF t = s THEN c ELSE net[t]
  <2>1. c \in Calls /\ Carries(c) /\ net' = [net EXCEPT ![s] = c]
    BY <1>1, <1>2, <1>3 DEF c
  <2> QED BY <2>1, NetSet
<1> QED BY <1>3, <1>4, <1>5 DEF c

(* A call is answered by the server.                                       *)
LEMMA NetAnswered ==
  ASSUME NetOK, NEW s \in Slots, NEW a \in {"ok", "failed"},
         net[s].kind # "login" \/ a = "failed",
         net' = [net EXCEPT ![s].ans = a]
  PROVE  /\ NetOK'
         /\ \A t \in Slots : t # s => net'[t] = net[t]
         /\ net'[s].kind = net[s].kind /\ net'[s].user = net[s].user
         /\ net'[s].val = net[s].val /\ net'[s].ans = a
<1> DEFINE c == [net[s] EXCEPT !.ans = a]
<1>1. net[s] \in Calls /\ Carries(net[s])
  BY DEF NetOK
<1>2. /\ c \in Calls /\ c.kind = net[s].kind /\ c.user = net[s].user
      /\ c.val = net[s].val /\ c.ans = a
  BY <1>1 DEF Calls
<1>3. Carries(c)
  BY <1>1, <1>2 DEF Carries
<1>4. net' = [net EXCEPT ![s] = c]
  BY DEF NetOK
<1> HIDE DEF c
<1> QED BY <1>2, <1>3, <1>4, NetSet

(***************************************************************************)
(* Steps that move no profile, status or account: no call of the kinds that*)
(* count is made, and none that was recorded ends.                         *)
(***************************************************************************)

Calm(c, d) ==
  \/ /\ d.kind = c.kind /\ d.user = c.user /\ d.val = c.val /\ d.ans = c.ans
  \/ /\ c.kind # "save" \/ c.ans # "ok"
     /\ \/ d.kind \in {"idle", "complain", "history"}
        \/ d.kind = c.kind /\ d.user = c.user /\ d.ans # "ok"

(* The calls that count towards the status change in no way that does.     *)
LEMMA LogoutsCalmed ==
  ASSUME Logouts,
         \A t \in Slots : net'[t].kind \in {"toggle", "login", "logout"} =>
           /\ net'[t].kind = net[t].kind /\ net'[t].user = net[t].user
           /\ net'[t].ans = "ok" => net[t].ans = "ok",
         UNCHANGED <<setting, isLogin, id, raced>>
  PROVE  Logouts'
<1>1. CASE raced
  BY <1>1 DEF Logouts
<1>2. CASE ~raced
  <2>1. LogoutsAlone /\ LogoutsCurrent /\ Quiet
    BY <1>2 DEF Logouts
  <2>2. LogoutsAlone'
    BY <2>1 DEF LogoutsAlone, InFlight
  <2>3. LogoutsCurrent'
    BY <2>1 DEF LogoutsCurrent
  <2>4. Quiet'
    BY <2>1 DEF Quiet, InFlight
  <2> QED BY <2>2, <2>3, <2>4 DEF Logouts
<1> QED BY <1>1, <1>2

(* Nor do those that count towards the texts.                              *)
CalmSave(c, d) ==
  /\ d.kind \in {"save", "login"} =>
       /\ d.kind = c.kind /\ d.user = c.user
       /\ d.ans = "ok" => c.ans = "ok" /\ d.val = c.val
  /\ c.kind = "save" /\ c.ans = "ok" => d.kind = "save" /\ d.ans = "ok"

LEMMA SavesCalmed ==
  ASSUME Saves, \A t \in Slots : CalmSave(net[t], net'[t]),
         UNCHANGED <<profile, id, name, torn>>
  PROVE  Saves'
<1>1. ASSUME NEW t \in Slots
      PROVE  /\ net'[t].kind \in {"save", "login"} =>
                   net'[t].kind = net[t].kind /\ net'[t].user = net[t].user
             /\ net'[t].kind \in {"save", "login"} /\ net'[t].ans = "ok" =>
                   net[t].ans = "ok" /\ net'[t].val = net[t].val
             /\ net[t].kind = "save" /\ net[t].ans = "ok" =>
                   net'[t].kind = "save" /\ net'[t].ans = "ok"
  BY DEF CalmSave
<1>2. CASE torn
  BY <1>2 DEF Saves
<1>3. CASE ~torn
  <2>1. SavesAlone /\ SavesCurrent /\ (id = NoUser \/ Recorded \/ name = profile[id])
    BY <1>3 DEF Saves
  <2>2. SavesAlone'
    BY <2>1, <1>1 DEF SavesAlone
  <2>3. SavesCurrent'
    BY <2>1, <1>1 DEF SavesCurrent
  <2>4. Recorded => Recorded'
    BY <1>1 DEF Recorded
  <2> QED BY <2>1, <2>2, <2>3, <2>4 DEF Saves
<1> QED BY <1>2, <1>3

LEMMA Calmed ==
  ASSUME Saves, Logouts, \A t \in Slots : Calm(net[t], net'[t]),
         UNCHANGED <<profile, setting, isLogin, id, name, torn, raced>>
  PROVE  Saves' /\ Logouts'
<1>1. \A t \in Slots : net'[t].kind \in {"toggle", "login", "logout"} =>
        /\ net'[t].kind = net[t].kind /\ net'[t].user = net[t].user
        /\ net'[t].ans = "ok" => net[t].ans = "ok"
  BY DEF Calm
<1>2. \A t \in Slots : CalmSave(net[t], net'[t])
  BY DEF Calm, CalmSave
<1> QED BY <1>1, <1>2, SavesCalmed, LogoutsCalmed

LEMMA CalmSame == \A c : Calm(c, c)
  BY DEF Calm

(* What every step has to keep, LanguageInv apart.                         *)
Kept == RestOK' /\ NetOK' /\ Windows' /\ Saves' /\ Logouts'

(* Pages, their forms, and the language: no call changes.                  *)
LEMMA PageSteps ==
  ASSUME IInv,
         \/ \E p \in {"edit", "complain", "notification"} : OpenPage(p)
         \/ \E t \in Texts : Type(t)
         \/ TapPicture \/ ChooseSource \/ CancelSheet \/ ClosePicker \/ PollAnswered
         \/ \E l \in Languages : ChooseLanguage(l)
         \/ \E tab \in {"home", "profile"} : SelectTab(tab)
         \/ OpenLanguage \/ BackFromLanguage
         \/ UNCHANGED vars
  PROVE  Kept
<1>1. RestOK /\ NetOK /\ Windows /\ Saves /\ Logouts /\ LanguageTypeOK
  BY TypeParts DEF IInv
<1>2. UNCHANGED <<net, profile, setting, isLogin, id, name, torn, raced>>
  BY DEF OpenPage, Type, TapPicture, ChooseSource, CancelSheet, ClosePicker,
         PollAnswered, ChooseLanguage, SelectTab, OpenLanguage, BackFromLanguage,
         Apart, server, account, history, vars
<1>3. Saves' /\ Logouts'
  BY <1>1, <1>2, Calmed, CalmSame
<1>4. NetOK'
  BY <1>1, <1>2 DEF NetOK, Carries
<1>5. RestOK' /\ Windows'
  <2>1. CASE \E p \in {"edit", "complain", "notification"} : OpenPage(p)
    BY <1>1, <2>1 DEF OpenPage, At, RestOK, Windows, Apart, langVars, server, account,
                      history, Picking
  <2>2. CASE \E t \in Texts : Type(t)
    BY <1>1, <2>2, ProfileAssumption DEF Type, On, RestOK, Windows, Apart, langVars,
                      server, account, history, Picking
  <2>3. CASE TapPicture
    BY <1>1, <2>3 DEF TapPicture, On, RestOK, Windows, Apart, langVars,
                      server, account, history, Picking
  <2>4. CASE ChooseSource
    BY <1>1, <2>4 DEF ChooseSource, RestOK, Windows, Apart, langVars,
                      server, account, history, Picking
  <2>5. CASE CancelSheet
    BY <1>1, <2>5 DEF CancelSheet, RestOK, Windows, Apart, langVars,
                      server, account, history, Picking
  <2>6. CASE ClosePicker
    <3>1. PICK picked \in BOOLEAN :
            form' = IF page = "complain"
                      THEN [form EXCEPT !.picture = @ \/ picked, !.without = @ \/ ~picked]
                      ELSE form
      BY <2>6 DEF ClosePicker
    <3>2. /\ form' \in [picture : BOOLEAN, got : BOOLEAN, without : BOOLEAN]
          /\ form'.got = form.got
          /\ form'.got => form'.picture \/ form'.without
      <4>1. CASE page = "complain"
        BY <1>1, <3>1, <4>1 DEF RestOK
      <4>2. CASE page # "complain"
        BY <1>1, <3>1, <4>2 DEF RestOK, Windows
      <4> QED BY <4>1, <4>2
    <3>3. field' \in Texts \union {NoText} /\ (page = "edit" => field' # NoText)
      BY <1>1, <2>6 DEF ClosePicker, RestOK, Windows
    <3>4. RestOK'
      BY <1>1, <1>2, <2>6, <3>2, <3>3 DEF ClosePicker, RestOK, Apart
    <3> QED BY <1>1, <1>2, <2>6, <3>2, <3>3, <3>4
            DEF ClosePicker, Windows, Apart, langVars, Picking
  <2>7. CASE PollAnswered
    BY <1>1, <2>7 DEF PollAnswered, RestOK, Windows, Apart, langVars, page_,
                      server, account, history, Picking
  <2>8. CASE \E l \in Languages : ChooseLanguage(l)
    BY <1>1, <2>8 DEF ChooseLanguage, Choose, RestOK, Windows, page_,
                      server, account, history, Picking
  <2>9. CASE \E tab \in {"home", "profile"} : SelectTab(tab)
    <3>1. RestOK'
      BY <1>1, <2>9 DEF SelectTab, RestOK, page_, server, account, history
    <3>2. /\ page = "none" /\ modal = "none" /\ UNCHANGED <<page_, account, net>>
          /\ root \in {"home", "profile"} /\ root' \in {"home", "profile"}
      BY <2>9 DEF SelectTab, ShowTab
    <3> QED BY <1>1, <3>1, <3>2 DEF Windows, page_, account
  <2>10. CASE OpenLanguage
    BY <1>1, <2>10 DEF OpenLanguage, OpenPicker, At, RestOK, Windows, page_,
                      server, account, history, Picking
  <2>11. CASE BackFromLanguage
    BY <1>1, <2>11 DEF BackFromLanguage, BackFromPicker, RestOK, Windows, page_,
                      server, account, history, Picking
  <2>12. CASE UNCHANGED vars
    BY <1>1, <2>12 DEF vars, langVars, RestOK, Windows, page_,
                      server, account, history, Picking
  <2> QED BY <2>1, <2>2, <2>3, <2>4, <2>5, <2>6, <2>7, <2>8, <2>9, <2>10, <2>11, <2>12
<1> QED BY <1>3, <1>4, <1>5 DEF Kept

(* A call is made: the history variables say what it overlaps.             *)
LEMMA Requested ==
  ASSUME IInv, NEW screen, NEW kind \in Kinds, NEW user \in Users,
         NEW val \in Texts \union {NoText} \union Status,
         kind = "save" => val \in Texts /\ user = id,
         kind = "toggle" => val \in Status /\ isLogin,
         kind = "logout" => val = "disabled" /\ user = id,
         Request(screen, kind, user, val),
         UNCHANGED <<profile, setting, isLogin, id, name>>
  PROVE  /\ NetOK' /\ Saves' /\ Logouts' /\ cover' = screen
         /\ torn' \in BOOLEAN /\ raced' \in BOOLEAN
         /\ \A t \in Slots : net'[t] = net[t] \/ net'[t].kind = kind
<1>1. NetOK /\ RestOK /\ Saves /\ Logouts
  BY TypeParts DEF IInv
<1>2. NetOK' /\ cover' = screen
  BY <1>1, NetRequest
<1>3. PICK s \in Slots : /\ net[s].kind = "idle"
                        /\ \A t \in Slots :
                             net'[t] = IF t = s THEN Call(kind, user, val) ELSE net[t]
  BY <1>1, NetRequest
<1>4. net'[s].kind = kind /\ net'[s].user = user /\ net'[s].val = val /\ net'[s].ans = "none"
  BY <1>3 DEF Call
<1>5. \A t \in Slots : t # s => net'[t] = net[t]
  BY <1>3
<1>6. Saves'
  <2>1. CASE torn'
    BY <2>1 DEF Saves
  <2>2. CASE ~torn'
    <3>1. /\ ~torn
          /\ kind = "save" => ~InFlight({"save", "login"})
          /\ kind = "login" => ~InFlight({"save"})
      BY <2>2 DEF Request
    <3>2. SavesAlone /\ SavesCurrent /\ (id = NoUser \/ Recorded \/ name = profile[id])
      BY <1>1, <3>1 DEF Saves
    <3>3. SavesAlone'
      <4>1. ASSUME NEW a \in Slots, NEW b \in Slots, a # b, net'[a].kind = "save"
            PROVE  net'[b].kind \notin {"save", "login"}
        <5>1. CASE a = s
          BY <1>4, <1>5, <3>1, <4>1, <5>1 DEF InFlight
        <5>2. CASE b = s
          BY <1>4, <1>5, <3>1, <4>1, <5>2 DEF InFlight
        <5>3. CASE a # s /\ b # s
          BY <1>5, <3>2, <4>1, <5>3 DEF SavesAlone
        <5> QED BY <5>1, <5>2, <5>3
      <4> QED BY <4>1 DEF SavesAlone
    <3>4. SavesCurrent'
      BY <1>4, <1>5, <3>2 DEF SavesCurrent
    <3>5. Recorded => Recorded'
      BY <1>3, <1>5 DEF Recorded
    <3> QED BY <3>2, <3>3, <3>4, <3>5 DEF Saves
  <2> QED BY <2>1, <2>2
<1>7. Logouts'
  <2>1. CASE raced'
    BY <2>1 DEF Logouts
  <2>2. CASE ~raced'
    <3>1. /\ ~raced
          /\ kind = "logout" => ~InFlight({"toggle", "login"})
          /\ kind \in {"toggle", "login"} => ~InFlight({"logout"})
      BY <2>2 DEF Request
    <3>2. LogoutsAlone /\ LogoutsCurrent /\ Quiet
      BY <1>1, <3>1 DEF Logouts
    <3>3. LogoutsAlone'
      <4>1. ASSUME NEW a \in Slots, NEW b \in Slots, net'[a].kind = "logout",
                   net'[b].kind \in {"toggle", "login"}
            PROVE  FALSE
        <5>1. CASE a = s
          BY <1>4, <1>5, <3>1, <4>1, <5>1 DEF InFlight
        <5>2. CASE b = s
          BY <1>4, <1>5, <3>1, <4>1, <5>2 DEF InFlight
        <5>3. CASE a # s /\ b # s
          BY <1>5, <3>2, <4>1, <5>3 DEF LogoutsAlone, InFlight
        <5> QED BY <5>1, <5>2, <5>3
      <4> QED BY <4>1 DEF LogoutsAlone, InFlight
    <3>4. LogoutsCurrent'
      BY <1>4, <1>5, <3>2 DEF LogoutsCurrent
    <3>5. Quiet'
      BY <1>4, <1>5, <3>2 DEF Quiet, InFlight
    <3> QED BY <3>3, <3>4, <3>5 DEF Logouts
  <2> QED BY <2>1, <2>2
<1>8. torn' \in BOOLEAN /\ raced' \in BOOLEAN
  BY <1>1 DEF Request, RestOK
<1>9. \A t \in Slots : net'[t] = net[t] \/ net'[t].kind = kind
  BY <1>4, <1>5
<1> QED BY <1>2, <1>6, <1>7, <1>8, <1>9

(* The buttons that call.                                                  *)
LEMMA RequestSteps ==
  ASSUME IInv,
         \/ \E u \in Users : SendOTP(u)
         \/ OpenHistory \/ Logout \/ SaveProfile \/ Submit \/ Toggle
  PROVE  Kept
<1>1. RestOK /\ NetOK /\ Windows
  BY TypeParts DEF IInv
<1>2. UNCHANGED <<profile, setting, isLogin, id, name, polling, langVars>>
  BY DEF SendOTP, OpenHistory, Logout, SaveProfile, Submit, Toggle, Apart, server, account
<1>3. root = "profile" => id \in Users /\ isLogin
  BY <1>1 DEF RestOK, Windows
<1>4. page # "none" => root = "profile"
  BY <1>1 DEF Windows
<1>5. /\ NetOK' /\ Saves' /\ Logouts' /\ cover' \in {"login", "profile", "page"}
      /\ torn' \in BOOLEAN /\ raced' \in BOOLEAN
      /\ \A t \in Slots : \/ net'[t] = net[t] \/ net'[t].kind \notin Uploads
                          \/ page # "none"
  <2>1. ASSUME NEW u \in Users, SendOTP(u) PROVE <1>5!:
    BY <1>2, <2>1, Requested DEF SendOTP, Kinds, Uploads
  <2>2. CASE OpenHistory
    BY <1>2, <1>3, <2>2, Requested DEF OpenHistory, At, Kinds, Uploads
  <2>3. CASE Logout
    BY <1>2, <1>3, <2>3, Requested DEF Logout, At, Kinds, Status, Uploads
  <2>4. CASE SaveProfile
    <3>1. field \in Texts /\ id \in Users /\ page # "none"
      BY <1>1, <1>3, <1>4, <2>4 DEF SaveProfile, On, RestOK, Windows
    <3> QED BY <1>2, <2>4, <3>1, Requested DEF SaveProfile, Kinds
  <2>5. CASE Submit
    <3>1. id \in Users /\ page # "none"
      BY <1>3, <1>4, <2>5 DEF Submit, On
    <3> QED BY <1>2, <2>5, <3>1, Requested DEF Submit, Kinds
  <2>6. CASE Toggle
    <3>1. id \in Users /\ isLogin
      BY <1>3, <1>4, <2>6 DEF Toggle, On
    <3> DEFINE v == IF switch' THEN "enabled" ELSE "disabled"
    <3>2. v \in Status
      BY DEF Status
    <3>3. Request("page", "toggle", id, v)
      BY <2>6 DEF Toggle
    <3> HIDE DEF v
    <3> QED BY <1>2, <3>1, <3>2, <3>3, Requested DEF Kinds, Uploads
  <2> QED BY <2>1, <2>2, <2>3, <2>4, <2>5, <2>6
<1>6. /\ UNCHANGED <<field, form, modal>> /\ switch' \in BOOLEAN
      /\ page' = page \/ (page = "none" /\ page' = "history" /\ root = "profile" /\ ~Picking)
  BY <1>1 DEF SendOTP, OpenHistory, At, Logout, SaveProfile, Submit, Toggle, page_, RestOK
<1>7. RestOK'
  BY <1>1, <1>2, <1>5, <1>6 DEF RestOK
<1>8. Windows'
  BY <1>1, <1>2, <1>5, <1>6 DEF Windows, langVars, Picking
<1> QED BY <1>5, <1>7, <1>8 DEF Kept

(* The parts of the invariant.                                             *)
LEMMA Parts == IInv <=> LanguageInv /\ RestOK /\ NetOK /\ Windows /\ Saves /\ Logouts
  BY TypeParts DEF IInv, LanguageInv

(* Nothing lies above the window's screen.                                 *)
Bare ==
  /\ page' = "none" /\ modal' = "none" /\ ~form'.got
  /\ field' \in Texts \union {NoText}
  /\ form' \in [picture : BOOLEAN, got : BOOLEAN, without : BOOLEAN]
  /\ switch' \in BOOLEAN /\ cover' = "none" /\ polling' \in BOOLEAN

(* Every call carries what it did, and no upload's screen is there.        *)
Bereft(n) ==
  /\ \A t \in Slots : /\ net'[t].kind = n[t].kind /\ net'[t].user = n[t].user
                      /\ net'[t].val = n[t].val /\ net'[t].ans = n[t].ans
  /\ \A t \in Slots : net'[t].kind \in Uploads => ~net'[t].here

(* A new window: nothing lies above its screen.                            *)
LEMMA ReplacedOK ==
  ASSUME RestOK, NEW screen \in {"login", "home"}, NEW n \in [Slots -> Calls],
         \A t \in Slots : Carries(n[t]), Replaced(screen, n)
  PROVE  /\ NetOK'
         /\ Bereft(n)
         /\ root' = screen /\ Bare
<1>1. /\ NetOK'
      /\ \A t \in Slots : /\ net'[t].kind = n[t].kind /\ net'[t].user = n[t].user
                         /\ net'[t].val = n[t].val /\ net'[t].ans = n[t].ans
  BY NetLeft DEF Replaced
<1>2. ASSUME NEW t \in Slots, net'[t].kind \in Uploads PROVE ~net'[t].here
  <2>1. n[t].kind \in Uploads /\ n[t] \in Calls
    BY <1>1, <1>2
  <2>2. net'[t] = [n[t] EXCEPT !.here = FALSE]
    BY <2>1 DEF Replaced, Left
  <2> QED BY <2>1, <2>2 DEF Calls
<1>3. root' = screen /\ cover' = "none" /\ polling' \in BOOLEAN
  BY DEF Replaced, NewWindow, Window, RestOK
<1>4. page' = "none" /\ modal' = "none" /\ field' = NoText /\ form' = Empty /\ switch' = TRUE
  BY DEF Replaced, NoPage
<1> QED BY <1>1, <1>2, <1>3, <1>4 DEF Empty, Bare, Bereft

LEMMA FreedOK ==
  ASSUME NetOK, NEW s \in Slots
  PROVE  /\ Freed(s) \in [Slots -> Calls]
         /\ \A t \in Slots : Carries(Freed(s)[t])
         /\ \A t \in Slots : Freed(s)[t] = IF t = s THEN Idle ELSE net[t]
  BY IdleOK DEF Freed, NetOK

LEMMA IdleIs == Idle.kind = "idle" /\ Idle.ans = "none"
  BY DEF Idle, Call

LEMMA ContinueStep ==
  ASSUME IInv, Continue
  PROVE  Kept
<1>1. RestOK /\ NetOK /\ Windows /\ Saves /\ Logouts /\ LanguageInv
  BY Parts
<1> DEFINE screen == IF root = "language" THEN "login" ELSE "home"
<1>2. screen \in {"login", "home"} /\ Replaced(screen, net)
  BY DEF Continue
<1>3. isLogin <=> screen = "home"
  BY <1>1 DEF Continue, Windows, LanguageInv
<1> HIDE DEF screen
<1>4. /\ NetOK'
      /\ Bereft(net)
      /\ root' = screen /\ Bare
  BY <1>1, <1>2, ReplacedOK DEF NetOK
<1>5. UNCHANGED <<profile, setting, isLogin, id, name, torn, raced>>
  BY DEF Continue, server, account, history
<1>6. Saves' /\ Logouts'
  <2>1. \A t \in Slots : Calm(net[t], net'[t])
    BY <1>4 DEF Calm, Bereft
  <2> QED BY <1>1, <1>5, <2>1, Calmed
<1>7. RestOK'
  BY <1>1, <1>4, <1>5 DEF RestOK, Bare
<1>8. Windows'
  BY <1>1, <1>2, <1>3, <1>4, <1>5 DEF Windows, Bare, Bereft
<1> QED BY <1>4, <1>6, <1>7, <1>8 DEF Kept

LEMMA SignedInStep ==
  ASSUME IInv, NEW s \in Slots, SignedIn(s)
  PROVE  Kept
<1>1. RestOK /\ NetOK /\ Windows /\ Saves /\ Logouts
  BY Parts
<1>2. /\ net[s].kind = "login" /\ net[s].ans = "ok"
      /\ isLogin' = TRUE /\ id' = net[s].user /\ name' = net[s].val
      /\ Replaced("home", Freed(s))
      /\ raced' = InFlight({"logout"})
      /\ UNCHANGED <<profile, setting, torn>>
  BY DEF SignedIn, server
<1>3. id' \in Users /\ name' \in Texts /\ raced' \in BOOLEAN
  BY <1>1, <1>2 DEF NetOK, Carries, InFlight
<1> DEFINE n == Freed(s)
<1>0. n \in [Slots -> Calls] /\ \A t \in Slots : Carries(n[t])
  BY <1>1, FreedOK
<1> HIDE DEF n
<1>4. /\ NetOK'
      /\ Bereft(n)
      /\ root' = "home" /\ Bare
  <2>1. Replaced("home", n)
    BY <1>2 DEF n
  <2> QED BY <1>0, <1>1, <2>1, ReplacedOK
<1>5. /\ net'[s].kind = "idle"
      /\ \A t \in Slots \ {s} : /\ net'[t].kind = net[t].kind /\ net'[t].user = net[t].user
                               /\ net'[t].val = net[t].val /\ net'[t].ans = net[t].ans
  BY <1>1, <1>4, FreedOK, IdleIs DEF n, Bereft
<1>6. Saves'
  <2>1. CASE torn
    BY <1>2, <2>1 DEF Saves
  <2>2. CASE ~torn
    <3>1. SavesAlone /\ SavesCurrent
      BY <1>1, <2>2 DEF Saves
    <3>2. \A t \in Slots : net'[t].kind # "save"
      BY <1>2, <1>5, <3>1 DEF SavesAlone
    <3>3. SavesAlone'
      BY <3>2 DEF SavesAlone
    <3>4. SavesCurrent'
      BY <1>2, <1>5, <3>1, <3>2 DEF SavesCurrent
    <3>5. name' = profile'[id']
      BY <1>2, <3>1 DEF SavesCurrent
    <3> QED BY <3>3, <3>4, <3>5 DEF Saves
  <2> QED BY <2>1, <2>2
<1>7. Logouts'
  <2>1. CASE raced'
    BY <2>1 DEF Logouts
  <2>2. CASE ~raced'
    <3>1. \A t \in Slots : net'[t].kind # "logout"
      BY <1>2, <1>5, <2>2 DEF InFlight
    <3> QED BY <1>2, <3>1 DEF Logouts, LogoutsAlone, LogoutsCurrent, Quiet, InFlight
  <2> QED BY <2>1, <2>2
<1>8. RestOK'
  BY <1>1, <1>2, <1>3, <1>4 DEF RestOK, Bare
<1>9. Windows'
  BY <1>2, <1>3, <1>4, ProfileAssumption DEF Windows, Bare, Bereft
<1> QED BY <1>4, <1>6, <1>7, <1>8, <1>9 DEF Kept

LEMMA LoggedOutStep ==
  ASSUME IInv, NEW s \in Slots, LoggedOut(s)
  PROVE  Kept
<1>1. RestOK /\ NetOK /\ Windows /\ Saves /\ Logouts
  BY Parts
<1>2. /\ net[s].kind = "logout" /\ net[s].ans = "ok"
      /\ isLogin' = FALSE
      /\ Replaced("login", Freed(s))
      /\ UNCHANGED <<profile, setting, id, name, torn, raced>>
  BY DEF LoggedOut, server, history
<1> DEFINE n == Freed(s)
<1>0. n \in [Slots -> Calls] /\ \A t \in Slots : Carries(n[t])
  BY <1>1, FreedOK
<1> HIDE DEF n
<1>3. /\ NetOK'
      /\ Bereft(n)
      /\ root' = "login" /\ Bare
  <2>1. Replaced("login", n)
    BY <1>2 DEF n
  <2> QED BY <1>0, <1>1, <2>1, ReplacedOK
<1>4. /\ net'[s].kind = "idle"
      /\ \A t \in Slots \ {s} : /\ net'[t].kind = net[t].kind /\ net'[t].user = net[t].user
                               /\ net'[t].val = net[t].val /\ net'[t].ans = net[t].ans
  BY <1>1, <1>3, FreedOK, IdleIs DEF n, Bereft
<1>5. Saves'
  <2>1. \A t \in Slots : CalmSave(net[t], net'[t])
    BY <1>2, <1>4 DEF CalmSave
  <2> QED BY <1>1, <1>2, <2>1, SavesCalmed
<1>6. Logouts'
  <2>1. CASE raced
    BY <1>2, <2>1 DEF Logouts
  <2>2. CASE ~raced
    <3>1. LogoutsAlone /\ LogoutsCurrent
      BY <1>1, <2>2 DEF Logouts
    <3>2. setting[id] = "disabled" /\ ~InFlight({"toggle", "login"})
      BY <1>2, <3>1 DEF LogoutsAlone, LogoutsCurrent, InFlight
    <3>3. \A t \in Slots : net'[t].kind \notin {"toggle", "login"}
      BY <1>4, <3>2 DEF InFlight
    <3>4. LogoutsAlone' /\ Quiet'
      BY <1>2, <3>2, <3>3 DEF LogoutsAlone, Quiet, InFlight
    <3>5. LogoutsCurrent'
      BY <1>2, <1>4, <3>1 DEF LogoutsCurrent
    <3> QED BY <3>4, <3>5 DEF Logouts
  <2> QED BY <2>1, <2>2
<1>7. RestOK'
  BY <1>1, <1>2, <1>3 DEF RestOK, Bare
<1>8. Windows'
  BY <1>1, <1>2, <1>3 DEF Windows, Bare, Bereft
<1> QED BY <1>3, <1>5, <1>6, <1>7, <1>8 DEF Kept

LEMMA LaunchStep ==
  ASSUME IInv, Launch
  PROVE  Kept
<1>1. RestOK /\ NetOK /\ Windows /\ Saves /\ Logouts
  BY Parts
<1> DEFINE screen == IF isLogin THEN "home" ELSE "login"
<1>2. /\ LaunchSpeaking(screen) /\ NoPage
      /\ cover' = "none" /\ net' = [s \in Slots |-> Idle]
      /\ polling' = (screen = "home")
      /\ torn' = (torn \/ Recorded)
      /\ raced' = (raced /\ ~isLogin)
      /\ UNCHANGED <<profile, setting, isLogin, id, name>>
  BY DEF Launch, LaunchOn, Recorded, server, account
<1>3. screen \in {"login", "home"} /\ root' = screen
  BY <1>2 DEF LaunchSpeaking, Window
<1>4. \A t \in Slots : net'[t] = Idle
  BY <1>2
<1>5. NetOK'
  <2>1. net' \in [Slots -> Calls] /\ \A t \in Slots : Carries(net'[t])
    BY <1>2, IdleOK
  <2>2. NetOK' <=> net' \in [Slots -> Calls] /\ \A t \in Slots : Carries(net'[t])
    BY DEF NetOK, Carries
  <2> QED BY <2>1, <2>2
<1>6. Saves'
  <2>1. CASE torn'
    BY <2>1 DEF Saves
  <2>2. CASE ~torn'
    <3>1. ~torn /\ ~Recorded
      BY <1>2, <2>2
    <3>2. id' = NoUser \/ name' = profile'[id']
      BY <1>1, <1>2, <3>1 DEF Saves
    <3> QED BY <1>4, <3>2, IdleIs DEF Saves, SavesAlone, SavesCurrent
  <2> QED BY <2>1, <2>2
<1>7. Logouts'
  <2>1. CASE raced'
    BY <2>1 DEF Logouts
  <2>2. CASE ~raced'
    <3>1. isLogin \/ id = NoUser \/ setting[id] = "disabled"
      BY <1>1, <1>2, <2>2 DEF Logouts, Quiet
    <3> QED BY <1>2, <1>4, <3>1, IdleIs
            DEF Logouts, LogoutsAlone, LogoutsCurrent, Quiet, InFlight
  <2> QED BY <2>1, <2>2
<1>8. RestOK'
  <2>1. torn' \in BOOLEAN /\ raced' \in BOOLEAN /\ polling' \in BOOLEAN
    BY <1>1, <1>2 DEF RestOK, Recorded
  <2> QED BY <1>1, <1>2, <2>1 DEF RestOK, NoPage, Empty
<1>9. Windows'
  BY <1>1, <1>2, <1>3, <1>4, IdleIs DEF Windows, NoPage, Empty, Uploads
<1> QED BY <1>5, <1>6, <1>7, <1>8, <1>9 DEF Kept

LEMMA BackStep ==
  ASSUME IInv, Back
  PROVE  Kept
<1>1. RestOK /\ NetOK /\ Windows /\ Saves /\ Logouts
  BY Parts
<1>2. /\ NoPage /\ net' = Left(net) /\ cover' \in {"none", cover}
      /\ UNCHANGED <<langVars, profile, setting, isLogin, id, name, polling, torn, raced>>
  BY DEF Back, Apart, server, account, history
<1>3. /\ NetOK'
      /\ \A t \in Slots : /\ net'[t].kind = net[t].kind /\ net'[t].user = net[t].user
                         /\ net'[t].val = net[t].val /\ net'[t].ans = net[t].ans
  BY <1>1, <1>2, NetLeft DEF NetOK
<1>4. ASSUME NEW t \in Slots, net'[t].kind \in Uploads PROVE ~net'[t].here
  <2>1. net[t].kind \in Uploads /\ net[t] \in Calls
    BY <1>1, <1>3, <1>4 DEF NetOK
  <2>2. net'[t] = [net[t] EXCEPT !.here = FALSE]
    BY <1>2, <2>1 DEF Left
  <2> QED BY <2>1, <2>2 DEF Calls
<1>5. Saves' /\ Logouts'
  <2>1. \A t \in Slots : Calm(net[t], net'[t])
    BY <1>3 DEF Calm
  <2> QED BY <1>1, <1>2, <2>1, Calmed
<1>6. RestOK'
  BY <1>1, <1>2 DEF RestOK, NoPage, Empty
<1>7. Windows'
  BY <1>1, <1>2, <1>4 DEF Windows, NoPage, Empty, langVars, Picking
<1> QED BY <1>3, <1>5, <1>6, <1>7 DEF Kept

(***************************************************************************)
(* Answers.                                                                *)
(***************************************************************************)

(* A call ends, and nothing that windows are about but the alert changes.  *)
LEMMA FreedStep ==
  ASSUME RestOK, NetOK, Windows, NEW s \in Slots, net' = Freed(s),
         UNCHANGED <<langVars, profile, setting, isLogin, id, polling>>,
         UNCHANGED <<page, field, form, switch, raced>>,
         name' \in Texts \/ name' = name,
         \/ modal' = modal
         \/ modal = "none" /\ modal' = "alert" /\ net[s].here /\ net[s].kind \in Uploads,
         cover' \in {"none", cover},
         torn' \in BOOLEAN
  PROVE  /\ RestOK' /\ NetOK' /\ Windows'
         /\ net'[s] = Idle /\ \A t \in Slots \ {s} : net'[t] = net[t]
<1>1. NetOK' /\ net'[s] = Idle /\ \A t \in Slots \ {s} : net'[t] = net[t]
  BY NetFreed
<1>2. modal' # modal => page # "none"
  BY DEF Windows
<1>3. form.got /\ modal' # "picker" => form.picture \/ form.without
  BY DEF Windows
<1>4. RestOK'
  BY DEF RestOK
<1>5. Windows'
  BY <1>1, <1>2, <1>3, IdleIs, ProfileAssumption DEF Windows, langVars, Picking, Uploads
<1> QED BY <1>1, <1>4, <1>5

LEMMA ProfileSavedStep ==
  ASSUME IInv, NEW s \in Slots, ProfileSaved(s)
  PROVE  Kept
<1>1. RestOK /\ NetOK /\ Windows /\ Saves /\ Logouts
  BY Parts
<1>2. /\ net[s].kind = "save" /\ net[s].ans = "ok" /\ name' = net[s].val
      /\ UNCHANGED <<langVars, profile, setting, isLogin, id, polling, torn, raced>>
  BY DEF ProfileSaved, server, history
<1>3. name' \in Texts
  BY <1>1, <1>2 DEF NetOK, Carries
<1>4. /\ RestOK' /\ NetOK' /\ Windows'
      /\ net'[s] = Idle /\ \A t \in Slots \ {s} : net'[t] = net[t]
  BY <1>1, <1>2, <1>3, FreedStep
  DEF ProfileSaved, Reported, Done, Uploads, history, RestOK
<1>5. Saves'
  <2>1. CASE torn
    BY <1>2, <2>1 DEF Saves
  <2>2. CASE ~torn
    <3>1. SavesAlone /\ SavesCurrent
      BY <1>1, <2>2 DEF Saves
    <3>2. SavesAlone' /\ SavesCurrent'
      BY <1>2, <1>4, <3>1, IdleIs DEF SavesAlone, SavesCurrent
    <3>3. name' = profile'[id']
      BY <1>2, <3>1 DEF SavesCurrent
    <3> QED BY <3>2, <3>3 DEF Saves
  <2> QED BY <2>1, <2>2
<1>6. Logouts'
  BY <1>1, <1>2, <1>4, IdleIs, LogoutsCalmed
<1> QED BY <1>4, <1>5, <1>6 DEF Kept

LEMMA EndedSteps ==
  ASSUME IInv, NEW s \in Slots, Complained(s) \/ Answered(s) \/ Failed(s)
  PROVE  Kept
<1>1. RestOK /\ NetOK /\ Windows /\ Saves /\ Logouts
  BY Parts
<1>2. /\ net[s].kind # "save" \/ net[s].ans # "ok"
      /\ net' = Freed(s) /\ cover' = "none"
      /\ UNCHANGED <<langVars, profile, setting, isLogin, id, name, polling, torn, raced>>
      /\ UNCHANGED <<page, field, form, switch>>
  BY DEF Complained, Answered, Failed, Reported, Done, Apart, server, account,
         history, page_
<1>3. \/ modal' = modal
      \/ modal = "none" /\ modal' = "alert" /\ net[s].here /\ net[s].kind \in Uploads
  BY DEF Complained, Answered, Failed, Reported, page_, Uploads
<1>4. torn' \in BOOLEAN
  BY <1>1, <1>2 DEF RestOK
<1>5. /\ RestOK' /\ NetOK' /\ Windows'
      /\ net'[s] = Idle /\ \A t \in Slots \ {s} : net'[t] = net[t]
  BY <1>1, <1>2, <1>3, <1>4, FreedStep
<1>6. \A t \in Slots : Calm(net[t], net'[t])
  BY <1>2, <1>5, IdleIs DEF Calm
<1>7. Saves' /\ Logouts'
  BY <1>1, <1>2, <1>6, Calmed
<1> QED BY <1>5, <1>7 DEF Kept

LEMMA UploadWithoutValueStep ==
  ASSUME IInv, NEW s \in Slots, UploadWithoutValue(s)
  PROVE  Kept
<1>1. RestOK /\ NetOK /\ Windows /\ Saves /\ Logouts
  BY Parts
<1>2. /\ net[s].kind \in Uploads /\ net' = Freed(s)
      /\ torn' = (torn \/ (net[s].kind = "save" /\ net[s].ans = "ok"))
      /\ UNCHANGED <<langVars, profile, setting, isLogin, id, name, polling, raced, cover>>
      /\ UNCHANGED <<page, field, form, switch, modal>>
  BY DEF UploadWithoutValue, Apart, server, account, page_
<1>3. torn' \in BOOLEAN
  BY <1>1, <1>2 DEF RestOK
<1>4. /\ RestOK' /\ NetOK' /\ Windows'
      /\ net'[s] = Idle /\ \A t \in Slots \ {s} : net'[t] = net[t]
  BY <1>1, <1>2, <1>3, FreedStep
<1>5. Saves'
  <2>1. CASE torn'
    BY <2>1 DEF Saves
  <2>2. CASE ~torn'
    <3>1. torn' = torn /\ (net[s].kind # "save" \/ net[s].ans # "ok")
      BY <1>1, <1>2, <2>2 DEF RestOK
    <3>2. \A t \in Slots : CalmSave(net[t], net'[t])
      BY <1>4, <3>1, IdleIs DEF CalmSave
    <3> QED BY <1>1, <1>2, <3>1, <3>2, SavesCalmed
  <2> QED BY <2>1, <2>2
<1>6. Logouts'
  BY <1>1, <1>2, <1>4, IdleIs, LogoutsCalmed
<1> QED BY <1>4, <1>5, <1>6 DEF Kept

(***************************************************************************)
(* The server and the network.                                             *)
(***************************************************************************)

(* No step of theirs touches the device: a call changes but its answer.    *)
LEMMA ServedWindows ==
  ASSUME Windows, RestOK, NEW s \in Slots,
         UNCHANGED <<langVars, account, page_, cover, polling, history>>,
         profile' \in [Users -> Texts], setting' \in [Users -> Status],
         \A t \in Slots \ {s} : net'[t] = net[t],
         net'[s].kind = net[s].kind, net'[s].here = net[s].here
  PROVE  RestOK' /\ Windows'
<1>1. RestOK'
  BY DEF RestOK, account, page_, history
<1>2. ASSUME NEW t \in Slots, net'[t].kind \in Uploads, net'[t].here
      PROVE  page # "none"
  BY <1>2 DEF Windows
<1>3. UNCHANGED <<root, picker, isLogin, id, name, page, field, form, modal>>
  BY DEF langVars, account, page_
<1> QED BY <1>1, <1>2, <1>3 DEF Windows, Picking

LEMMA AnswerSame ==
  ASSUME NetOK, NEW s \in Slots, NEW a, net' = [net EXCEPT ![s].ans = a]
  PROVE  net'[s].here = net[s].here
  BY DEF NetOK, Calls

LEMMA ServeLoginStep ==
  ASSUME IInv, NEW s \in Slots, ServeLogin(s)
  PROVE  Kept
<1>1. RestOK /\ NetOK /\ Windows /\ Saves /\ Logouts
  BY Parts
<1> DEFINE u == net[s].user
           c == [net[s] EXCEPT !.ans = "ok", !.val = profile[u]]
<1>2. /\ net[s].kind = "login" /\ net[s] \in Calls /\ u \in Users /\ profile[u] \in Texts
  BY <1>1 DEF ServeLogin, Waits, NetOK, Carries, RestOK
<1>3. /\ c \in Calls /\ c.kind = "login" /\ c.user = u /\ c.val = profile[u]
      /\ c.ans = "ok" /\ c.here = net[s].here
  BY <1>2 DEF Calls
<1>4. Carries(c)
  BY <1>2, <1>3 DEF Carries
<1>5. net' = [net EXCEPT ![s] = c]
  BY <1>1 DEF ServeLogin, NetOK
<1> HIDE DEF c
<1>6. NetOK' /\ \A t \in Slots : net'[t] = IF t = s THEN c ELSE net[t]
  BY <1>1, <1>3, <1>4, <1>5, NetSet
<1>7. UNCHANGED <<langVars, account, page_, cover, polling, history, profile, setting,
                  isLogin, id, name, torn, raced>>
  BY DEF ServeLogin, server, account, history
<1>8. RestOK' /\ Windows'
  <2>1. profile' \in [Users -> Texts] /\ setting' \in [Users -> Status]
    BY <1>1, <1>7 DEF RestOK
  <2> QED BY <1>1, <1>2, <1>3, <1>6, <1>7, <2>1, ServedWindows
<1>9. Saves'
  <2>1. CASE torn
    BY <1>7, <2>1 DEF Saves
  <2>2. CASE ~torn
    <3>1. SavesAlone /\ SavesCurrent /\ (id = NoUser \/ Recorded \/ name = profile[id])
      BY <1>1, <2>2 DEF Saves
    <3>2. SavesAlone'
      BY <1>2, <1>3, <1>6, <3>1 DEF SavesAlone
    <3>3. SavesCurrent'
      BY <1>2, <1>3, <1>6, <1>7, <3>1 DEF SavesCurrent
    <3>4. Recorded => Recorded'
      BY <1>2, <1>6 DEF Recorded
    <3> QED BY <1>7, <3>1, <3>2, <3>3, <3>4 DEF Saves
  <2> QED BY <2>1, <2>2
<1>10. Logouts'
  <2>1. CASE raced
    BY <1>7, <2>1 DEF Logouts
  <2>2. CASE ~raced
    <3>1. LogoutsAlone /\ LogoutsCurrent /\ Quiet
      BY <1>1, <2>2 DEF Logouts
    <3>2. LogoutsAlone' /\ LogoutsCurrent' /\ Quiet'
      BY <1>2, <1>3, <1>6, <1>7, <3>1 DEF LogoutsAlone, LogoutsCurrent, Quiet, InFlight
    <3> QED BY <3>2 DEF Logouts
  <2> QED BY <2>1, <2>2
<1> QED BY <1>6, <1>8, <1>9, <1>10 DEF Kept

LEMMA ServeSaveStep ==
  ASSUME IInv, NEW s \in Slots, ServeSave(s)
  PROVE  Kept
<1>1. RestOK /\ NetOK /\ Windows /\ Saves /\ Logouts
  BY Parts
<1>2. /\ net[s].kind = "save" /\ net' = [net EXCEPT ![s].ans = "ok"]
      /\ profile' = [profile EXCEPT ![net[s].user] = net[s].val]
      /\ UNCHANGED <<langVars, account, page_, cover, polling, history, setting,
                     isLogin, id, name, torn, raced>>
  BY DEF ServeSave, Waits, Answer, account, history
<1>3. net[s].user \in Users /\ net[s].val \in Texts
  BY <1>1, <1>2 DEF NetOK, Carries
<1>4. /\ NetOK'
      /\ \A t \in Slots \ {s} : net'[t] = net[t]
      /\ net'[s].kind = "save" /\ net'[s].user = net[s].user
      /\ net'[s].val = net[s].val /\ net'[s].ans = "ok"
  BY <1>1, <1>2, NetAnswered
<1>5. RestOK' /\ Windows'
  <2>1. profile' \in [Users -> Texts] /\ setting' \in [Users -> Status]
    BY <1>1, <1>2, <1>3 DEF RestOK
  <2> QED BY <1>1, <1>2, <1>4, <2>1, ServedWindows, AnswerSame
<1>6. Saves'
  <2>1. CASE torn
    BY <1>2, <2>1 DEF Saves
  <2>2. CASE ~torn
    <3>1. SavesAlone /\ SavesCurrent
      BY <1>1, <2>2 DEF Saves
    <3>2. \A t \in Slots \ {s} : net'[t].kind \notin {"save", "login"}
      BY <1>2, <1>4, <3>1 DEF SavesAlone
    <3>3. profile'[net'[s].user] = net'[s].val /\ net'[s].user = id
      BY <1>1, <1>2, <1>3, <1>4, <3>1 DEF SavesCurrent, RestOK
    <3>4. SavesAlone'
      BY <3>2 DEF SavesAlone
    <3>5. SavesCurrent'
      BY <1>2, <3>2, <3>3 DEF SavesCurrent
    <3>6. Recorded'
      BY <1>4 DEF Recorded
    <3> QED BY <3>4, <3>5, <3>6 DEF Saves
  <2> QED BY <2>1, <2>2
<1>7. Logouts'
  BY <1>1, <1>2, <1>4, LogoutsCalmed
<1> QED BY <1>4, <1>5, <1>6, <1>7 DEF Kept

LEMMA ServeStatusStep ==
  ASSUME IInv, NEW s \in Slots, ServeStatus(s)
  PROVE  Kept
<1>1. RestOK /\ NetOK /\ Windows /\ Saves /\ Logouts
  BY Parts
<1>2. /\ net[s].kind \in {"toggle", "logout"} /\ net' = [net EXCEPT ![s].ans = "ok"]
      /\ setting' = [setting EXCEPT ![net[s].user] = net[s].val]
      /\ UNCHANGED <<langVars, account, page_, cover, polling, history, profile,
                     isLogin, id, name, torn, raced>>
  BY DEF ServeStatus, Waits, Answer, account, history
<1>3. /\ net[s].user \in Users /\ net[s].val \in Status
      /\ net[s].kind = "logout" => net[s].val = "disabled"
  BY <1>1, <1>2 DEF NetOK, Carries, Status
<1>4. /\ NetOK'
      /\ \A t \in Slots \ {s} : net'[t] = net[t]
      /\ net'[s].kind = net[s].kind /\ net'[s].user = net[s].user
      /\ net'[s].val = net[s].val /\ net'[s].ans = "ok"
  BY <1>1, <1>2, NetAnswered
<1>5. RestOK' /\ Windows'
  <2>1. profile' \in [Users -> Texts] /\ setting' \in [Users -> Status]
    BY <1>1, <1>2, <1>3 DEF RestOK
  <2> QED BY <1>1, <1>2, <1>4, <2>1, ServedWindows, AnswerSame
<1>6. Saves'
  <2>1. \A t \in Slots : CalmSave(net[t], net'[t])
    BY <1>2, <1>4 DEF CalmSave
  <2> QED BY <1>1, <1>2, <2>1, SavesCalmed
<1>7. Logouts'
  <2>1. CASE raced
    BY <1>2, <2>1 DEF Logouts
  <2>2. CASE ~raced
    <3>1. LogoutsAlone /\ LogoutsCurrent /\ Quiet
      BY <1>1, <2>2 DEF Logouts
    <3>2. LogoutsAlone'
      BY <1>4, <3>1 DEF LogoutsAlone, InFlight
    <3>3. CASE net[s].kind = "toggle"
      <4>1. \A t \in Slots : net'[t].kind # "logout"
        BY <1>4, <3>1, <3>3 DEF LogoutsAlone, InFlight
      <4>2. isLogin' \/ id' = NoUser
        BY <1>2, <3>1, <3>3 DEF Quiet, InFlight
      <4> QED BY <3>2, <4>1, <4>2 DEF Logouts, LogoutsCurrent, Quiet
    <3>4. CASE net[s].kind = "logout"
      <4>1. id = net[s].user /\ setting'[id] = "disabled"
        BY <1>1, <1>2, <1>3, <3>1, <3>4 DEF LogoutsCurrent, RestOK
      <4>2. LogoutsCurrent'
        BY <1>2, <1>4, <3>1, <4>1 DEF LogoutsCurrent
      <4>3. Quiet'
        BY <1>2, <1>4, <3>1, <4>1 DEF Quiet, InFlight
      <4> QED BY <3>2, <4>2, <4>3 DEF Logouts
    <3> QED BY <1>2, <3>3, <3>4
  <2> QED BY <2>1, <2>2
<1> QED BY <1>4, <1>5, <1>6, <1>7 DEF Kept

LEMMA OtherSteps ==
  ASSUME IInv, NEW s \in Slots, ServeOther(s) \/ Lose(s)
  PROVE  Kept
<1>1. RestOK /\ NetOK /\ Windows /\ Saves /\ Logouts
  BY Parts
<1>2. PICK a \in {"ok", "failed"} :
        /\ a = "ok" => net[s].kind \in {"complain", "history"}
        /\ net[s].ans # "ok" \/ net[s].kind # "save"
        /\ net' = [net EXCEPT ![s].ans = a]
        /\ UNCHANGED <<langVars, account, page_, cover, polling, history, profile, setting,
                       isLogin, id, name, torn, raced>>
  <2>1. CASE ServeOther(s)
    BY <2>1 DEF ServeOther, Waits, Answer, account, history, server
  <2>2. CASE Lose(s)
    BY <2>2 DEF Lose, Answer, Uploads, account, history, server
  <2> QED BY <2>1, <2>2
<1>3. /\ NetOK'
      /\ \A t \in Slots \ {s} : net'[t] = net[t]
      /\ net'[s].kind = net[s].kind /\ net'[s].user = net[s].user
      /\ net'[s].val = net[s].val /\ net'[s].ans = a
  BY <1>1, <1>2, NetAnswered
<1>4. RestOK' /\ Windows'
  <2>1. profile' \in [Users -> Texts] /\ setting' \in [Users -> Status]
    BY <1>1, <1>2 DEF RestOK
  <2> QED BY <1>1, <1>2, <1>3, <2>1, ServedWindows, AnswerSame
<1>5. \A t \in Slots : Calm(net[t], net'[t])
  BY <1>2, <1>3 DEF Calm
<1>6. Saves' /\ Logouts'
  BY <1>1, <1>2, <1>5, Calmed
<1> QED BY <1>3, <1>4, <1>6 DEF Kept

(***************************************************************************)
(* The theorems.                                                           *)
(***************************************************************************)

LEMMA InitIInv == Init => IInv
<1> SUFFICES ASSUME Init PROVE IInv
  OBVIOUS
<1>1. LanguageInv
  BY LanguageStart DEF Init
<1>2. \A t \in Slots : net[t] = Idle
  BY DEF Init
<1>3. NetOK
  BY <1>2, IdleOK DEF Init, NetOK
<1>4. RestOK
  BY DEF Init, RestOK, Empty
<1>5. Windows
  BY <1>2, IdleIs DEF Init, LanguageInit, Windows, Empty, Uploads
<1>6. Saves
  BY <1>2, IdleIs DEF Init, Saves, SavesAlone, SavesCurrent
<1>7. Logouts
  BY <1>2, IdleIs DEF Init, Logouts, LogoutsAlone, LogoutsCurrent, Quiet, InFlight
<1> QED BY <1>1, <1>3, <1>4, <1>5, <1>6, <1>7, Parts

LEMMA StepIInv == IInv /\ [Next]_vars => IInv'
<1> SUFFICES ASSUME IInv, [Next]_vars PROVE IInv'
  OBVIOUS
<1>1. LanguageInv'
  BY NextLanguage, LanguageStep, Parts
<1>2. ASSUME NEW s \in Slots, Handle(s) PROVE Kept
  BY <1>2, SignedInStep, LoggedOutStep, ProfileSavedStep, EndedSteps,
     UploadWithoutValueStep DEF Handle
<1>3. ASSUME NEW s \in Slots, Serve(s) \/ Lose(s) PROVE Kept
  BY <1>3, ServeLoginStep, ServeSaveStep, ServeStatusStep, OtherSteps DEF Serve
<1>4. ASSUME User PROVE Kept
  BY <1>4, ContinueStep, BackStep, PageSteps, RequestSteps DEF User
<1>5. ASSUME Launch PROVE Kept
  BY <1>5, LaunchStep
<1>6. ASSUME PollAnswered \/ UNCHANGED vars PROVE Kept
  BY <1>6, PageSteps
<1>7. Kept
  BY <1>2, <1>3, <1>4, <1>5, <1>6 DEF Next
<1>8. (LanguageInv' /\ RestOK' /\ NetOK' /\ Windows' /\ Saves' /\ Logouts') => IInv'
  <2>1. LanguageInv' => LanguageTypeOK'
    BY DEF LanguageInv
  <2>2. LanguageTypeOK' /\ RestOK' /\ NetOK' => TypeOK'
    BY DEF TypeOK, RestOK, NetOK
  <2> QED BY <2>1, <2>2 DEF IInv
<1> QED BY <1>1, <1>7, <1>8 DEF Kept

(* The inductive invariant of the profile tab.                             *)
THEOREM ProfileInductive == Spec => []IInv
  BY InitIInv, StepIInv, PTL DEF Spec

(* Every call carries what its kind may send or be answered with.          *)
THEOREM ProfileTypes == Spec => []TypeOK
<1>1. IInv => TypeOK
  BY DEF IInv
<1> QED BY <1>1, ProfileInductive, PTL

(* The device keeps the server's texts, whatever else was lost.            *)
THEOREM TextsAreKept == Spec => []SavedTextsKept
<1>1. IInv => SavedTextsKept
  BY DEF IInv, Saves, SavedTextsKept, Recorded, InFlight
<1> QED BY <1>1, ProfileInductive, PTL

(* Whoever has signed out gets no notifications.                           *)
THEOREM QuietAfterLogout == Spec => []SignedOutIsQuiet
<1>1. IInv => SignedOutIsQuiet
  BY DEF IInv, Logouts, Quiet, SignedOutIsQuiet
<1> QED BY <1>1, ProfileInductive, PTL

(* A complaint goes out with the default picture only after a picker that  *)
(* gave none.                                                              *)
THEOREM ComplaintsHavePictures == Spec => []ComplaintHasPicture
<1>1. IInv => ComplaintHasPicture
  BY DEF IInv, Windows, ComplaintHasPicture, On
<1> QED BY <1>1, ProfileInductive, PTL
=============================================================================
