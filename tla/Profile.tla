------------------------------ MODULE Profile ------------------------------
(***************************************************************************)
(* The profile tab: ProfileVC and what it opens (EditProfileVC, ComplainVC,*)
(* NotificationVC, ServiceHistoryVC and, from Language, ChooseLanguageVC), *)
(* with signing in and out around it, the profile's texts in UserDefaults, *)
(* the calls in flight and the server's profiles and notification settings.*)
(*                                                                         *)
(* A handler is one action.  A profile is one value for its four texts; the*)
(* checks of the typed texts, message boxes and the history's rows are left*)
(* out.  The accounts are paid for: the way through AddVehicleVC is that of*)
(* Session, as are the other tabs.                                         *)
(***************************************************************************)
EXTENDS Language

CONSTANTS
  Users,   \* accounts
  NoUser,  \* "user_id" before the first login
  Texts,   \* what a profile can say: names, mail address and picture
  NoText,  \* the texts before the first login
  Slots    \* bound: calls in flight together

ASSUME ProfileAssumption == NoUser \notin Users /\ NoText \notin Texts

VARIABLES
  profile,  \* server: account -> its texts
  setting,  \* server: account -> its notification status
  isLogin,  \* UserDefaults "isLogin"
  id,       \* UserDefaults "user_id", written together with "token"
  name,     \* UserDefaults "name", "last_name", "email" and the picture's URL
  page,     \* the screen above ProfileVC, "none" or ChooseLanguageVC apart
  field,    \* the text fields of EditProfileVC
  form,     \* ComplainVC: its picture, isGetImage, a picker closed without
  switch,   \* NotificationVC.switchNotification.isOn
  modal,    \* what is presented: an action sheet, a picker or an alert
  cover,    \* the screen the loader covers
  polling,  \* a HomeVC lives and polls
  net,      \* slot -> the call it holds
  torn,     \* history: an update was in flight together with another or with
            \* a login, or its answer never came
  raced     \* history: since the last login a logout was in flight together with
            \* another login or with a change of the notification status

server == <<profile, setting>>
account == <<isLogin, id, name>>
page_ == <<page, field, form, switch, modal>>
history == <<torn, raced>>
vars == <<langVars, server, account, page_, cover, polling, net, history>>
-----------------------------------------------------------------------------
Kinds == {"login", "save", "complain", "toggle", "history", "logout"}
Status == {"enabled", "disabled"}

(* A call: its account, what it sends or is answered with, and, of an      *)
(* upload, whether its screen is still there.                              *)
Call(kind, user, val) ==
  [kind |-> kind, user |-> user, val |-> val, here |-> TRUE, ans |-> "none"]
Idle == Call("idle", NoUser, NoText)

Empty == [picture |-> FALSE, got |-> FALSE, without |-> FALSE]

(* The button of a screen can be pressed.                                  *)
At(r) == root = r /\ page = "none" /\ ~Picking /\ modal = "none" /\ cover # r
On(p) == page = p /\ modal = "none" /\ cover # "page"

InFlight(kinds) == \E s \in Slots : net[s].kind \in kinds
Freed(s) == [net EXCEPT ![s] = Idle]
Uploads == {"save", "complain"}
Left(n) ==
  [s \in Slots |-> IF n[s].kind \in Uploads THEN [n[s] EXCEPT !.here = FALSE] ELSE n[s]]

(* startLoader over the screen, and a call of its.                         *)
Request(screen, kind, user, val) ==
  /\ \E s \in Slots : /\ net[s].kind = "idle"
                      /\ net' = [net EXCEPT ![s] = Call(kind, user, val)]
  /\ cover' = screen
  /\ torn' = (torn \/ (kind = "save" /\ InFlight({"save", "login"}))
                   \/ (kind = "login" /\ InFlight({"save"})))
  /\ raced' = (raced \/ (kind = "logout" /\ InFlight({"toggle", "login"}))
                     \/ (kind \in {"toggle", "login"} /\ InFlight({"logout"})))

(* stopLoader and the end of the call.                                     *)
Done(s) == net' = Freed(s) /\ cover' = "none"

(* No screen above ProfileVC.                                              *)
NoPage ==
  /\ page' = "none" /\ modal' = "none"
  /\ field' = NoText /\ form' = Empty /\ switch' = TRUE

(* A new window with n in flight; manageTabBar makes a HomeVC, which polls.*)
Replaced(screen, n) ==
  /\ NewWindow(screen)
  /\ NoPage
  /\ net' = Left(n) /\ cover' = "none"
  /\ polling' = (polling \/ screen = "home")

(* A handler of EditProfileVC, ComplainVC or NotificationVC touches no     *)
(* more than its screen.                                                   *)
Apart == UNCHANGED <<langVars, server, account, polling>>

Init ==
  /\ LanguageInit
  /\ profile \in [Users -> Texts] /\ setting \in [Users -> Status]
  /\ isLogin = FALSE /\ id = NoUser /\ name = NoText
  /\ page = "none" /\ modal = "none"
  /\ field = NoText /\ form = Empty /\ switch = TRUE
  /\ cover = "none" /\ polling = FALSE
  /\ net = [s \in Slots |-> Idle]
  /\ torn = FALSE /\ raced = FALSE
-----------------------------------------------------------------------------
(* Faulty variants: each breaks one property.                              *)

(* The switch posts checkNotification before it is set.                    *)
ToggleUnset ==
  /\ On("notification")
  /\ switch' = ~switch
  /\ Request("page", "toggle", id, "")
  /\ UNCHANGED <<page, field, form, modal>> /\ Apart

(* The texts are kept as soon as they are sent.                            *)
SaveAtOnce ==
  /\ On("edit")
  /\ name' = field
  /\ Request("page", "save", id, field)
  /\ UNCHANGED <<langVars, server, isLogin, id, page_, polling>>

(* The sheet does not forget the picture that was asked for.               *)
TapPictureKeeps ==
  /\ On("edit") \/ On("complain")
  /\ modal' = "sheet"
  /\ form' = [form EXCEPT !.got = TRUE]
  /\ UNCHANGED <<page, field, switch, cover, net, history>> /\ Apart

(* myHandler is called whatever the status of the answer.                  *)
LoggedOutAnyway(s) ==
  /\ net[s].kind = "logout" /\ net[s].ans \in {"ok", "failed"}
  /\ isLogin' = FALSE
  /\ Replaced("login", Freed(s))
  /\ UNCHANGED <<server, id, name, history>>
-----------------------------------------------------------------------------
(* LanguageVC, LoginVC, and the tabs.                                      *)

(* btnContinue of LanguageVC, or of ChooseLanguageVC (makeRoot).           *)
Continue ==
  /\ Picking
  /\ Replaced(IF root = "language" THEN "login" ELSE "home", net)
  /\ UNCHANGED <<server, account, history>>

ChooseLanguage(l) ==
  /\ Choose(l)
  /\ UNCHANGED <<server, account, page_, cover, polling, net, history>>

SendOTP(u) ==
  /\ At("login")
  /\ Request("login", "login", u, NoText)
  /\ UNCHANGED page_ /\ Apart

SignedIn(s) ==
  /\ net[s].kind = "login" /\ net[s].ans = "ok"
  /\ isLogin' = TRUE /\ id' = net[s].user /\ name' = net[s].val
  /\ Replaced("home", Freed(s))
  /\ raced' = InFlight({"logout"})
  /\ UNCHANGED <<server, torn>>

(* The tab bar is beside the loader's view and hidden by the pages above.  *)
SelectTab(tab) ==
  /\ page = "none" /\ modal = "none"
  /\ ShowTab(tab)
  /\ UNCHANGED <<server, account, page_, cover, polling, net, history>>
-----------------------------------------------------------------------------
(* ProfileVC.                                                              *)

(* EditProfileVC shows the texts as they are; the storyboard's switch of   *)
(* NotificationVC is on.                                                   *)
OpenPage(p) ==
  /\ At("profile") /\ p \in {"edit", "complain", "notification"}
  /\ page' = p
  /\ field' = IF p = "edit" THEN name ELSE field
  /\ UNCHANGED <<form, switch, modal, cover, net, history>> /\ Apart

(* ServiceHistoryVC asks for its list as it loads.                         *)
OpenHistory ==
  /\ At("profile")
  /\ page' = "history"
  /\ Request("page", "history", id, NoText)
  /\ UNCHANGED <<field, form, switch, modal>> /\ Apart

OpenLanguage ==
  /\ At("profile")
  /\ OpenPicker
  /\ UNCHANGED <<server, account, page_, cover, polling, net, history>>

BackFromLanguage ==
  /\ BackFromPicker
  /\ UNCHANGED <<server, account, page_, cover, polling, net, history>>

(* Yes on the alert: a status with the sign-out in it.                     *)
Logout ==
  /\ At("profile")
  /\ Request("profile", "logout", id, "disabled")
  /\ UNCHANGED page_ /\ Apart

(* myHandler, of any ProfileVC: user_id, token and texts stay behind.      *)
LoggedOut(s) ==
  /\ net[s].kind = "logout" /\ net[s].ans = "ok"
  /\ isLogin' = FALSE
  /\ Replaced("login", Freed(s))
  /\ UNCHANGED <<server, id, name, history>>
-----------------------------------------------------------------------------
(* EditProfileVC, ComplainVC, NotificationVC, ServiceHistoryVC.            *)

(* btnBack, and OK on the alert of a success.                              *)
Back ==
  /\ \/ page # "none" /\ On(page)
     \/ modal = "alert"
  /\ NoPage
  /\ net' = Left(net)
  /\ cover' = IF cover = "page" THEN "none" ELSE cover
  /\ UNCHANGED history /\ Apart

Type(t) ==
  /\ On("edit")
  /\ field' = t
  /\ UNCHANGED <<page, form, switch, modal, cover, net, history>> /\ Apart

SaveProfile ==
  /\ On("edit")
  /\ Request("page", "save", id, field)
  /\ UNCHANGED page_ /\ Apart

(* showAlert of EditProfileVC and ComplainVC; the latter forgets that a    *)
(* picture was asked for.                                                  *)
TapPicture ==
  /\ On("edit") \/ On("complain")
  /\ modal' = "sheet"
  /\ form' = [form EXCEPT !.got = FALSE]
  /\ UNCHANGED <<page, field, switch, cover, net, history>> /\ Apart

(* Camera or Photo Album: a source that is not there presents nothing.     *)
ChooseSource ==
  /\ modal = "sheet"
  /\ \E there \in BOOLEAN :
       /\ modal' = IF there THEN "picker" ELSE "none"
       /\ form' = IF page = "complain"
                    THEN [form EXCEPT !.got = TRUE, !.without = @ \/ ~there]
                    ELSE form
  /\ UNCHANGED <<page, field, switch, cover, net, history>> /\ Apart

CancelSheet ==
  /\ modal = "sheet"
  /\ modal' = "none"
  /\ UNCHANGED <<page, field, form, switch, cover, net, history>> /\ Apart

(* The picker is dismissed with a picture or without.  After one that      *)
(* filled the screen EditProfileVC appears again and shows the defaults.   *)
ClosePicker ==
  /\ modal = "picker"
  /\ modal' = "none"
  /\ \E picked \in BOOLEAN :
       form' = IF page = "complain"
                 THEN [form EXCEPT !.picture = @ \/ picked, !.without = @ \/ ~picked]
                 ELSE form
  /\ field' \in {field, IF page = "edit" THEN name ELSE field}
  /\ UNCHANGED <<page, switch, cover, net, history>> /\ Apart

(* btnSubmit: sends the picture shown, the default one until one is picked.*)
Submit ==
  /\ On("complain") /\ form.got
  /\ Request("page", "complain", id, NoText)
  /\ UNCHANGED page_ /\ Apart

Toggle ==
  /\ On("notification")
  /\ switch' = ~switch
  /\ Request("page", "toggle", id, IF switch' THEN "enabled" ELSE "disabled")
  /\ UNCHANGED <<page, field, form, modal>> /\ Apart

(* The alert of an upload needs its screen, with nothing presented.        *)
Reported(s) ==
  /\ modal' = IF net[s].here /\ modal = "none" THEN "alert" ELSE modal
  /\ UNCHANGED <<page, field, form, switch>>

(* uploadProfileOnServer: the texts are kept for whoever is signed in now. *)
ProfileSaved(s) ==
  /\ net[s].kind = "save" /\ net[s].ans = "ok"
  /\ name' = net[s].val
  /\ Reported(s)
  /\ Done(s)
  /\ UNCHANGED <<langVars, server, isLogin, id, polling, history>>

Complained(s) ==
  /\ net[s].kind = "complain" /\ net[s].ans = "ok"
  /\ Reported(s)
  /\ Done(s)
  /\ UNCHANGED history /\ Apart

Answered(s) ==
  /\ net[s].kind \in {"toggle", "history"} /\ net[s].ans = "ok"
  /\ Done(s)
  /\ UNCHANGED <<page_, history>> /\ Apart

(* "Failure", or errorBlock.                                               *)
Failed(s) ==
  /\ net[s].ans = "failed"
  /\ Done(s)
  /\ UNCHANGED <<page_, history>> /\ Apart

(* An upload that got no JSON calls no block: the loader stays.            *)
UploadWithoutValue(s) ==
  /\ net[s].kind \in Uploads
  /\ net' = Freed(s)
  /\ torn' = (torn \/ (net[s].kind = "save" /\ net[s].ans = "ok"))
  /\ UNCHANGED <<page_, cover, raced>> /\ Apart

(* A poll of some HomeVC is answered: stopLoader.                          *)
PollAnswered ==
  /\ polling /\ cover # "none"
  /\ cover' = "none"
  /\ UNCHANGED <<page_, net, history>> /\ Apart

(* A new process; an update already recorded is never heard of.            *)
LaunchOn(screen) ==
  /\ LaunchSpeaking(screen)
  /\ NoPage
  /\ cover' = "none" /\ net' = [s \in Slots |-> Idle]
  /\ polling' = (screen = "home")
  /\ torn' = (torn \/ \E s \in Slots : net[s].kind = "save" /\ net[s].ans = "ok")
  /\ raced' = (raced /\ ~isLogin)
  /\ UNCHANGED <<server, account>>

Launch == LaunchOn(IF isLogin THEN "home" ELSE "login")
-----------------------------------------------------------------------------
(* The server and the network (external).                                  *)

Waits(s, kind) == net[s].kind = kind /\ net[s].ans = "none"
Answer(s, a) ==
  /\ net' = [net EXCEPT ![s].ans = a]
  /\ UNCHANGED <<langVars, account, page_, cover, polling, history>>

ServeLogin(s) ==
  /\ Waits(s, "login")
  /\ net' = [net EXCEPT ![s].ans = "ok", ![s].val = profile[net[s].user]]
  /\ UNCHANGED <<langVars, server, account, page_, cover, polling, history>>

ServeSave(s) ==
  /\ Waits(s, "save")
  /\ profile' = [profile EXCEPT ![net[s].user] = net[s].val]
  /\ Answer(s, "ok")
  /\ UNCHANGED setting

ServeStatus(s) ==
  /\ Waits(s, "toggle") \/ Waits(s, "logout")
  /\ setting' = [setting EXCEPT ![net[s].user] = net[s].val]
  /\ Answer(s, "ok")
  /\ UNCHANGED profile

ServeOther(s) ==
  /\ Waits(s, "complain") \/ Waits(s, "history")
  /\ Answer(s, "ok")
  /\ UNCHANGED server

(* A call is refused or lost, or its answer is, which no handler tells     *)
(* apart; an upload whose answer is lost ends as UploadWithoutValue.       *)
Lose(s) ==
  /\ net[s].kind # "idle"
  /\ net[s].ans = "none" \/ (net[s].ans = "ok" /\ net[s].kind \notin Uploads)
  /\ Answer(s, "failed")
  /\ UNCHANGED server
-----------------------------------------------------------------------------
User == \/ Continue \/ \E l \in Languages : ChooseLanguage(l)
        \/ \E u \in Users : SendOTP(u)
        \/ \E tab \in {"home", "profile"} : SelectTab(tab)
        \/ \E p \in {"edit", "complain", "notification"} : OpenPage(p)
        \/ OpenHistory \/ OpenLanguage \/ BackFromLanguage \/ Logout \/ Back
        \/ \E t \in Texts : Type(t)
        \/ SaveProfile \/ TapPicture \/ ChooseSource \/ CancelSheet
        \/ ClosePicker \/ Submit \/ Toggle

Handle(s) == \/ SignedIn(s) \/ LoggedOut(s) \/ ProfileSaved(s) \/ Complained(s)
             \/ Answered(s) \/ Failed(s) \/ UploadWithoutValue(s)

Serve(s) == ServeLogin(s) \/ ServeSave(s) \/ ServeStatus(s) \/ ServeOther(s)

Next == \/ User
        \/ PollAnswered
        \/ Launch
        \/ \E s \in Slots : Handle(s) \/ Serve(s) \/ Lose(s)

Spec == Init /\ [][Next]_vars
-----------------------------------------------------------------------------
Calls == [kind : Kinds \union {"idle"}, user : Users \union {NoUser},
          val : Texts \union {NoText} \union Status, here : BOOLEAN,
          ans : {"none", "ok", "failed"}]

(* What a call of each kind carries.                                       *)
Carries(c) ==
  /\ c.kind # "idle" => c.user \in Users
  /\ c.kind = "save" \/ (c.kind = "login" /\ c.ans = "ok") => c.val \in Texts
  /\ c.kind = "toggle" => c.val \in Status
  /\ c.kind = "logout" => c.val = "disabled"

(* The types of the variables; what is sent is what its call may carry.    *)
TypeOK ==
  /\ LanguageTypeOK
  /\ profile \in [Users -> Texts] /\ setting \in [Users -> Status]
  /\ isLogin \in BOOLEAN /\ id \in Users \union {NoUser}
  /\ name \in Texts \union {NoText}
  /\ page \in {"none", "edit", "complain", "notification", "history"}
  /\ field \in Texts \union {NoText}
  /\ form \in [picture : BOOLEAN, got : BOOLEAN, without : BOOLEAN]
  /\ switch \in BOOLEAN
  /\ modal \in {"none", "sheet", "picker", "alert"}
  /\ cover \in {"none", "login", "profile", "page"}
  /\ polling \in BOOLEAN /\ <<torn, raced>> \in BOOLEAN \X BOOLEAN
  /\ net \in [Slots -> Calls] /\ \A s \in Slots : Carries(net[s])

(* The texts kept on the device are those the server has for the account,  *)
(* when no update is in flight: over logouts, other accounts, windows and  *)
(* launches.  Updates that overlap each other or a login can be answered in*)
(* another order than they were recorded in, and only they (or a lost      *)
(* answer) leave other texts behind.                                       *)
SavedTextsKept ==
  torn \/ id = NoUser \/ InFlight({"save"}) \/ name = profile[id]

(* Whoever has signed out gets no notifications: the status at the server  *)
(* is "disabled" although it is changed by answers that may come late and  *)
(* by calls that may be lost; only a logout that overlaps a change of the  *)
(* status or a login can leave another one.                                *)
SignedOutIsQuiet ==
  raced \/ isLogin \/ id = NoUser \/ setting[id] = "disabled"

(* A complaint goes out with the default picture only if, on this screen, a*)
(* picker was closed without a picture or could not be opened, although    *)
(* isGetImage is set before the picker has anything to give and forgotten  *)
(* when the next sheet opens.                                              *)
ComplaintHasPicture ==
  On("complain") /\ form.got => form.picture \/ form.without

(* The inductive invariant behind them.  Tabs are shown to whoever is      *)
(* signed in; pages lie on ProfileVC, and what is presented on a page.     *)
Windows ==
  /\ isLogin <=> root \in {"home", "profile"}
  /\ isLogin => id # NoUser
  /\ id # NoUser => name # NoText
  /\ page # "none" => root = "profile" /\ ~Picking
  /\ page = "edit" => field # NoText
  /\ modal # "none" => page # "none"
  /\ form.got => page = "complain"
  /\ form.got /\ modal # "picker" => form.picture \/ form.without
  /\ \A s \in Slots : net[s].kind \in Uploads /\ net[s].here => page # "none"

(* Until an update was torn it overlaps no other and no login, its account *)
(* is signed in, and the texts kept are the server's until it is recorded. *)
SavesAlone ==
  \A s, t \in Slots :
    s # t /\ net[s].kind = "save" => net[t].kind \notin {"save", "login"}
SavesCurrent ==
  \A s \in Slots :
    /\ net[s].kind = "save" => net[s].user = id
    /\ net[s].kind \in {"save", "login"} /\ net[s].ans = "ok" =>
         net[s].val = profile[net[s].user]
Recorded == \E s \in Slots : net[s].kind = "save" /\ net[s].ans = "ok"
Saves ==
  torn \/ /\ SavesAlone /\ SavesCurrent
          /\ id = NoUser \/ Recorded \/ name = profile[id]

(* Until they raced a logout meets no change of the status and no login,   *)
(* and its account's status is "disabled" from its answer on.              *)
LogoutsAlone ==
  InFlight({"logout"}) => ~InFlight({"toggle", "login"})
LogoutsCurrent ==
  \A s \in Slots : net[s].kind = "logout" =>
    /\ net[s].user = id
    /\ net[s].ans = "ok" => setting[id] = "disabled"
Quiet ==
  \/ isLogin \/ id = NoUser
  \/ setting[id] = "disabled" /\ ~InFlight({"toggle"})
Logouts == raced \/ (LogoutsAlone /\ LogoutsCurrent /\ Quiet)

IInv == TypeOK /\ LanguageInv /\ Windows /\ Saves /\ Logouts
=============================================================================
