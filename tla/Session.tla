------------------------------ MODULE Session ------------------------------
(***************************************************************************)
(* Signing in, registering, adding a vehicle, paying for it and logging    *)
(* out: AppDelegate.setRootVC, LoginVC, SignupVC, OTPVC, AddVehicleVC,     *)
(* SubscriptionPlanVC, PaymentVC, MyVehicleVC and ProfileVC, what they     *)
(* leave in UserDefaults, their calls in flight and the account server.    *)
(*                                                                         *)
(* Every handler runs on the main thread, so it is one action.  The loader *)
(* is one shared view: startLoader puts it over the caller's screen, from  *)
(* wherever it was, and every stopLoader takes it away; the buttons below  *)
(* it cannot be pressed.  A screen that has left the window still gets its *)
(* answers.  Message boxes, validation of the forms, the picked images and *)
(* the profile's texts are left out.                                       *)
(***************************************************************************)
EXTENDS Naturals, Sequences

CONSTANTS
  Phones,   \* phone numbers; an account is known by its number
  NoPhone,  \* the account and the number while there is none
  Cars,     \* bound: vehicles the server can register
  Slots,    \* bound: calls in flight together
  MaxStack  \* bound: screens in a navigation controller

ASSUME SessionAssumption ==
  /\ NoPhone \notin Phones
  /\ MaxStack \in Nat \ {0}

VARIABLES
  members,   \* server: the registered phone numbers
  owner,     \* server: vehicle -> the account that added it
  payments,  \* server: the recorded <<account, vehicle>> payments
  isLogin,   \* UserDefaults "isLogin"
  id,        \* UserDefaults "user_id", written together with "token"
  flag,      \* UserDefaults "is_paid"
  phone,     \* the global strMobileNumber
  stack,     \* the screens of the window's navigation controller, or of the
             \* vehicle tab's, the visible one last
  tab,       \* the selected tab, "none" in a window without tabs
  bar,       \* the tab bar is shown
  listed,    \* MyVehicleVC.arrayCarList of the window's vehicle tab
  alert,     \* the alert of a recorded payment is up
  cover,     \* the place of the screen under the loader, 0 for none
  polling,   \* a HomeVC lives: its timer keeps it until the process ends
  net,       \* slot -> the call it holds
  bypass,    \* history: this launch found is_paid "no" and nobody signed in
  mixed,     \* history: an account was written by a screen not on top
  hung       \* history: an upload was answered by neither of its blocks

local == <<isLogin, id, flag, phone>>
window == <<stack, tab, bar, listed, alert>>
server == <<members, owner, payments>>
history == <<bypass, mixed, hung>>
vars == <<server, local, window, cover, polling, net, history>>
-----------------------------------------------------------------------------
Users == Phones \union {NoPhone}
Flags == {"", "no", "yes"}  \* "yes" stands for every other is_paid
Kinds == {"idle", "login", "otp", "register", "models", "add", "pay", "list", "logout"}

(* Where a call was made and its answer is handled: a position of the      *)
(* stack, the profile tab, or 0 when that screen has left the window.      *)
Profile == MaxStack + 1
Places == 0 .. Profile

(* A call: its account, the vehicles it names or is answered with, and the *)
(* answer on its way back with is_paid and availabe.                       *)
Call(kind, at, user, cars) ==
  [kind |-> kind, at |-> at, user |-> user, cars |-> cars,
   ans |-> "none", paid |-> "", known |-> FALSE]
Idle == Call("idle", 0, NoPhone, {})

(* A screen: the account number of SignupVC and OTPVC (dicPara), the       *)
(* vehicle of SubscriptionPlanVC and PaymentVC, isfromCreditCard.          *)
Screen(vc, user, cars) == [vc |-> vc, user |-> user, cars |-> cars, card |-> FALSE]
Bare(vc) == Screen(vc, NoPhone, {})

Here == Len(stack)
Top == stack[Here]
TopIs(vc) == tab \in {"none", "list"} /\ Top.vc = vc /\ ~alert
Usable(vc) == TopIs(vc) /\ cover # Here

(* Faulty: the answers of a screen that has been left still find it.       *)
DetachedNever(n, places) == n

(* The calls n once the screens at the places have left the window.        *)
Detached(n, places) ==
  [s \in Slots |-> [n[s] EXCEPT !.at = IF @ \in places THEN 0 ELSE @]]
Freed(s) == [net EXCEPT ![s] = Idle]

(* appDelegate.window.rootViewController = a new window, nothing covered.  *)
NewWindow(stk, t) ==
  /\ stack' = stk /\ tab' = t
  /\ bar' = TRUE /\ listed' = {} /\ alert' = FALSE

(* manageTabBar: the home tab is selected and its HomeVC starts a timer.   *)
TabBar == NewWindow(<<Bare("list")>>, "home") /\ polling' = TRUE

(* pushViewController.  AddVehicleVC and SubscriptionPlanVC hide the tab   *)
(* bar when they appear, SubscriptionPlanVC and PaymentVC show it when they*)
(* disappear.                                                              *)
Push(screen) ==
  /\ Here < MaxStack
  /\ stack' = Append(stack, screen)
  /\ bar' = IF tab = "list" THEN screen.vc = "payment" ELSE bar
  /\ UNCHANGED <<tab, listed, alert>>

(* A button of the screen on top: startLoader and a call.                  *)
Request(kind, user, cars) ==
  /\ \E s \in Slots : net[s] = Idle /\ net' = [net EXCEPT ![s] = Call(kind, Here, user, cars)]
  /\ cover' = Here

(* stopLoader and the end of the call.                                     *)
Done(s) == net' = Freed(s) /\ cover' = 0

(* The call's screen pushes AddVehicleVC, which asks for the models.       *)
PushVehicle(s) ==
  /\ Push(Bare("vehicle"))
  /\ net' = [net EXCEPT ![s] = Call("models", Here + 1, id', {})]
  /\ cover' = Here + 1

(* The call's screen makes a new window; no other screen is left.          *)
LeaveWindow(s) == net' = Detached(Freed(s), Places) /\ cover' = 0

Init ==
  /\ members = {} /\ owner = [c \in Cars |-> NoPhone] /\ payments = {}
  /\ isLogin = FALSE /\ id = NoPhone /\ flag = "" /\ phone = NoPhone
  /\ stack = <<Bare("language")>> /\ tab = "none" /\ bar = TRUE
  /\ listed = {} /\ alert = FALSE /\ cover = 0 /\ polling = FALSE
  /\ net = [s \in Slots |-> Idle]
  /\ bypass = FALSE /\ mixed = FALSE /\ hung = FALSE
-----------------------------------------------------------------------------
(* Faulty variants: each breaks one property.                              *)

(* isLogin is set before availabe is looked at.                            *)
LoginUnknownSignsIn(s) ==
  /\ net[s].kind = "login" /\ net[s].ans = "ok" /\ ~net[s].known
  /\ flag' = net[s].paid /\ isLogin' = TRUE
  /\ IF net[s].at = 0 THEN UNCHANGED window ELSE Push(Screen("signup", phone, {}))
  /\ Done(s)
  /\ mixed' = (mixed \/ net[s].at # Here)
  /\ UNCHANGED <<server, id, phone, polling, bypass, hung>>

(* The user is signed out before the server has agreed.                    *)
LogoutAtOnce ==
  /\ tab = "profile" /\ ~alert /\ cover # Profile
  /\ \E s \in Slots :
       net[s] = Idle /\ net' = [net EXCEPT ![s] = Call("logout", Profile, id, {})]
  /\ isLogin' = FALSE
  /\ cover' = Profile
  /\ UNCHANGED <<server, id, flag, phone, window, polling, history>>

(* The error block does not stop the loader.                               *)
FailedKeepsLoader(s) ==
  /\ net[s].ans \in {"refused", "error"}
  /\ net' = Freed(s)
  /\ UNCHANGED <<server, local, window, cover, polling, history>>

(* The plan is shown for the vehicle even when AddVehicleVC was left.      *)
VehicleAddedAnyway(s) ==
  /\ net[s].kind = "add" /\ net[s].ans = "ok"
  /\ Push(Screen("plan", NoPhone, net[s].cars))
  /\ Done(s)
  /\ UNCHANGED <<server, local, polling, history>>

(* is_paid is kept before the status of the answer is looked at.           *)
PaidBeforeStatus(s) ==
  /\ net[s].kind = "pay" /\ net[s].ans \in {"ok", "refused"}
  /\ flag' = "yes"
  /\ Done(s)
  /\ UNCHANGED <<server, isLogin, id, phone, window, polling, history>>
-----------------------------------------------------------------------------
(* LanguageVC, LoginVC, SignupVC.                                          *)

Continue ==
  /\ Usable("language")
  /\ Push(Bare("login"))
  /\ UNCHANGED <<server, local, cover, polling, net, history>>

SendOTP(p) ==
  /\ Usable("login")
  /\ phone' = p
  /\ Request("login", p, {})
  /\ UNCHANGED <<server, isLogin, id, flag, window, polling, history>>

(* login: is_paid is kept whether or not there is such an account; an      *)
(* unknown number is registered, with the number typed last.               *)
LoginUnknown(s) ==
  /\ net[s].kind = "login" /\ net[s].ans = "ok" /\ ~net[s].known
  /\ flag' = net[s].paid
  /\ IF net[s].at = 0 THEN UNCHANGED window ELSE Push(Screen("signup", phone, {}))
  /\ Done(s)
  /\ mixed' = (mixed \/ net[s].at # Here)
  /\ UNCHANGED <<server, isLogin, id, phone, polling, bypass, hung>>

SignedIn(s) ==
  /\ net[s].ans = "ok"
  /\ isLogin' = TRUE /\ id' = net[s].user
  /\ mixed' = (mixed \/ net[s].at # Here)
  /\ UNCHANGED <<server, phone, bypass, hung>>

LoginPaid(s) ==
  /\ net[s].kind = "login" /\ net[s].known /\ net[s].paid # "no"
  /\ SignedIn(s)
  /\ flag' = net[s].paid
  /\ TabBar
  /\ LeaveWindow(s)

LoginUnpaid(s) ==
  /\ net[s].kind = "login" /\ net[s].known /\ net[s].paid = "no"
  /\ SignedIn(s)
  /\ flag' = "no"
  /\ IF net[s].at = 0 THEN UNCHANGED window /\ Done(s) ELSE PushVehicle(s)
  /\ UNCHANGED polling

(* btnRegister: OTPVC asks for the code as it loads.                       *)
Register ==
  /\ Usable("signup")
  /\ Push(Screen("otp", Top.user, {}))
  /\ \E s \in Slots :
       net[s] = Idle /\ net' = [net EXCEPT ![s] = Call("otp", Here + 1, Top.user, {})]
  /\ cover' = Here + 1
  /\ UNCHANGED <<server, local, polling, history>>
-----------------------------------------------------------------------------
(* OTPVC.  The code is compared on the device; the user types it once it   *)
(* has come, and while it has not, an empty row matches the empty strOTP,  *)
(* so Verify can always go through.                                        *)

OtpAnswered(s) ==
  /\ net[s].kind = "otp" /\ net[s].ans = "ok"
  /\ flag' = net[s].paid
  /\ Done(s)
  /\ mixed' = (mixed \/ net[s].at # Here)
  /\ UNCHANGED <<server, isLogin, id, phone, window, polling, bypass, hung>>

Verify ==
  /\ Usable("otp")
  /\ Request("register", Top.user, {})
  /\ UNCHANGED <<server, local, window, polling, history>>

(* RegisterUser: is_paid is not written.                                   *)
Registered(s) ==
  /\ net[s].kind = "register"
  /\ SignedIn(s)
  /\ IF net[s].at = 0 THEN UNCHANGED window /\ Done(s) ELSE PushVehicle(s)
  /\ UNCHANGED <<flag, polling>>
-----------------------------------------------------------------------------
(* AddVehicleVC, SubscriptionPlanVC, PaymentVC.                            *)

(* btnBack of AddVehicleVC (nothing happens at the root) and PaymentVC.    *)
(* MyVehicleVC asks for its list when it appears again.                    *)
Back ==
  /\ Usable("vehicle") \/ Usable("payment")
  /\ Here > 1
  /\ stack' = SubSeq(stack, 1, Here - 1)
  /\ bar' = TRUE
  /\ IF stack[Here - 1].vc = "list"
       THEN /\ \E s \in Slots :
                 /\ net[s] = Idle
                 /\ net' = Detached([net EXCEPT ![s] = Call("list", Here - 1, id, {})], {Here})
            /\ cover' = Here - 1
       ELSE net' = Detached(net, {Here}) /\ UNCHANGED cover
  /\ UNCHANGED <<server, local, tab, listed, alert, polling, history>>

AddNewVehicle ==
  /\ Usable("vehicle")
  /\ Request("add", id, {})
  /\ UNCHANGED <<server, local, window, polling, history>>

VehicleAdded(s) ==
  /\ net[s].kind = "add" /\ net[s].ans = "ok"
  /\ IF net[s].at = 0 THEN UNCHANGED window ELSE Push(Screen("plan", NoPhone, net[s].cars))
  /\ Done(s)
  /\ UNCHANGED <<server, local, polling, history>>

(* An upload that got no JSON calls no block: the loader stays.            *)
UploadWithoutValue(s) ==
  /\ net[s].kind = "add"
  /\ net' = Freed(s)
  /\ hung' = TRUE
  /\ UNCHANGED <<server, local, window, cover, polling, bypass, mixed>>

ChoosePlan ==
  /\ Usable("plan")
  /\ Push(Screen("payment", NoPhone, Top.cars))
  /\ UNCHANGED <<server, local, cover, polling, net, history>>

(* decidePolicyFor: the pages PaymentVC tells apart.  Redirects come in    *)
(* under the loader too.  After "checkout/pay" every "hostedcheckout" page *)
(* posts a payment and nothing else counts; api_process is forgotten by the*)
(* page that sets it, so a "calculated_hash" page only leaves.             *)
OnPayment == tab \in {"none", "list"} /\ Top.vc = "payment"

CheckoutPage ==
  /\ OnPayment
  /\ stack' = [stack EXCEPT ![Here].card = TRUE]
  /\ UNCHANGED <<server, local, tab, bar, listed, alert, cover, polling, net, history>>

PaidPage ==
  /\ OnPayment  \* "hostedcheckout" for a card, "=validate" otherwise
  /\ Request("pay", id, Top.cars)
  /\ UNCHANGED <<server, local, window, polling, history>>

(* "paymentcancel", "calculated_hash", or OK on the alert.                 *)
LeavePayment ==
  /\ OnPayment /\ (alert \/ ~Top.card)
  /\ TabBar
  /\ net' = Detached(net, Places) /\ cover' = 0
  /\ UNCHANGED <<server, local, history>>

(* updatePaymentOnServer: is_paid is kept for whoever is signed in by now; *)
(* the alert needs the PaymentVC on screen.                                *)
Paid(s) ==
  /\ net[s].kind = "pay" /\ net[s].ans = "ok"
  /\ flag' = "yes"
  /\ IF net[s].at = 0 THEN UNCHANGED window
       ELSE /\ stack' = [stack EXCEPT ![net[s].at].card = FALSE]
            /\ alert' = (alert \/ (OnPayment /\ net[s].at = Here))
            /\ UNCHANGED <<tab, bar, listed>>
  /\ Done(s)
  /\ UNCHANGED <<server, isLogin, id, phone, polling, history>>
-----------------------------------------------------------------------------
(* The tabs: MyVehicleVC and ProfileVC.                                    *)

(* The tab bar is outside the loader's view.  MyVehicleVC asks for its list*)
(* when it appears; the screens above it hide the bar.                     *)
SelectTab(t) ==
  /\ tab \in {"home", "list", "profile"} \ {t} /\ bar /\ ~alert
  /\ tab' = t
  /\ bar' = (t # "list" \/ Here = 1)
  /\ IF t = "list" /\ Here = 1
       THEN Request("list", id, {})
       ELSE UNCHANGED <<cover, net>>
  /\ UNCHANGED <<server, local, stack, listed, alert, polling, history>>

(* An empty list has no first element: the process ends (see ListCrashes). *)
ListAnswered(s) ==
  /\ net[s].kind = "list" /\ net[s].ans = "ok" /\ net[s].cars # {}
  /\ listed' = IF net[s].at = 0 THEN listed ELSE net[s].cars
  /\ Done(s)
  /\ UNCHANGED <<server, local, stack, tab, bar, alert, polling, history>>

AddVehicle ==
  /\ Usable("list")
  /\ Push(Bare("vehicle"))
  /\ \E s \in Slots :
       net[s] = Idle /\ net' = [net EXCEPT ![s] = Call("models", Here + 1, id, {})]
  /\ cover' = Here + 1
  /\ UNCHANGED <<server, local, polling, history>>

(* btnRenew of an expired row.                                             *)
PurchasePlan(c) ==
  /\ Usable("list") /\ c \in listed
  /\ Push(Screen("plan", NoPhone, {c}))
  /\ UNCHANGED <<server, local, cover, polling, net, history>>

(* ChooseLanguageVC ends in makeRoot.                                      *)
ChooseLanguage ==
  /\ tab = "profile" /\ cover # Profile
  /\ TabBar
  /\ net' = Detached(net, Places) /\ cover' = 0
  /\ UNCHANGED <<server, local, history>>

Logout ==
  /\ tab = "profile" /\ ~alert /\ cover # Profile
  /\ \E s \in Slots :
       net[s] = Idle /\ net' = [net EXCEPT ![s] = Call("logout", Profile, id, {})]
  /\ cover' = Profile
  /\ UNCHANGED <<server, local, window, polling, history>>

(* myHandler, of any ProfileVC: is_paid, user_id and token stay behind.    *)
LoggedOut(s) ==
  /\ net[s].kind = "logout" /\ net[s].ans = "ok"
  /\ isLogin' = FALSE /\ bypass' = FALSE
  /\ NewWindow(<<Bare("login")>>, "none")
  /\ LeaveWindow(s)
  /\ UNCHANGED <<server, id, flag, phone, polling, mixed, hung>>
-----------------------------------------------------------------------------
(* The other answers, HomeVC's polls, and launches.                        *)

ModelsAnswered(s) ==
  /\ net[s].kind = "models" /\ net[s].ans = "ok"
  /\ Done(s)
  /\ UNCHANGED <<server, local, window, polling, history>>

(* "Failure", or errorBlock.                                               *)
Failed(s) ==
  /\ net[s].ans \in {"refused", "error"}
  /\ Done(s)
  /\ UNCHANGED <<server, local, window, polling, history>>

(* A poll of some HomeVC is answered: stopLoader.                          *)
PollAnswered ==
  /\ polling /\ cover # 0
  /\ cover' = 0
  /\ UNCHANGED <<server, local, window, polling, net, history>>

(* setRootVC of a process launched anew: is_paid is looked at first.       *)
NewProcess ==
  /\ phone' = NoPhone
  /\ hung' = FALSE
  /\ UNCHANGED <<server, isLogin, id, flag, mixed>>

LaunchVehicle ==
  /\ flag = "no"
  /\ NewProcess
  /\ bypass' = ~isLogin
  /\ NewWindow(<<Bare("vehicle")>>, "none") /\ polling' = FALSE
  /\ \E s \in Slots :
       net' = [[t \in Slots |-> Idle] EXCEPT ![s] = Call("models", 1, id, {})]
  /\ cover' = 1

LaunchLogin ==
  /\ flag # "no" /\ ~isLogin
  /\ NewProcess
  /\ bypass' = FALSE
  /\ NewWindow(<<Bare("login")>>, "none") /\ polling' = FALSE
  /\ net' = [t \in Slots |-> Idle] /\ cover' = 0

LaunchHome ==
  /\ flag # "no" /\ isLogin
  /\ NewProcess
  /\ bypass' = FALSE
  /\ TabBar
  /\ net' = [t \in Slots |-> Idle] /\ cover' = 0

Launch == LaunchVehicle \/ LaunchLogin \/ LaunchHome

(* arrayCarList[0] of an empty list: the user launches the app again.      *)
ListCrashes(s) ==
  /\ net[s].kind = "list" /\ net[s].ans = "ok" /\ net[s].cars = {}
  /\ Launch
-----------------------------------------------------------------------------
(* The account server and the network (external).                          *)

Pays(p) == \E c \in Cars : <<p, c>> \in payments
PaidOf(p) == IF Pays(p) THEN "yes" ELSE "no"
Waits(s, kind) == net[s].kind = kind /\ net[s].ans = "none"
Answer(s, a) == net' = [net EXCEPT ![s].ans = a]
Apart == UNCHANGED <<local, window, cover, polling, history>>

(* auth/login and auth/user_varification: what is_paid is for an unknown   *)
(* number is open.                                                         *)
ServeAccount(s) ==
  /\ Waits(s, "login") \/ Waits(s, "otp")
  /\ \E known \in BOOLEAN :
       /\ known <=> net[s].user \in members
       /\ \E paid \in IF known THEN {PaidOf(net[s].user)} ELSE {"", "no"} :
            net' = [net EXCEPT ![s].ans = "ok", ![s].paid = paid, ![s].known = known]
  /\ UNCHANGED server /\ Apart

ServeRegister(s) ==
  /\ Waits(s, "register")
  /\ members' = members \union {net[s].user}
  /\ Answer(s, IF net[s].user \in members THEN "refused" ELSE "ok")
  /\ UNCHANGED <<owner, payments>> /\ Apart

(* A request without a token is refused (and any at the bound on vehicles).*)
ServeAdd(s) ==
  /\ Waits(s, "add")
  /\ \/ \E c \in Cars :
          /\ net[s].user # NoPhone /\ owner[c] = NoPhone
          /\ owner' = [owner EXCEPT ![c] = net[s].user]
          /\ net' = [net EXCEPT ![s].ans = "ok", ![s].cars = {c}]
     \/ /\ net[s].user = NoPhone \/ \A c \in Cars : owner[c] # NoPhone
        /\ Answer(s, "refused") /\ UNCHANGED owner
  /\ UNCHANGED <<members, payments>> /\ Apart

ServePay(s) ==
  /\ Waits(s, "pay")
  /\ payments' = payments \union {<<net[s].user, c>> : c \in net[s].cars}
  /\ Answer(s, "ok")
  /\ UNCHANGED <<members, owner>> /\ Apart

ServeList(s) ==
  /\ Waits(s, "list")
  /\ net' = [net EXCEPT ![s].ans = "ok",
                        ![s].cars = {c \in Cars : net[s].user \in Phones
                                                /\ owner[c] = net[s].user}]
  /\ UNCHANGED server /\ Apart

ServeOther(s) ==
  /\ Waits(s, "models") \/ Waits(s, "logout")
  /\ Answer(s, "ok")
  /\ UNCHANGED server /\ Apart

(* A call is refused, or it or its answer is lost; an upload then ends as  *)
(* UploadWithoutValue unless the server refused it.                        *)
Lose(s) ==
  /\ net[s].kind # "idle"
  /\ \/ net[s].ans = "none" /\ Answer(s, "refused")
     \/ net[s].kind # "add" /\ net[s].ans \in {"none", "ok"} /\ Answer(s, "error")
  /\ UNCHANGED server /\ Apart
-----------------------------------------------------------------------------
User == \/ Continue \/ Register \/ Verify \/ Back
        \/ \E p \in Phones : SendOTP(p)
        \/ AddNewVehicle \/ ChoosePlan \/ AddVehicle
        \/ CheckoutPage \/ PaidPage \/ LeavePayment
        \/ \E t \in {"home", "list", "profile"} : SelectTab(t)
        \/ \E c \in Cars : PurchasePlan(c)
        \/ ChooseLanguage \/ Logout

Handle(s) == \/ LoginUnknown(s) \/ LoginPaid(s) \/ LoginUnpaid(s)
             \/ OtpAnswered(s) \/ Registered(s)
             \/ ModelsAnswered(s) \/ VehicleAdded(s) \/ UploadWithoutValue(s)
             \/ Paid(s) \/ ListAnswered(s) \/ ListCrashes(s)
             \/ LoggedOut(s) \/ Failed(s)

Serve(s) == \/ ServeAccount(s) \/ ServeRegister(s) \/ ServeAdd(s)
            \/ ServePay(s) \/ ServeList(s) \/ ServeOther(s)

Next == \/ User
        \/ PollAnswered
        \/ Launch
        \/ \E s \in Slots : Handle(s) \/ Serve(s) \/ Lose(s)

Spec == Init /\ [][Next]_vars
-----------------------------------------------------------------------------
Calls == [kind : Kinds, at : Places, user : Users, cars : SUBSET Cars,
          ans : {"none", "ok", "refused", "error"}, paid : Flags, known : BOOLEAN]
Screens == [vc : {"language", "login", "signup", "otp", "vehicle", "plan",
                  "payment", "list"},
            user : Users, cars : SUBSET Cars, card : BOOLEAN]

(* The types of the variables; a call's place is in the window.            *)
TypeOK ==
  /\ members \subseteq Users /\ owner \in [Cars -> Users]
  /\ payments \subseteq Users \X Cars
  /\ isLogin \in BOOLEAN /\ id \in Users /\ flag \in Flags /\ phone \in Users
  /\ stack \in Seq(Screens) /\ Here \in 1 .. MaxStack
  /\ tab \in {"none", "home", "list", "profile"}
  /\ bar \in BOOLEAN /\ listed \subseteq Cars /\ alert \in BOOLEAN
  /\ cover \in 0 .. Here \union {Profile} /\ polling \in BOOLEAN
  /\ net \in [Slots -> Calls]
  /\ \A s \in Slots : net[s].at \in 0 .. Here \union {Profile}
  /\ <<bypass, mixed, hung>> \in BOOLEAN \X BOOLEAN \X BOOLEAN

(* Whoever is signed in has an account at the server: the three answers    *)
(* that set isLogin and the late ones that change user_id or is_paid never *)
(* leave a session for a number the server does not know.                  *)
SignedInIsMember == isLogin => id \in members

(* Tabs are shown only to a signed-in user, whatever payment, logout and   *)
(* login answers arrive late; the one way round it is a launch that finds  *)
(* is_paid "no" left by a number nobody signed in with (AppDelegate 82).   *)
TabsNeedLogin == tab # "none" => isLogin \/ bypass

(* A payment is recorded for the account that added the vehicle, although  *)
(* AddVehicleVC, SubscriptionPlanVC and PaymentVC each read user_id or     *)
(* token at their own time; only an account written by a screen that was   *)
(* not on top (mixed) breaks this.                                         *)
PaidByOwner ==
  mixed \/ \A pay \in payments : owner[pay[2]] = pay[1]

(* The loader is over a screen only while a call of that screen is in      *)
(* flight, unless an upload was answered by neither block (Network 429).   *)
LoaderHasCall ==
  cover = 0 \/ hung \/ \E s \in Slots : net[s].kind # "idle" /\ net[s].at = cover

(* What the application and its server keep of accounts changes only as    *)
(* Accounts allows, through every order of answers, lost calls, screens    *)
(* left behind and launches.                                               *)
Account == INSTANCE Accounts
ImplementsAccounts == Account!Spec

(* The inductive invariant behind them.  Where a call was made its screen  *)
(* still is; an answer that signs in is about a member.                    *)
Caller(kind) ==
  CASE kind = "login" -> {"login"}
    [] kind \in {"otp", "register"} -> {"otp"}
    [] kind \in {"models", "add"} -> {"vehicle"}
    [] kind = "pay" -> {"payment"}
    [] kind = "list" -> {"list"}
    [] OTHER -> {}

CallOK(c) ==
  /\ c.at \in 1 .. Here => stack[c.at].vc \in Caller(c.kind)
  /\ c.at = Profile => c.kind = "logout"
  /\ c.kind = "login" /\ c.known => c.user \in members
  /\ c.kind = "register" /\ c.ans = "ok" => c.user \in members

(* A window with tabs has the list at the bottom of its vehicle tab.       *)
TabRoot == tab # "none" => stack[1].vc = "list"

(* Past the sign-in screens somebody is signed in.                         *)
SignIn == {"language", "login", "signup", "otp"}
PastSignIn ==
  tab # "none" \/ \E i \in 1 .. Here : stack[i].vc \notin SignIn
SignedInside == PastSignIn => isLogin \/ bypass

(* While no account was mixed up, sign-in screens have only such below     *)
(* them, and every vehicle a screen or a call names is its account's.      *)
Owns(u, cars) == \A c \in cars : u \in Phones /\ owner[c] = u

SignInFirst ==
  \A i \in 1 .. Here : stack[i].vc \in SignIn =>
    \A j \in 1 .. i : stack[j].vc \in SignIn
OwnScreens ==
  /\ \A i \in 1 .. Here : /\ Owns(id, stack[i].cars)
                          /\ stack[i].vc \in SignIn => stack[i].cars = {}
  /\ Owns(id, listed)
  /\ listed # {} => \E i \in 1 .. Here : stack[i].vc = "list"
OwnCalls ==
  \A s \in Slots :
    /\ Owns(net[s].user, net[s].cars)
    /\ net[s].kind \in {"add", "list"} /\ net[s].at # 0 => net[s].user = id
OwnPayments == \A pay \in payments : Owns(pay[1], {pay[2]})

CallsKnown == \A s \in Slots : CallOK(net[s])
Owned == mixed \/ (SignInFirst /\ OwnScreens /\ OwnCalls /\ OwnPayments)

IInv ==
  /\ TypeOK
  /\ CallsKnown
  /\ TabRoot
  /\ SignedInIsMember
  /\ SignedInside
  /\ Owned
  /\ LoaderHasCall

(* What the refinement needs besides: numbers are those that were typed,   *)
(* what is paid for is a vehicle, the device's account is registered, an   *)
(* answer that says it was paid is right, and as long as nobody has signed *)
(* in no screen or call names a vehicle.                                   *)
Numbers ==
  /\ \A i \in 1 .. Here : stack[i].vc \in {"signup", "otp"} => stack[i].user \in Phones
  /\ \A s \in Slots :
       /\ net[s].kind = "login" => phone \in Phones
       /\ net[s].kind \in {"login", "register", "pay"} => net[s].user \in Phones
Vehicles ==
  /\ \A i \in 1 .. Here : stack[i].vc \in {"plan", "payment"} => stack[i].cars # {}
  /\ \A s \in Slots : net[s].kind = "pay" \/ (net[s].kind = "add" /\ net[s].ans = "ok")
                        => net[s].cars # {}
AccountKnown ==
  /\ members \subseteq Phones /\ id \in members \union {NoPhone}
  /\ \A s \in Slots : net[s].kind = "add" => net[s].user \in members \union {NoPhone}
Marks ==
  \A s \in Slots : net[s].ans = "ok" =>
    /\ net[s].kind \in {"login", "otp"} /\ net[s].paid = "yes" => Pays(net[s].user)
    /\ net[s].kind = "login" /\ net[s].known => net[s].paid # ""
    /\ net[s].kind = "pay" => payments # {}
NobodyYet ==
  id = NoPhone =>
    /\ \A i \in 1 .. Here : stack[i].cars = {}
    /\ listed = {}
    /\ \A s \in Slots : /\ net[s].cars = {}
                        /\ net[s].kind \in {"add", "list"} => net[s].user = NoPhone

RInv == Numbers /\ Vehicles /\ AccountKnown /\ Marks /\ NobodyYet

(* The server answers and the main thread handles what it answered; users, *)
(* polls, losses and launches happen or not.                               *)
FairSpec == Spec /\ \A s \in Slots : WF_vars(Handle(s)) /\ WF_vars(Serve(s))

(* No screen stays blocked by the loader, whichever tabs are changed and   *)
(* windows replaced while its call is in flight, unless an upload was      *)
(* answered by neither block, the bound on screens is reached, or the      *)
(* process is ended again and again.                                       *)
LoaderEnds ==
  \/ cover # 0 ~> (cover = 0 \/ hung \/ Here = MaxStack)
  \/ []<><<Launch>>_vars
=============================================================================
